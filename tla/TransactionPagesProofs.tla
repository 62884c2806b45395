----------------------- MODULE TransactionPagesProofs ----------------------
(***************************************************************************)
(* Proofs about TransactionPages, for any set of transactions, any times   *)
(* and any page sizes: a walk to the last page misses nothing, and repeats *)
(* no more rows than transactions arrive.                                  *)
(***************************************************************************)
EXTENDS TransactionPages, SumTheorems

-----------------------------------------------------------------------------
(* The inductive invariants.                                               *)

\* The transactions listed before t: an untied one has as many rows before
\* it, whatever the order of the others.
Above(t) == {u \in Listed : created[u] > created[t]}

\* Rows up to the border are on the pages the walk has read.
Border == IF at = "count" THEN page * perPage ELSE Offset(page)

\* The variables, with what the pages may have shown and how many
\* transactions may have arrived.
RowsTyped ==
    /\ state \in [Txns -> {"none", "open", "listed", "gone"}]
    /\ created \in [Txns -> Stamps \cup {0}]

ClientTyped ==
    /\ at \in {"idle", "items", "count", "done"}
    /\ page \in Nat \ {0}
    /\ page = 1 \/ page <= Cardinality(Txns)
    /\ perPage \in PageSizes
    /\ at = "items" /\ page = 1 => present = {} /\ arrived = 0

ShownTyped ==
    /\ shown \in [Txns -> Nat]
    /\ \A t \in Txns : shown[t] <= IF at = "items" THEN page - 1 ELSE page
    /\ \A t \in Txns : shown[t] > 0 => t \in Listed
    /\ present \subseteq Listed
    /\ arrived \in 0..Cardinality(Listed)

PagesTyped == RowsTyped /\ ClientTyped /\ ShownTyped

\* What was listed when the walk began and has not been shown is beyond the
\* border; at the end there is nothing beyond it.
NothingPassed ==
    \A t \in present : Untied(t) /\ shown[t] = 0 =>
        /\ at # "done"
        /\ at \in {"items", "count"} => Cardinality(Above(t)) >= Border

\* The rows already shown that commits have pushed beyond the border: they
\* will be shown again.
Pushed == {t \in Shown : Cardinality(Above(t)) >= Border}

RepeatsDue ==
    (\A t \in Listed : Untied(t)) =>
        /\ Repeats <= arrived
        /\ at \in {"items", "count"} =>
             Repeats + Cardinality(Pushed) <= arrived

\* A row missed so far has a repeat in its place, unless places beyond the
\* border are left for it.
PlacesLeft ==
    /\ Cardinality(Listed) > Border
    /\ Cardinality(Listed \ Shown) + Border <= Repeats + Cardinality(Listed)

MissesDue ==
    /\ at = "done" => Cardinality(present \ Shown) <= Repeats
    /\ Walking => Cardinality(present \ Shown) <= Repeats \/ PlacesLeft

-----------------------------------------------------------------------------
(* Numbers of rows and pages.                                              *)

LEMMA TimesAreNumbers ==
    ASSUME RowsTyped
    PROVE  \A t \in Txns : created[t] \in Nat
<1>1. Stamps \cup {0} \subseteq Nat
  BY PageAssumption
<1>2. \A t \in Txns : created[t] \in Stamps \cup {0}
  BY DEF RowsTyped
<1>3. QED
  BY <1>1, <1>2

LEMMA ListedFinite ==
    /\ IsFiniteSet(Txns) /\ IsFiniteSet(Listed)
    /\ Cardinality(Txns) \in Nat /\ Cardinality(Listed) \in Nat
    /\ Cardinality(Listed) <= Cardinality(Txns)
    /\ \A t : /\ IsFiniteSet(Above(t)) /\ Above(t) \subseteq Listed
              /\ Cardinality(Above(t)) \in Nat
<1>1. IsFiniteSet(Txns)
  BY PageAssumption
<1>2. Listed \subseteq Txns
  BY DEF Listed
<1>3. IsFiniteSet(Listed) /\ Cardinality(Listed) <= Cardinality(Txns)
  BY <1>1, <1>2, FS_Subset
<1>4. ASSUME NEW t
      PROVE  IsFiniteSet(Above(t)) /\ Above(t) \subseteq Listed
  BY <1>3, FS_Subset DEF Above
<1>5. QED
  BY <1>1, <1>3, <1>4, FS_CardinalityType

\* The pages hold all the rows, and the last one is not empty.
LEMMA PagesHoldAll ==
    ASSUME perPage \in Nat \ {0}
    PROVE  /\ Pages \in Nat
           /\ Cardinality(Listed) <= Pages * perPage
           /\ Pages <= Cardinality(Listed)
<1>1. ASSUME NEW a \in Nat, NEW n \in Nat \ {0}
      PROVE  /\ (a + n - 1) \div n \in Nat
             /\ a <= ((a + n - 1) \div n) * n
             /\ (a + n - 1) \div n <= a
  <2>1. PICK b \in Nat : b = a + n - 1
    OBVIOUS
  <2>2. PICK q : q = b \div n
    OBVIOUS
  <2>3. q \in Nat /\ q * n <= b /\ b < q * n + n
    BY <2>2
  <2>4. a <= q * n
    BY <2>1, <2>3
  <2>5. q <= a
    <3>1. CASE a = 0
      <4>1. CASE q = 0
        BY <3>1, <4>1
      <4>2. CASE q # 0
        <5>1. PICK r \in Nat : q = r + 1
          BY <2>3, <4>2
        <5>2. q * n = r * n + n /\ r * n \in Nat
          BY <5>1
        <5>3. QED
          BY <2>1, <2>3, <3>1, <5>2
      <4>3. QED
        BY <4>1, <4>2
    <3>2. CASE a # 0 /\ q > a
      <4>1. PICK r \in Nat : q = a + 1 + r
        BY <2>3, <3>2
      <4>2. q * n = a * n + n + r * n /\ r * n \in Nat
        BY <4>1
      <4>3. PICK m \in Nat : n = m + 1
        OBVIOUS
      <4>4. a * n = a * m + a /\ a * m \in Nat
        BY <4>3
      <4>5. QED
        BY <2>1, <2>3, <4>2, <4>4
    <3>3. QED
      BY <2>3, <3>1, <3>2
  <2>6. QED
    BY <2>1, <2>2, <2>3, <2>4, <2>5
<1>2. PICK a \in Nat : a = Cardinality(Listed)
  BY ListedFinite
<1>3. PICK n \in Nat \ {0} : n = perPage
  OBVIOUS
<1>4. Pages = (a + n - 1) \div n
  BY <1>2, <1>3 DEF Pages
<1>5. QED
  BY <1>1, <1>2, <1>3, <1>4

\* The place of an untied row in the list is what is above it, whatever order
\* the query finds, and so is the page it is on.
LEMMA PlaceIsAbove ==
    ASSUME NEW o \in Orders, NEW t \in Listed, Untied(t), RowsTyped
    PROVE  \E i \in 1..Cardinality(Listed) :
              /\ o[i] = t /\ Cardinality(Above(t)) = i - 1
              /\ \A j \in 1..Cardinality(Listed) : o[j] = t => j = i
<1> DEFINE N == Cardinality(Listed)
<1>1. N \in Nat /\ IsFiniteSet(Listed)
  BY ListedFinite
<1>2. /\ o \in [1..N -> Listed]
      /\ \A i, j \in 1..N :
            i < j => o[i] # o[j] /\ created[o[i]] >= created[o[j]]
  BY DEF Orders
<1> HIDE DEF N
<1>3. o \in Injection(1..N, Listed)
  <2>1. \A i, j \in 1..N : o[i] = o[j] => i = j
    BY <1>1, <1>2
  <2>2. QED
    BY <1>2, <2>1 DEF Injection, IsInjective
<1>4. o \in Surjection(1..N, Listed)
  <2>1. IsFiniteSet(1..N) /\ Cardinality(1..N) = N
    BY <1>1, FS_Interval
  <2>2. QED
    BY <1>1, <1>3, <2>1, FS_Injection DEF N
<1>5. PICK i \in 1..N : o[i] = t
  BY <1>4 DEF Surjection
<1>6. i \in Nat \ {0} /\ i <= N
  BY <1>1, <1>5
<1>7. \A u \in Listed : created[u] \in Nat
  BY TimesAreNumbers DEF Listed
<1>8. Above(t) = {o[j] : j \in 1..(i - 1)}
  <2>1. ASSUME NEW j \in 1..(i - 1) PROVE o[j] \in Above(t)
    <3>1. j \in 1..N /\ j < i
      BY <1>1, <1>6
    <3>2. /\ o[j] \in Listed /\ o[j] # t
          /\ created[o[j]] >= created[t]
      BY <1>2, <1>5, <3>1
    <3>3. created[o[j]] # created[t]
      BY <3>2 DEF Untied
    <3>4. QED
      BY <1>7, <3>2, <3>3 DEF Above
  <2>2. ASSUME NEW u \in Above(t) PROVE u \in {o[j] : j \in 1..(i - 1)}
    <3>1. u \in Listed /\ created[u] > created[t]
      BY DEF Above
    <3>2. PICK j \in 1..N : o[j] = u
      BY <1>4, <3>1 DEF Surjection
    <3>3. ~(i < j) /\ i # j
      BY <1>2, <1>5, <1>7, <3>1, <3>2
    <3>4. j \in 1..(i - 1)
      BY <1>1, <1>6, <3>2, <3>3
    <3>5. QED
      BY <3>2, <3>4
  <2>3. QED
    BY <2>1, <2>2
<1>9. Cardinality(Above(t)) = i - 1
  <2> DEFINE g == [j \in 1..(i - 1) |-> o[j]]
  <2>1. \A j \in 1..(i - 1) : j \in 1..N
    BY <1>1, <1>6
  <2>2. g \in [1..(i - 1) -> Above(t)]
    BY <1>8
  <2>3. \A j, k \in 1..(i - 1) : g[j] = g[k] => j = k
    BY <1>1, <1>2, <2>1
  <2>4. \A u \in Above(t) : \E j \in 1..(i - 1) : g[j] = u
    BY <1>8
  <2> HIDE DEF g
  <2>5. g \in Bijection(1..(i - 1), Above(t))
    BY <2>2, <2>3, <2>4 DEF Bijection, Injection, IsInjective, Surjection
  <2>6. ExistsBijection(1..(i - 1), Above(t))
    BY <2>5 DEF ExistsBijection
  <2>7. i - 1 \in Nat
    BY <1>6
  <2>8. QED
    BY <2>6, <2>7, FS_CountingElements
<1>10. \A j \in 1..N : o[j] = t => j = i
  BY <1>1, <1>2, <1>5
<1>11. QED
  BY <1>5, <1>9, <1>10 DEF N

LEMMA PageOfRow ==
    ASSUME NEW o \in Orders, NEW t \in Listed, Untied(t), RowsTyped,
           perPage \in Nat, NEW p \in Nat \ {0}
    PROVE  t \in OnPage(o, p) <=>
              /\ Offset(p) <= Cardinality(Above(t))
              /\ Cardinality(Above(t)) < Offset(p) + perPage
<1>1. PICK i \in 1..Cardinality(Listed) :
        /\ o[i] = t /\ Cardinality(Above(t)) = i - 1
        /\ \A j \in 1..Cardinality(Listed) : o[j] = t => j = i
  BY PlaceIsAbove
<1>2. PICK N \in Nat : N = Cardinality(Listed)
  BY ListedFinite
<1>3. PICK f \in Nat : f = Offset(p)
  <2>1. \A a, b \in Nat : a * b \in Nat
    OBVIOUS
  <2>2. p - 1 \in Nat
    OBVIOUS
  <2>3. Offset(p) \in Nat
    BY <2>1, <2>2 DEF Offset
  <2>4. QED
    BY <2>3
<1>4. PICK m \in Int : m = Min({f + perPage, N})
                       /\ \A k \in Int : k <= m <=> k <= f + perPage /\ k <= N
  <2>1. PICK l \in Nat : l = f + perPage
    OBVIOUS
  <2>2. \/ l <= N /\ Min({l, N}) = l
        \/ N <= l /\ Min({l, N}) = N
    BY <1>2, <2>1 DEF Min
  <2>3. QED
    BY <1>2, <2>1, <2>2
<1>5. t \in OnPage(o, p) <=> \E k \in f + 1 .. m : o[k] = t
  BY <1>2, <1>3, <1>4 DEF OnPage
<1>6. (\E k \in f + 1 .. m : o[k] = t) <=> i \in f + 1 .. m
  <2>1. ASSUME NEW k \in f + 1 .. m PROVE k \in 1..N
    <3>1. k \in Int /\ f + 1 <= k /\ k <= m
      BY <1>3, <1>4
    <3>2. k <= N
      BY <1>4, <3>1
    <3>3. QED
      BY <1>2, <1>3, <3>1, <3>2
  <2>2. QED
    BY <1>1, <1>2, <2>1
<1>7. i \in f + 1 .. m <=> f <= i - 1 /\ i - 1 < f + perPage
  BY <1>1, <1>2, <1>3, <1>4
<1>8. QED
  BY <1>1, <1>3, <1>5, <1>6, <1>7

-----------------------------------------------------------------------------
(* What the other sessions do to the list.                                 *)

LEMMA CommitMoves ==
    ASSUME RowsTyped, NEW u \in Txns, CommitEntries(u)
    PROVE  /\ RowsTyped' /\ u \notin Listed /\ Listed' = Listed \cup {u}
           /\ Cardinality(Listed') = Cardinality(Listed) + 1
           /\ \A t \in Listed :
                /\ Untied(t)' => Untied(t)
                /\ Above(t)' = Above(t) \/ Above(t)' = Above(t) \cup {u}
                /\ \/ Cardinality(Above(t)') = Cardinality(Above(t))
                   \/ Cardinality(Above(t)') = Cardinality(Above(t)) + 1
<1>1. /\ state[u] = "open" /\ state' = [state EXCEPT ![u] = "listed"]
      /\ created' = created
  BY DEF CommitEntries
<1>2. RowsTyped' /\ u \notin Listed /\ Listed' = Listed \cup {u}
  BY <1>1 DEF RowsTyped, Listed
<1>3. Cardinality(Listed') = Cardinality(Listed) + 1
  BY <1>2, ListedFinite, FS_AddElement
<1>4. ASSUME NEW t \in Listed
      PROVE  /\ Untied(t)' => Untied(t)
             /\ Above(t)' = Above(t) \/ Above(t)' = Above(t) \cup {u}
             /\ \/ Cardinality(Above(t)') = Cardinality(Above(t))
                \/ Cardinality(Above(t)') = Cardinality(Above(t)) + 1
  <2>1. Untied(t)' => Untied(t)
    BY <1>1, <1>2 DEF Untied
  <2>2. Above(t)' = Above(t) \/ Above(t)' = Above(t) \cup {u}
    BY <1>1, <1>2 DEF Above
  <2>3. u \notin Above(t) /\ IsFiniteSet(Above(t))
    BY <1>2, ListedFinite
  <2>4. Cardinality(Above(t) \cup {u}) = Cardinality(Above(t)) + 1
    BY <2>3, FS_AddElement
  <2>5. QED
    BY <2>1, <2>2, <2>4
<1>5. QED
  BY <1>2, <1>3, <1>4

\* A flush or a rollback changes nothing that is listed.
LEMMA OthersKeepList ==
    ASSUME RowsTyped, NEW u \in Txns,
           (\E now \in Stamps : Flush(u, now)) \/ Abandon(u)
    PROVE  /\ RowsTyped' /\ Listed' = Listed
           /\ \A t \in Listed : Above(t)' = Above(t) /\ Untied(t)' = Untied(t)
           /\ UNCHANGED <<client, arrived>>
<1>1. CASE \E now \in Stamps : Flush(u, now)
  <2>1. PICK now \in Stamps : Flush(u, now)
    BY <1>1
  <2>2. /\ state[u] = "none" /\ state' = [state EXCEPT ![u] = "open"]
        /\ created' = [created EXCEPT ![u] = now]
        /\ UNCHANGED <<client, arrived>>
    BY <2>1 DEF Flush
  <2>3. RowsTyped' /\ Listed' = Listed /\ u \notin Listed
    BY <2>2 DEF RowsTyped, Listed
  <2>4. \A t \in Listed : created'[t] = created[t]
    BY <2>2, <2>3 DEF RowsTyped, Listed
  <2>5. QED
    BY <2>2, <2>3, <2>4 DEF Above, Untied
<1>2. CASE Abandon(u)
  <2>1. /\ state[u] = "open" /\ state' = [state EXCEPT ![u] = "gone"]
        /\ created' = created /\ UNCHANGED <<client, arrived>>
    BY <1>2 DEF Abandon
  <2>2. RowsTyped' /\ Listed' = Listed
    BY <2>1 DEF RowsTyped, Listed
  <2>3. QED
    BY <2>1, <2>2 DEF Above, Untied
<1>3. QED
  BY <1>1, <1>2

\* The client's steps leave the list alone.
LEMMA ClientKeepsList ==
    ASSUME UNCHANGED <<state, created>>
    PROVE  /\ Listed' = Listed /\ (RowsTyped => RowsTyped')
           /\ \A t : Above(t)' = Above(t) /\ Untied(t)' = Untied(t)
<1>1. Listed' = Listed
  BY DEF Listed
<1>2. QED
  BY <1>1 DEF RowsTyped, Above, Untied

-----------------------------------------------------------------------------
(* The types.                                                              *)

LEMMA SelectShows ==
    ASSUME PagesTyped, SelectItems
    PROVE  \E o \in Orders :
              /\ OnPage(o, page) \subseteq Listed
              /\ \A t \in Txns : shown'[t] =
                   IF t \in OnPage(o, page) THEN shown[t] + 1 ELSE shown[t]
              /\ shown' = [t \in Txns |-> shown'[t]]
<1>1. PICK o \in Orders :
        shown' = [t \in Txns |->
                    IF t \in OnPage(o, page) THEN shown[t] + 1 ELSE shown[t]]
  BY DEF SelectItems
<1>2. OnPage(o, page) \subseteq Listed
  <2> DEFINE N == Cardinality(Listed)
  <2>1. N \in Nat /\ o \in [1..N -> Listed]
    BY ListedFinite DEF Orders
  <2>2. Offset(page) \in Nat /\ perPage \in Nat
    <3>1. \A a, b \in Nat : a * b \in Nat
      OBVIOUS
    <3>2. page - 1 \in Nat /\ perPage \in Nat
      BY PageAssumption DEF PagesTyped, ClientTyped
    <3>3. QED
      BY <3>1, <3>2 DEF Offset
  <2> DEFINE f == Offset(page)
             l == f + perPage
  <2>3. l \in Nat
    BY <2>2
  <2> HIDE DEF N, f
  <2>4. Min({l, N}) \in Int /\ Min({l, N}) <= N
    <3> HIDE DEF l
    <3>1. \/ l <= N /\ Min({l, N}) = l
          \/ N <= l /\ Min({l, N}) = N
      BY <2>1, <2>3 DEF Min
    <3>2. QED
      BY <2>1, <2>3, <3>1
  <2>5. ASSUME NEW k \in f + 1 .. Min({l, N}) PROVE o[k] \in Listed
    <3>1. k \in 1..N
      BY <2>1, <2>2, <2>4 DEF f
    <3>2. QED
      BY <2>1, <3>1
  <2>6. QED
    BY <2>5 DEF OnPage, N, f
<1>3. QED
  BY <1>1, <1>2

LEMMA PagesInit == Init => PagesTyped
<1> SUFFICES ASSUME Init PROVE PagesTyped
  OBVIOUS
<1>1. RowsTyped /\ ClientTyped
  BY DEF Init, RowsTyped, ClientTyped
<1>2. Cardinality(Listed) \in Nat
  BY ListedFinite
<1>3. ShownTyped
  BY <1>2 DEF Init, ShownTyped
<1>4. QED
  BY <1>1, <1>3 DEF PagesTyped

LEMMA PagesStep == PagesTyped /\ [Next]_vars => PagesTyped'
<1> SUFFICES ASSUME PagesTyped, [Next]_vars PROVE PagesTyped'
  OBVIOUS
<1>1. /\ RowsTyped /\ ClientTyped /\ ShownTyped /\ page \in Nat \ {0}
      /\ perPage \in Nat \ {0} /\ Cardinality(Listed) \in Nat
      /\ Cardinality(Listed) <= Cardinality(Txns)
      /\ Cardinality(Txns) \in Nat
  BY ListedFinite, PageAssumption DEF PagesTyped, ClientTyped
<1>2. CASE UNCHANGED vars
  BY <1>1, <1>2 DEF vars, PagesTyped, RowsTyped, ClientTyped, ShownTyped,
     Listed
<1>3. ASSUME NEW u \in Txns, (\E now \in Stamps : Flush(u, now)) \/ Abandon(u)
      PROVE  PagesTyped'
  <2>1. RowsTyped' /\ Listed' = Listed /\ UNCHANGED <<client, arrived>>
    BY <1>1, <1>3, OthersKeepList
  <2>2. ClientTyped' /\ ShownTyped'
    BY <1>1, <2>1 DEF ClientTyped, ShownTyped, client
  <2>3. QED
    BY <2>1, <2>2 DEF PagesTyped
<1>4. ASSUME NEW u \in Txns, CommitEntries(u)
      PROVE  PagesTyped'
  <2>1. /\ RowsTyped' /\ Listed' = Listed \cup {u}
        /\ Cardinality(Listed') = Cardinality(Listed) + 1
    BY <1>1, <1>4, CommitMoves
  <2>2. /\ UNCHANGED client
        /\ \/ arrived' = arrived
           \/ arrived' = arrived + 1 /\ ~(at = "items" /\ page = 1)
    BY <1>1, <1>4 DEF CommitEntries, Walking, ClientTyped
  <2>3. ClientTyped'
    BY <1>1, <2>2 DEF ClientTyped, client
  <2>4. arrived' \in 0..Cardinality(Listed')
    BY <1>1, <2>1, <2>2 DEF ShownTyped
  <2>5. ShownTyped'
    BY <1>1, <2>1, <2>2, <2>4 DEF ShownTyped, client
  <2>6. QED
    BY <2>1, <2>3, <2>5 DEF PagesTyped
<1>5. CASE StartWalk
  <2>1. /\ at' = "items" /\ page' = 1 /\ perPage' \in PageSizes
        /\ present' = {} /\ shown' = [t \in Txns |-> 0] /\ arrived' = 0
        /\ RowsTyped' /\ Listed' = Listed
    BY <1>1, <1>5, ClientKeepsList DEF StartWalk
  <2>2. ClientTyped'
    BY <2>1 DEF ClientTyped
  <2>3. ShownTyped'
    BY <1>1, <2>1 DEF ShownTyped
  <2>4. QED
    BY <2>1, <2>2, <2>3 DEF PagesTyped
<1>6. CASE SelectItems
  <2>1. /\ at = "items" /\ at' = "count" /\ UNCHANGED <<page, perPage, arrived>>
        /\ present' \subseteq Listed' /\ RowsTyped' /\ Listed' = Listed
    BY <1>1, <1>6, ClientKeepsList DEF SelectItems, ShownTyped
  <2>2. ClientTyped'
    BY <1>1, <2>1 DEF ClientTyped
  <2>3. PICK o \in Orders :
          /\ OnPage(o, page) \subseteq Listed
          /\ \A t \in Txns : shown'[t] =
               IF t \in OnPage(o, page) THEN shown[t] + 1 ELSE shown[t]
          /\ shown' = [t \in Txns |-> shown'[t]]
    BY <1>6, SelectShows
  <2>4. ASSUME NEW t \in Txns
        PROVE  /\ shown'[t] \in Nat /\ shown'[t] <= page
               /\ shown'[t] > 0 => t \in Listed
    <3>1. /\ shown[t] \in Nat /\ shown[t] <= page - 1
          /\ shown[t] > 0 => t \in Listed
      BY <1>1, <2>1 DEF ShownTyped
    <3>2. QED
      BY <1>1, <2>3, <3>1
  <2>5. ShownTyped'
    BY <1>1, <2>1, <2>3, <2>4 DEF ShownTyped
  <2>6. QED
    BY <2>1, <2>2, <2>5 DEF PagesTyped
<1>7. CASE SelectCount
  <2>1. /\ at = "count" /\ UNCHANGED <<perPage, present, shown, arrived>>
        /\ \/ page < Pages /\ at' = "items" /\ page' = page + 1
           \/ at' = "done" /\ page' = page
        /\ RowsTyped' /\ Listed' = Listed
    BY <1>1, <1>7, ClientKeepsList DEF SelectCount
  <2>2. Pages \in Nat /\ Pages <= Cardinality(Listed)
    BY <1>1, PagesHoldAll
  <2>3. ClientTyped'
    BY <1>1, <2>1, <2>2 DEF ClientTyped
  <2>4. ShownTyped'
    BY <1>1, <2>1 DEF ShownTyped
  <2>5. QED
    BY <2>1, <2>3, <2>4 DEF PagesTyped
<1>8. CASE GiveUp
  <2>1. /\ at \in {"items", "count"} /\ at' = "idle"
        /\ UNCHANGED <<page, perPage, present, shown, arrived>>
        /\ RowsTyped' /\ Listed' = Listed
    BY <1>1, <1>8, ClientKeepsList DEF GiveUp
  <2>2. ClientTyped'
    BY <1>1, <2>1 DEF ClientTyped
  <2>3. ASSUME NEW t \in Txns PROVE shown'[t] <= page'
    BY <1>1, <2>1 DEF ShownTyped
  <2>4. ShownTyped'
    BY <1>1, <2>1, <2>3 DEF ShownTyped
  <2>5. QED
    BY <2>1, <2>2, <2>4 DEF PagesTyped
<1>9. QED
  BY <1>2, <1>3, <1>4, <1>5, <1>6, <1>7, <1>8 DEF Next

LEMMA PagesAlways == Spec => []PagesTyped
BY PagesInit, PagesStep, PTL DEF Spec

\* The variables keep to their values and only what is committed is shown,
\* whatever the transactions, the times and the page sizes.
THEOREM TypeCorrect == Spec => []TypeOK
<1>1. ASSUME PagesTyped PROVE TypeOK
  <2>1. /\ Cardinality(Txns) \in Nat /\ page \in Nat \ {0}
        /\ Cardinality(Listed) <= Cardinality(Txns)
        /\ Cardinality(Listed) \in Nat
    BY <1>1, ListedFinite DEF PagesTyped, ClientTyped
  <2>2. arrived \in 0..Cardinality(Txns)
    BY <1>1, <2>1 DEF PagesTyped, ShownTyped
  <2>3. ASSUME NEW t \in Txns PROVE shown[t] \in 0..Cardinality(Txns)
    <3>1. Cardinality(Txns) # 0
      BY FS_EmptySet, PageAssumption
    <3>2. page <= Cardinality(Txns)
      BY <1>1, <2>1, <3>1 DEF PagesTyped, ClientTyped
    <3>3. shown[t] \in Nat /\ shown[t] <= page
      BY <1>1, <2>1 DEF PagesTyped, ShownTyped
    <3>4. QED
      BY <2>1, <3>2, <3>3
  <2>4. shown \in [Txns -> 0..Cardinality(Txns)]
    BY <1>1, <2>3 DEF PagesTyped, ShownTyped
  <2>5. page = 1 \/ page \in 1..Cardinality(Txns)
    BY <1>1, <2>1 DEF PagesTyped, ClientTyped
  <2>6. \A t \in Txns : t \in present \/ shown[t] > 0 => state[t] = "listed"
    BY <1>1 DEF PagesTyped, ShownTyped, Listed
  <2>7. QED
    BY <1>1, <2>2, <2>4, <2>5, <2>6
       DEF TypeOK, PagesTyped, RowsTyped, ClientTyped
<1>2. QED
  BY <1>1, PagesAlways, PTL

-----------------------------------------------------------------------------
(* A walk misses nothing.                                                  *)

LEMMA Borders ==
    ASSUME PagesTyped
    PROVE  /\ Offset(page) \in Nat /\ page * perPage \in Nat
           /\ Offset(page) + perPage = page * perPage
           /\ Offset(page + 1) = page * perPage
           /\ page = 1 => Offset(page) = 0
           /\ Border \in Nat
<1>1. page \in Nat \ {0} /\ perPage \in Nat \ {0}
  BY PageAssumption DEF PagesTyped, ClientTyped
<1>2. PICK q \in Nat : page = q + 1
  BY <1>1
<1>3. PICK n \in Nat : n = perPage
  BY <1>1
<1>4. q * n \in Nat /\ (q + 1) * n = q * n + n
  OBVIOUS
<1>5. page - 1 = q /\ (page + 1) - 1 = q + 1 /\ (page = 1 => q = 0)
  BY <1>2
<1>6. /\ Offset(page) = q * n /\ page * perPage = q * n + n
      /\ Offset(page + 1) = q * n + n
  BY <1>2, <1>3, <1>4, <1>5 DEF Offset
<1>7. q = 0 => q * n = 0
  BY <1>3
<1>8. QED
  BY <1>3, <1>4, <1>5, <1>6, <1>7 DEF Border

\* When no page follows, the border is at the end of the list.
LEMMA LastPageEnds ==
    ASSUME PagesTyped, ~(page < Pages)
    PROVE  Cardinality(Listed) <= page * perPage
<1>1. page \in Nat \ {0} /\ perPage \in Nat \ {0}
  BY PageAssumption DEF PagesTyped, ClientTyped
<1>2. /\ Pages \in Nat /\ Cardinality(Listed) <= Pages * perPage
      /\ Cardinality(Listed) \in Nat
  BY <1>1, PagesHoldAll, ListedFinite
<1>3. ASSUME NEW a \in Nat, NEW b \in Nat, NEW n \in Nat, a <= b
      PROVE  a * n <= b * n
  <2>1. PICK d \in Nat : b = a + d
    BY <1>3
  <2>2. b * n = a * n + d * n /\ d * n \in Nat /\ a * n \in Nat
    BY <2>1
  <2>3. QED
    BY <2>2
<1>4. Pages * perPage <= page * perPage
  BY <1>1, <1>2, <1>3
<1>5. page * perPage \in Nat /\ Pages * perPage \in Int
  BY <1>1, <1>2, Borders
<1>6. QED
  BY <1>2, <1>4, <1>5

LEMMA PassedStep == PagesTyped /\ NothingPassed /\ [Next]_vars => NothingPassed'
<1> SUFFICES ASSUME PagesTyped, NothingPassed, [Next]_vars,
                    NEW t \in present', Untied(t)', shown'[t] = 0
             PROVE  /\ at' # "done"
                    /\ at' \in {"items", "count"} =>
                         Cardinality(Above(t)') >= Border'
  BY DEF NothingPassed
<1>1. /\ RowsTyped /\ ClientTyped /\ ShownTyped
      /\ page \in Nat \ {0} /\ perPage \in Nat \ {0}
  BY PageAssumption DEF PagesTyped, ClientTyped
<1>2. CASE UNCHANGED vars
  BY <1>2 DEF vars, NothingPassed, Untied, Listed, Above, Border, Offset
<1>3. ASSUME NEW u \in Txns,
             CommitEntries(u) \/ (\E now \in Stamps : Flush(u, now))
               \/ Abandon(u)
      PROVE  /\ at' # "done"
             /\ at' \in {"items", "count"} =>
                  Cardinality(Above(t)') >= Border'
  <2>1. UNCHANGED client
    BY <1>3 DEF CommitEntries, Flush, Abandon
  <2>2. t \in present /\ t \in Listed /\ shown[t] = 0 /\ Border' = Border
    BY <1>1, <2>1 DEF client, ShownTyped, Border, Offset
  <2>3. /\ Untied(t)
        /\ \/ Cardinality(Above(t)') = Cardinality(Above(t))
           \/ Cardinality(Above(t)') = Cardinality(Above(t)) + 1
    <3>1. CASE CommitEntries(u)
      BY <1>1, <2>2, <3>1, CommitMoves
    <3>2. CASE (\E now \in Stamps : Flush(u, now)) \/ Abandon(u)
      BY <1>1, <2>2, <3>2, OthersKeepList
    <3>3. QED
      BY <1>3, <3>1, <3>2
  <2>4. Cardinality(Above(t)) \in Nat /\ Border \in Nat
    BY ListedFinite, Borders
  <2>5. QED
    BY <2>1, <2>2, <2>3, <2>4 DEF NothingPassed, client
<1>4. CASE StartWalk
  BY <1>4 DEF StartWalk
<1>5. CASE SelectItems
  <2>1. /\ at = "items" /\ at' = "count" /\ UNCHANGED <<page, perPage>>
        /\ present' = IF page = 1 THEN Listed ELSE present
        /\ Untied(t) /\ Above(t)' = Above(t)
    BY <1>5, ClientKeepsList DEF SelectItems
  <2>2. t \in Listed
    BY <1>1, <2>1 DEF ShownTyped
  <2>3. PICK o \in Orders :
          shown'[t] = IF t \in OnPage(o, page) THEN shown[t] + 1 ELSE shown[t]
    BY <1>5, <2>2, SelectShows DEF Listed
  <2>4. shown[t] \in Nat
    BY <1>1, <2>2 DEF ShownTyped, Listed
  <2>5. t \notin OnPage(o, page) /\ shown[t] = 0
    BY <2>3, <2>4
  <2>6. Cardinality(Above(t)) \in Nat /\ Offset(page) \in Nat
    BY ListedFinite, Borders
  <2>7. Offset(page) <= Cardinality(Above(t))
    <3>1. CASE page = 1
      BY <2>6, <3>1, Borders
    <3>2. CASE page # 1
      BY <2>1, <2>5, <2>6, <3>2 DEF NothingPassed, Border
    <3>3. QED
      BY <3>1, <3>2
  <2>8. ~(Cardinality(Above(t)) < Offset(page) + perPage)
    BY <1>1, <2>1, <2>2, <2>5, <2>7, PageOfRow
  <2>9. Border' = page * perPage /\ Offset(page) + perPage = page * perPage
    BY <2>1, Borders DEF Border
  <2>10. QED
    BY <1>1, <2>1, <2>6, <2>8, <2>9
<1>6. CASE SelectCount
  <2>1. /\ at = "count" /\ UNCHANGED <<perPage, present, shown>>
        /\ \/ page < Pages /\ at' = "items" /\ page' = page + 1
           \/ ~(page < Pages) /\ at' = "done" /\ page' = page
        /\ Untied(t) /\ Above(t)' = Above(t)
    BY <1>6, ClientKeepsList DEF SelectCount
  <2>2. /\ t \in Listed
        /\ Cardinality(Above(t)) >= page * perPage
    BY <1>1, <2>1 DEF NothingPassed, Border, ShownTyped
  <2>3. Cardinality(Above(t)) < Cardinality(Listed)
    <3>1. t \notin Above(t)
      BY <1>1, TimesAreNumbers DEF Above, Listed
    <3>2. Above(t) # Listed
      BY <2>2, <3>1
    <3>3. QED
      BY <3>2, ListedFinite, FS_Subset
  <2>4. page < Pages
    <3>1. /\ Cardinality(Listed) \in Nat /\ Cardinality(Above(t)) \in Nat
          /\ page * perPage \in Nat
      BY ListedFinite, Borders
    <3>2. QED
      BY <2>2, <2>3, <3>1, LastPageEnds
  <2>5. at' = "items" /\ Border' = page * perPage
    BY <2>1, <2>4, Borders DEF Border, Offset
  <2>6. QED
    BY <2>1, <2>2, <2>5
<1>7. CASE GiveUp
  BY <1>7 DEF GiveUp
<1>8. QED
  BY <1>2, <1>3, <1>4, <1>5, <1>6, <1>7 DEF Next

\* A client that has walked to the last page has seen every transaction that
\* was listed when it began and shares its time with none: for any number of
\* transactions, wherever in the list the others commit, and whatever the
\* page size.
THEOREM WalkMissesNothing == Spec => []NothingMissed
<1>1. Init => NothingPassed
  BY DEF Init, NothingPassed
<1>2. Spec => []NothingPassed
  BY <1>1, PassedStep, PagesAlways, PTL DEF Spec
<1>3. PagesTyped /\ NothingPassed => NothingMissed
  <2> SUFFICES ASSUME PagesTyped, NothingPassed, at = "done",
                      NEW t \in present, Untied(t)
               PROVE  shown[t] > 0
    BY DEF NothingMissed
  <2>1. shown[t] # 0
    BY DEF NothingPassed
  <2>2. shown[t] \in Nat
    BY DEF PagesTyped, ShownTyped, Listed
  <2>3. QED
    BY <2>1, <2>2
<1>4. QED
  BY <1>2, <1>3, PagesAlways, PTL

-----------------------------------------------------------------------------
(* A walk repeats no more rows than arrive.                                *)

\* Showing the rows of P once more repeats those that were shown already.
LEMMA RepeatsGrow ==
    ASSUME shown \in [Txns -> Nat], shown' \in [Txns -> Nat],
           NEW P, P \subseteq Txns,
           \A t \in Txns :
              shown'[t] = IF t \in P THEN shown[t] + 1 ELSE shown[t]
    PROVE  /\ Shown' = Shown \cup P
           /\ Repeats' = Repeats + Cardinality(Shown \cap P)
<1> DEFINE f == [t \in Txns |-> shown[t] - 1]
           g == [t \in Txns |-> IF t \in P THEN 1 ELSE 0]
           h == [t \in Txns |-> shown'[t] - 1]
           New == P \ Shown
           Again == Shown \cap P
           Other == Shown \ P
<1>1. /\ Shown' = Shown \cup P /\ Shown' = Shown \cup New
      /\ Shown \cap New = {} /\ Again \cap Other = {}
      /\ Shown = Again \cup Other
  BY DEF Shown
<1>2. Shown \subseteq Txns /\ IsFiniteSet(Txns)
  BY ListedFinite DEF Shown
<1>3. /\ IsFiniteSet(Shown) /\ IsFiniteSet(New) /\ IsFiniteSet(Again)
      /\ IsFiniteSet(Other)
  BY <1>2, FS_Subset
<1>4. \A t \in Txns : f[t] \in Int /\ g[t] \in Int /\ h[t] \in Int
                      /\ h[t] = f[t] + g[t]
  OBVIOUS
<1>5. /\ \A t \in New : h[t] = 0
      /\ \A t \in Again : g[t] = 1
      /\ \A t \in Other : g[t] = 0
  BY DEF Shown
<1>6. Repeats = SumFunctionOnSet(f, Shown)
      /\ Repeats' = SumFunctionOnSet(h, Shown')
  BY DEF Repeats
<1> HIDE DEF f, g, h, New, Again, Other
<1>7. SumFunctionOnSet(h, Shown \cup New)
        = SumFunctionOnSet(h, Shown) + SumFunctionOnSet(h, New)
  <2>1. \A t \in Shown \cup New : h[t] \in Int
    BY <1>2, <1>4 DEF New
  <2>2. QED
    BY <1>1, <1>3, <2>1, SumUnion
<1>8. SumFunctionOnSet(h, New) = 0
  BY <1>3, <1>5, SumZeros
<1>9. SumFunctionOnSet(h, Shown)
        = SumFunctionOnSet(f, Shown) + SumFunctionOnSet(g, Shown)
  <2>1. \A t \in Shown : f[t] \in Int /\ g[t] \in Int /\ h[t] = f[t] + g[t]
    BY <1>2, <1>4
  <2>2. QED
    BY <1>3, <2>1, SumPlus
<1>10. SumFunctionOnSet(g, Again \cup Other)
         = SumFunctionOnSet(g, Again) + SumFunctionOnSet(g, Other)
  <2>1. \A t \in Again \cup Other : g[t] \in Int
    BY <1>5
  <2>2. QED
    BY <1>1, <1>3, <2>1, SumUnion
<1>11. /\ SumFunctionOnSet(g, Again) = Cardinality(Again)
       /\ SumFunctionOnSet(g, Other) = 0
  BY <1>3, <1>5, SumOnes, SumZeros
<1>12. /\ SumFunctionOnSet(f, Shown) \in Int /\ Cardinality(Again) \in Nat
  <2>1. \A t \in Shown : f[t] \in Int
    BY <1>2, <1>4
  <2>2. QED
    BY <1>3, <2>1, SumInt, FS_CardinalityType
<1>13. Repeats' = Repeats + Cardinality(Again)
  <2>1. Repeats' = SumFunctionOnSet(h, Shown) + 0
    BY <1>1, <1>6, <1>7, <1>8
  <2>2. SumFunctionOnSet(g, Shown) = Cardinality(Again)
    BY <1>1, <1>10, <1>11, <1>12
  <2>3. QED
    BY <1>6, <1>9, <1>12, <2>1, <2>2
<1>14. QED
  BY <1>1, <1>13 DEF Again

LEMMA RepeatsTyped ==
    PagesTyped => /\ Repeats \in Int /\ IsFiniteSet(Pushed)
                  /\ Shown \subseteq Listed /\ Cardinality(Pushed) \in Nat
<1> SUFFICES ASSUME PagesTyped
             PROVE  /\ Repeats \in Int /\ IsFiniteSet(Pushed)
                    /\ Shown \subseteq Listed /\ Cardinality(Pushed) \in Nat
  OBVIOUS
<1> DEFINE f == [t \in Txns |-> shown[t] - 1]
<1>1. /\ Shown \subseteq Txns /\ IsFiniteSet(Txns) /\ Shown \subseteq Listed
      /\ Pushed \subseteq Txns
  BY ListedFinite DEF Shown, Pushed, PagesTyped, ShownTyped
<1>2. \A t \in Shown : f[t] \in Int
  BY DEF PagesTyped, ShownTyped, Shown
<1>3. Repeats = SumFunctionOnSet(f, Shown)
  BY DEF Repeats
<1> HIDE DEF f
<1>4. IsFiniteSet(Shown) /\ IsFiniteSet(Pushed)
  BY <1>1, FS_Subset
<1>5. QED
  BY <1>1, <1>2, <1>3, <1>4, SumInt, FS_CardinalityType

\* Two rows of different times do not have the same place.
LEMMA PlacesDiffer ==
    ASSUME RowsTyped, NEW t \in Listed, NEW u \in Listed,
           Untied(t), u # t
    PROVE  Cardinality(Above(t)) # Cardinality(Above(u))
<1>1. /\ created[t] \in Nat /\ created[u] \in Nat /\ created[t] # created[u]
      /\ \A v \in Listed : created[v] \in Nat
  BY TimesAreNumbers DEF Listed, Untied
<1>2. ASSUME NEW v \in Listed, NEW w \in Listed, created[v] > created[w],
             created[v] \in Nat, created[w] \in Nat
      PROVE  Cardinality(Above(v)) # Cardinality(Above(w))
  <2>1. /\ Above(v) \subseteq Above(w)
    BY <1>1, <1>2 DEF Above
  <2>2. v \in Above(w) /\ v \notin Above(v)
    BY <1>2 DEF Above
  <2>3. QED
    BY <2>1, <2>2, ListedFinite, FS_Subset
<1>3. CASE created[t] > created[u]
  BY <1>1, <1>2, <1>3
<1>4. CASE created[u] > created[t]
  BY <1>1, <1>2, <1>4
<1>5. QED
  BY <1>1, <1>3, <1>4

\* A commit pushes one row beyond the border at most.
LEMMA CommitPushesOne ==
    ASSUME PagesTyped, NEW u \in Txns, CommitEntries(u),
           \A t \in Listed' : Untied(t)'
    PROVE  Cardinality(Pushed') <= Cardinality(Pushed) + 1
<1>1. /\ RowsTyped /\ IsFiniteSet(Pushed) /\ Shown \subseteq Listed
      /\ Cardinality(Pushed) \in Nat /\ Border \in Nat
  BY RepeatsTyped, Borders DEF PagesTyped
<1>2. /\ Shown' = Shown /\ Border' = Border
  BY DEF CommitEntries, client, Shown, Border, Offset
<1>3. /\ Listed \subseteq Listed'
      /\ \A t \in Listed :
            \/ Cardinality(Above(t)') = Cardinality(Above(t))
            \/ Cardinality(Above(t)') = Cardinality(Above(t)) + 1
      /\ \A t \in Listed : Untied(t)
  BY <1>1, CommitMoves
<1>4. \A t : Cardinality(Above(t)) \in Nat
  BY ListedFinite
<1> DEFINE Late == {t \in Listed : Cardinality(Above(t)) = Border - 1}
<1>5. Pushed' \subseteq Pushed \cup Late
  BY <1>1, <1>2, <1>3, <1>4 DEF Pushed
<1>6. \A t, v \in Late : t = v
  BY <1>1, <1>3, PlacesDiffer
<1>7. \E x : Pushed' \subseteq Pushed \cup {x}
  BY <1>5, <1>6
<1>8. PICK x : Pushed' \subseteq Pushed \cup {x}
  BY <1>7
<1>9. /\ IsFiniteSet(Pushed \cup {x})
      /\ Cardinality(Pushed \cup {x}) <= Cardinality(Pushed) + 1
      /\ Cardinality(Pushed \cup {x}) \in Nat
  BY <1>1, FS_AddElement, FS_CardinalityType
<1>10. /\ Cardinality(Pushed') <= Cardinality(Pushed \cup {x})
       /\ IsFiniteSet(Pushed')
  BY <1>8, <1>9, FS_Subset
<1>11. Cardinality(Pushed') \in Nat
  BY <1>10, FS_CardinalityType
<1>12. QED
  BY <1>1, <1>9, <1>10, <1>11

\* A page takes the rows it repeats out of those beyond the border.
LEMMA SelectRepeatsPushed ==
    ASSUME PagesTyped, PagesTyped', SelectItems, \A t \in Listed : Untied(t)
    PROVE  Repeats' + Cardinality(Pushed') = Repeats + Cardinality(Pushed)
<1>1. /\ RowsTyped /\ page \in Nat \ {0} /\ perPage \in Nat
      /\ at = "items" /\ at' = "count" /\ UNCHANGED <<page, perPage>>
      /\ shown \in [Txns -> Nat] /\ shown' \in [Txns -> Nat]
      /\ \A t : Above(t)' = Above(t)
  BY ClientKeepsList, PageAssumption
     DEF PagesTyped, ClientTyped, ShownTyped, SelectItems
<1>2. PICK o \in Orders :
        /\ OnPage(o, page) \subseteq Listed
        /\ \A t \in Txns : shown'[t] =
             IF t \in OnPage(o, page) THEN shown[t] + 1 ELSE shown[t]
  BY SelectShows
<1>3. PICK P : P = OnPage(o, page)
  OBVIOUS
<1>4. P \subseteq Txns
  BY <1>2, <1>3 DEF Listed
<1>5. /\ Shown' = Shown \cup P
      /\ Repeats' = Repeats + Cardinality(Shown \cap P)
  BY <1>1, <1>2, <1>3, <1>4, RepeatsGrow
<1>6. /\ Offset(page) \in Nat /\ Border = Offset(page)
      /\ Border' = Offset(page) + perPage
  BY <1>1, Borders DEF Border
<1>7. \A t \in Listed :
         t \in P <=> /\ Offset(page) <= Cardinality(Above(t))
                     /\ Cardinality(Above(t)) < Offset(page) + perPage
  BY <1>1, <1>2, <1>3, PageOfRow
<1>8. /\ \A t : Cardinality(Above(t)) \in Nat
      /\ Shown \subseteq Listed /\ IsFiniteSet(Pushed)
      /\ Repeats \in Int
  BY ListedFinite, RepeatsTyped
<1>9. Pushed' \subseteq Shown
  BY <1>1, <1>2, <1>3, <1>5, <1>6, <1>7, <1>8 DEF Pushed
<1>10. /\ Pushed = (Shown \cap P) \cup Pushed'
       /\ (Shown \cap P) \cap Pushed' = {}
  <2>1. ASSUME NEW t \in Shown
        PROVE  /\ t \in Pushed <=> Offset(page) <= Cardinality(Above(t))
               /\ t \in Pushed' <=>
                    Offset(page) + perPage <= Cardinality(Above(t))
    BY <1>1, <1>5, <1>6, <1>8 DEF Pushed
  <2>2. ASSUME NEW t \in Shown
        PROVE  /\ t \in Pushed <=> t \in P \/ t \in Pushed'
               /\ ~(t \in P /\ t \in Pushed')
    BY <1>1, <1>6, <1>7, <1>8, <2>1
  <2>3. Pushed \subseteq Shown
    BY DEF Pushed
  <2>4. QED
    BY <1>9, <2>2, <2>3
<1>11. /\ IsFiniteSet(Shown \cap P) /\ IsFiniteSet(Pushed')
       /\ Cardinality(Shown \cap P) \in Nat /\ Cardinality(Pushed') \in Nat
  <2>1. IsFiniteSet(Shown \cap P) /\ IsFiniteSet(Pushed')
    BY <1>8, <1>10, FS_Subset
  <2>2. QED
    BY <2>1, FS_CardinalityType
<1>12. Cardinality(Pushed) = Cardinality(Shown \cap P) + Cardinality(Pushed')
  <2>1. PICK A, B : A = Shown \cap P /\ B = Pushed'
    OBVIOUS
  <2>2. IsFiniteSet(A) /\ IsFiniteSet(B) /\ A \cap B = {} /\ Pushed = A \cup B
    BY <1>10, <1>11, <2>1
  <2>3. Cardinality(A \cap B) = 0
    BY <2>2, FS_EmptySet
  <2>4. Cardinality(A \cup B) = Cardinality(A) + Cardinality(B) - 0
    BY <2>2, <2>3, FS_Union
  <2>5. QED
    BY <1>11, <2>1, <2>2, <2>4
<1>13. QED
  BY <1>5, <1>8, <1>11, <1>12

NoneShown == \A t \in Txns : shown[t] = 0

LEMMA NothingShown == NoneShown => Repeats = 0 /\ Cardinality(Pushed) = 0
<1> SUFFICES ASSUME NoneShown
             PROVE  Repeats = 0 /\ Cardinality(Pushed) = 0
  OBVIOUS
<1>1. Shown = {} /\ Pushed = {}
  BY DEF NoneShown, Shown, Pushed
<1>2. QED
  BY <1>1, SumEmpty, FS_EmptySet DEF Repeats

Counted == Repeats \in Int /\ Cardinality(Pushed) \in Nat
CountedNone == Repeats = 0 /\ Cardinality(Pushed) = 0

LEMMA AfterAStep ==
    /\ PagesTyped' => Counted'
    /\ NoneShown' => CountedNone'
<1>1. PagesTyped => Counted
  BY RepeatsTyped DEF Counted
<1>2. NoneShown => CountedNone
  BY NothingShown DEF CountedNone
<1>3. QED
  BY <1>1, <1>2, PTL

LEMMA RepeatsStep == PagesTyped /\ RepeatsDue /\ [Next]_vars => RepeatsDue'
<1> SUFFICES ASSUME PagesTyped, RepeatsDue, [Next]_vars,
                    \A t \in Listed' : Untied(t)'
             PROVE  /\ Repeats' <= arrived'
                    /\ at' \in {"items", "count"} =>
                         Repeats' + Cardinality(Pushed') <= arrived'
  BY DEF RepeatsDue
<1>1. /\ RowsTyped /\ ClientTyped /\ ShownTyped /\ PagesTyped'
      /\ page \in Nat \ {0} /\ perPage \in Nat \ {0}
      /\ Repeats \in Int /\ Cardinality(Pushed) \in Nat /\ arrived \in Nat
      /\ Repeats' \in Int /\ Cardinality(Pushed') \in Nat /\ arrived' \in Nat
  <2>1. PagesTyped'
    BY PagesStep
  <2>2. Repeats' \in Int /\ Cardinality(Pushed') \in Nat
    BY <2>1, AfterAStep DEF Counted, CountedNone
  <2>3. arrived \in Nat /\ arrived' \in Nat
    BY <2>1 DEF PagesTyped, ShownTyped
  <2>4. QED
    BY <2>1, <2>2, <2>3, RepeatsTyped, PageAssumption
       DEF PagesTyped, ClientTyped
<1>2. \A t \in Listed : Untied(t)
  <2>1. ASSUME NEW u \in Txns, CommitEntries(u)
        PROVE  \A t \in Listed : Untied(t)
    BY <1>1, <2>1, CommitMoves
  <2>2. ASSUME NEW u \in Txns,
               (\E now \in Stamps : Flush(u, now)) \/ Abandon(u)
        PROVE  \A t \in Listed : Untied(t)
    BY <1>1, <2>2, OthersKeepList
  <2>3. CASE StartWalk \/ SelectItems \/ SelectCount \/ GiveUp
                \/ UNCHANGED vars
    BY <2>3, ClientKeepsList
       DEF StartWalk, SelectItems, SelectCount, GiveUp, vars
  <2>4. QED
    BY <2>1, <2>2, <2>3 DEF Next
<1>3. /\ Repeats <= arrived
      /\ at \in {"items", "count"} =>
           Repeats + Cardinality(Pushed) <= arrived
  BY <1>2 DEF RepeatsDue
<1>4. ASSUME UNCHANGED <<client, arrived>>,
             \A t \in Listed : Above(t)' = Above(t)
      PROVE  /\ Repeats' <= arrived'
             /\ at' \in {"items", "count"} =>
                  Repeats' + Cardinality(Pushed') <= arrived'
  <2>1. /\ Repeats' = Repeats /\ Shown' = Shown /\ Border' = Border
    BY <1>4 DEF client, Repeats, Shown, Border, Offset
  <2>2. Pushed' = Pushed
    BY <1>4, <2>1, RepeatsTyped DEF Pushed
  <2>3. QED
    BY <1>3, <1>4, <2>1, <2>2 DEF client
<1>5. CASE UNCHANGED vars
  BY <1>4, <1>5, ClientKeepsList DEF vars, client
<1>6. ASSUME NEW u \in Txns, (\E now \in Stamps : Flush(u, now)) \/ Abandon(u)
      PROVE  /\ UNCHANGED <<client, arrived>>
             /\ \A t \in Listed : Above(t)' = Above(t)
  BY <1>1, <1>6, OthersKeepList
<1>7. ASSUME NEW u \in Txns, CommitEntries(u)
      PROVE  /\ Repeats' <= arrived'
             /\ at' \in {"items", "count"} =>
                  Repeats' + Cardinality(Pushed') <= arrived'
  <2>1. /\ UNCHANGED client /\ Repeats' = Repeats
        /\ arrived' = IF Walking THEN arrived + 1 ELSE arrived
    BY <1>7 DEF CommitEntries, client, Repeats, Shown
  <2>2. Cardinality(Pushed') <= Cardinality(Pushed) + 1
    BY <1>7, CommitPushesOne
  <2>3. CASE Walking
    BY <1>1, <1>3, <2>1, <2>2, <2>3 DEF client
  <2>4. CASE ~Walking /\ at' \in {"items", "count"}
    <3>1. at = "items" /\ page = 1 /\ shown' = shown
      BY <1>1, <2>1, <2>4 DEF Walking, client
    <3>2. NoneShown'
      BY <1>1, <3>1 DEF ShownTyped, NoneShown
    <3>3. Cardinality(Pushed') = 0
      BY <3>2, AfterAStep DEF CountedNone
    <3>4. QED
      BY <1>1, <1>3, <2>1, <2>4, <3>3
  <2>5. CASE ~Walking /\ at' \notin {"items", "count"}
    BY <1>3, <2>1, <2>5
  <2>6. QED
    BY <2>3, <2>4, <2>5
<1>8. CASE StartWalk
  <2>1. arrived' = 0 /\ NoneShown'
    BY <1>8 DEF StartWalk, NoneShown
  <2>2. Repeats' = 0 /\ Cardinality(Pushed') = 0
    BY <2>1, AfterAStep DEF Counted, CountedNone
  <2>3. QED
    BY <2>1, <2>2
<1>9. CASE SelectItems
  <2>1. at = "items" /\ arrived' = arrived
    BY <1>9 DEF SelectItems
  <2>2. Repeats' + Cardinality(Pushed') = Repeats + Cardinality(Pushed)
    BY <1>1, <1>2, <1>9, SelectRepeatsPushed
  <2>3. QED
    BY <1>1, <1>3, <2>1, <2>2
<1>10. CASE SelectCount
  <2>1. /\ at = "count" /\ Repeats' = Repeats /\ arrived' = arrived
        /\ Shown' = Shown /\ UNCHANGED perPage
        /\ \/ at' = "items" /\ page' = page + 1
           \/ at' = "done"
        /\ \A t \in Listed : Above(t)' = Above(t)
    BY <1>10, ClientKeepsList DEF SelectCount, Repeats, Shown
  <2>2. CASE at' = "done"
    BY <1>3, <2>1, <2>2
  <2>3. CASE at' = "items"
    <3>1. Border' = Border
      BY <2>1, <2>3, Borders DEF Border, Offset
    <3>2. Pushed' = Pushed
      BY <2>1, <3>1, RepeatsTyped DEF Pushed
    <3>3. QED
      BY <1>3, <2>1, <2>3, <3>2
  <2>4. QED
    BY <2>1, <2>2, <2>3
<1>11. CASE GiveUp
  <2>1. at' = "idle" /\ Repeats' = Repeats /\ arrived' = arrived
    BY <1>11 DEF GiveUp, Repeats, Shown
  <2>2. QED
    BY <1>3, <2>1
<1>12. QED
  BY <1>4, <1>5, <1>6, <1>7, <1>8, <1>9, <1>10, <1>11 DEF Next

\* Unless times are equal, a walk shows rows again no more often than
\* transactions arrive during it: each commit pushes one row at most over the
\* border between the pages that are read and those that are not.
THEOREM RepeatsAreFew == Spec => []RepeatsAreArrivals
<1>1. Init => RepeatsDue
  <2> SUFFICES ASSUME Init PROVE RepeatsDue
    OBVIOUS
  <2>1. arrived = 0 /\ at = "idle" /\ NoneShown
    BY DEF Init, NoneShown
  <2>2. QED
    BY <2>1, NothingShown DEF RepeatsDue
<1>2. Spec => []RepeatsDue
  BY <1>1, RepeatsStep, PagesAlways, PTL DEF Spec
<1>3. RepeatsDue => RepeatsAreArrivals
  BY DEF RepeatsDue, RepeatsAreArrivals
<1>4. QED
  BY <1>2, <1>3, PTL

-----------------------------------------------------------------------------
(* A walk misses no more rows than it repeats, whatever the times.         *)

\* A page is full, or holds the rest of the list.
LEMMA PageIsFull ==
    ASSUME PagesTyped, NEW o \in Orders, Offset(page) <= Cardinality(Listed)
    PROVE  /\ IsFiniteSet(OnPage(o, page))
           /\ Cardinality(OnPage(o, page)) =
                IF Offset(page) + perPage <= Cardinality(Listed)
                THEN perPage ELSE Cardinality(Listed) - Offset(page)
<1>1. PICK N \in Nat : N = Cardinality(Listed)
  BY ListedFinite
<1>2. PICK f \in Nat : f = Offset(page)
  BY Borders
<1>3. PICK n \in Nat : n = perPage
  BY PageAssumption DEF PagesTyped, ClientTyped
<1>4. PICK m \in Nat : m = Min({f + n, N})
                       /\ m = IF f + n <= N THEN f + n ELSE N
  <2>1. PICK l \in Nat : l = f + n
    OBVIOUS
  <2>2. \/ l <= N /\ Min({l, N}) = l
        \/ ~(l <= N) /\ Min({l, N}) = N
    BY <1>1, <2>1 DEF Min
  <2>3. QED
    BY <2>1, <2>2
<1>5. f <= N /\ f <= m /\ m <= N
  BY <1>1, <1>2, <1>4
<1> DEFINE I == f + 1 .. m
           P == {o[i] : i \in I}
<1>6. OnPage(o, page) = P
  BY <1>1, <1>2, <1>3, <1>4 DEF OnPage
<1>7. ExistsBijection(I, P)
  <2> DEFINE b == [i \in I |-> o[i]]
  <2>1. \A i, j \in 1..N : i < j => o[i] # o[j]
    BY <1>1 DEF Orders
  <2>2. I \subseteq 1..N
    BY <1>5
  <2>3. \A i, j \in I : o[i] = o[j] => i = j
    BY <2>1, <2>2
  <2>4. b \in Bijection(I, P)
    BY <2>3 DEF Bijection, Injection, Surjection, IsInjective
  <2>5. QED
    BY <2>4 DEF ExistsBijection
<1>8. IsFiniteSet(I) /\ Cardinality(I) = m - f
  <2>1. /\ IsFiniteSet(f + 1 .. m)
        /\ Cardinality(f + 1 .. m) = IF f + 1 > m THEN 0 ELSE m - (f + 1) + 1
    BY FS_Interval
  <2>2. QED
    BY <1>5, <2>1
<1> HIDE DEF I, P
<1>9. IsFiniteSet(P) /\ Cardinality(P) = m - f
  BY <1>7, <1>8, FS_Bijection
<1>10. QED
  BY <1>1, <1>2, <1>3, <1>4, <1>6, <1>9

\* Each row of a page is shown for the first time, or repeated.
LEMMA PageShowsOrRepeats ==
    ASSUME PagesTyped, PagesTyped', SelectItems,
           Offset(page) <= Cardinality(Listed)
    PROVE  \E k \in Nat :
              /\ k = IF Offset(page) + perPage <= Cardinality(Listed)
                     THEN perPage ELSE Cardinality(Listed) - Offset(page)
              /\ Repeats' - Repeats
                   = k - (Cardinality(Listed \ Shown)
                            - Cardinality(Listed \ Shown'))
<1>1. PICK o \in Orders :
        /\ OnPage(o, page) \subseteq Listed
        /\ \A t \in Txns : shown'[t] =
             IF t \in OnPage(o, page) THEN shown[t] + 1 ELSE shown[t]
  BY SelectShows
<1>2. PICK P : P = OnPage(o, page)
  OBVIOUS
<1>3. P \subseteq Txns /\ P \subseteq Listed
  BY <1>1, <1>2 DEF Listed
<1>4. /\ Shown' = Shown \cup P
      /\ Repeats' = Repeats + Cardinality(Shown \cap P)
  <2>1. shown \in [Txns -> Nat] /\ shown' \in [Txns -> Nat]
    BY DEF PagesTyped, ShownTyped
  <2>2. QED
    BY <1>1, <1>2, <1>3, <2>1, RepeatsGrow
<1>5. /\ IsFiniteSet(P)
      /\ Cardinality(P) = IF Offset(page) + perPage <= Cardinality(Listed)
                          THEN perPage ELSE Cardinality(Listed) - Offset(page)
  BY <1>2, PageIsFull
<1> DEFINE U == Listed \ Shown
           V == Listed \ Shown'
<1>6. IsFiniteSet(U) /\ IsFiniteSet(V)
  BY ListedFinite, FS_Subset
<1>7. U \ P = V /\ U \cap P = P \ Shown
  BY <1>3, <1>4
<1>8. Cardinality(V) = Cardinality(U) - Cardinality(P \ Shown)
  <2>1. Cardinality(U \ P) = Cardinality(U) - Cardinality(U \cap P)
    BY <1>6, FS_Difference
  <2>2. QED
    BY <1>7, <2>1
<1>9. P \cap Shown = Shown \cap P
  OBVIOUS
<1>10. /\ IsFiniteSet(P \ Shown)
       /\ Cardinality(P \ Shown) = Cardinality(P) - Cardinality(Shown \cap P)
  <2>1. /\ IsFiniteSet(P \ Shown)
        /\ Cardinality(P \ Shown) = Cardinality(P) - Cardinality(P \cap Shown)
    BY <1>5, FS_Difference
  <2>2. QED
    BY <1>9, <2>1
<1>11. IsFiniteSet(Shown \cap P)
  BY <1>5, <1>9, FS_Subset
<1>12. /\ Cardinality(P) \in Nat /\ Cardinality(U) \in Nat
       /\ Cardinality(V) \in Nat /\ Cardinality(P \ Shown) \in Nat
       /\ Cardinality(Shown \cap P) \in Nat /\ Repeats \in Int
  BY <1>5, <1>6, <1>10, <1>11, FS_CardinalityType, RepeatsTyped
<1> HIDE DEF U, V
<1>13. Repeats' - Repeats = Cardinality(P) - (Cardinality(U) - Cardinality(V))
  BY <1>4, <1>8, <1>10, <1>12
<1>14. PICK k \in Nat : k = Cardinality(P)
  BY <1>12
<1>15. Repeats' - Repeats
         = k - (Cardinality(Listed \ Shown) - Cardinality(Listed \ Shown'))
  BY <1>13, <1>14 DEF U, V
<1>16. QED
  BY <1>5, <1>14, <1>15

\* The numbers that MissesDue compares.
MissesTyped ==
    /\ Repeats \in Int /\ Border \in Nat /\ Cardinality(Listed) \in Nat
    /\ IsFiniteSet(Listed \ Shown) /\ IsFiniteSet(present \ Shown)
    /\ Cardinality(Listed \ Shown) \in Nat
    /\ Cardinality(present \ Shown) \in Nat
    /\ Cardinality(present \ Shown) <= Cardinality(Listed \ Shown)

LEMMA MissesHaveType == PagesTyped => MissesTyped
<1> SUFFICES ASSUME PagesTyped PROVE MissesTyped
  OBVIOUS
<1>1. present \ Shown \subseteq Listed \ Shown
  BY DEF PagesTyped, ShownTyped
<1>2. IsFiniteSet(Listed \ Shown)
  BY ListedFinite, FS_Subset
<1>3. /\ IsFiniteSet(present \ Shown)
      /\ Cardinality(present \ Shown) <= Cardinality(Listed \ Shown)
  BY <1>1, <1>2, FS_Subset
<1>4. QED
  BY <1>2, <1>3, ListedFinite, RepeatsTyped, Borders, FS_CardinalityType
     DEF MissesTyped

LEMMA MissesTypedNext == PagesTyped' => MissesTyped'
BY MissesHaveType, PTL

\* Reading a page takes as many places as it repeats rows or shows new ones.
LEMMA SelectKeepsMisses ==
    ASSUME PagesTyped, PagesTyped', MissesDue, SelectItems
    PROVE  Cardinality(present' \ Shown') <= Repeats' \/ PlacesLeft'
<1>1. /\ at = "items" /\ at' = "count" /\ UNCHANGED <<page, perPage>>
      /\ present' = IF page = 1 THEN Listed ELSE present
      /\ Listed' = Listed
  BY ClientKeepsList DEF SelectItems
<1>2. MissesTyped /\ MissesTyped'
  BY MissesHaveType, MissesTypedNext
<1>3. PICK f \in Nat, n \in Nat \ {0} :
        /\ f = Offset(page) /\ n = perPage
        /\ Border = f /\ Border' = f + n
  BY <1>1, Borders, PageAssumption
     DEF PagesTyped, ClientTyped, Border
<1>4. PICK N \in Nat : N = Cardinality(Listed)
  BY ListedFinite
<1>5. CASE page # 1 /\ Cardinality(present \ Shown) <= Repeats
  <2>1. PICK P : /\ P \subseteq Txns
                 /\ Shown' = Shown \cup P
                 /\ Repeats' = Repeats + Cardinality(Shown \cap P)
    <3>1. PICK o \in Orders :
            /\ OnPage(o, page) \subseteq Listed
            /\ \A t \in Txns : shown'[t] =
                 IF t \in OnPage(o, page) THEN shown[t] + 1 ELSE shown[t]
      BY SelectShows
    <3>2. PICK P : P = OnPage(o, page)
      OBVIOUS
    <3>3. P \subseteq Txns
      BY <3>1, <3>2 DEF Listed
    <3>4. shown \in [Txns -> Nat] /\ shown' \in [Txns -> Nat]
      BY DEF PagesTyped, ShownTyped
    <3>5. QED
      BY <3>1, <3>2, <3>3, <3>4, RepeatsGrow
  <2>2. IsFiniteSet(Shown \cap P) /\ Cardinality(Shown \cap P) \in Nat
    BY <2>1, ListedFinite, FS_Subset, FS_CardinalityType
  <2>3. /\ present' \ Shown' \subseteq present \ Shown
        /\ Repeats' >= Repeats
    BY <1>1, <1>2, <1>5, <2>1, <2>2 DEF MissesTyped
  <2>4. Cardinality(present' \ Shown') <= Cardinality(present \ Shown)
    BY <1>2, <2>3, FS_Subset DEF MissesTyped
  <2>5. QED
    BY <1>2, <1>5, <2>3, <2>4 DEF MissesTyped
<1>6. CASE /\ f <= N
           /\ Cardinality(Listed \ Shown) + f <= Repeats + N
  <2>1. PICK k \in Nat :
          /\ k = IF f + n <= N THEN n ELSE N - f
          /\ Repeats' - Repeats
               = k - (Cardinality(Listed \ Shown)
                        - Cardinality(Listed \ Shown'))
    BY <1>3, <1>4, <1>6, PageShowsOrRepeats
  <2>2. Cardinality(Listed \ Shown') + f + k <= Repeats' + N
    BY <1>1, <1>2, <1>6, <2>1 DEF MissesTyped
  <2>3. CASE f + n < N
    <3>1. /\ Cardinality(Listed') = N /\ Border' = f + n /\ k = n
          /\ Listed \ Shown' = Listed' \ Shown'
      BY <1>1, <1>3, <1>4, <2>1, <2>3
    <3>2. Cardinality(Listed' \ Shown') \in Nat /\ Repeats' \in Int
      BY <1>2 DEF MissesTyped
    <3>3. Cardinality(Listed' \ Shown') + (f + n) <= Repeats' + N
      BY <2>2, <3>1, <3>2
    <3>4. QED
      BY <2>3, <3>1, <3>3 DEF PlacesLeft
  <2>4. CASE ~(f + n < N)
    <3>1. f + k = N
      BY <1>6, <2>1, <2>4
    <3>2. Cardinality(Listed \ Shown') <= Repeats'
      BY <1>1, <1>2, <2>2, <3>1 DEF MissesTyped
    <3>3. QED
      BY <1>1, <1>2, <3>2 DEF MissesTyped
  <2>5. QED
    BY <2>3, <2>4
<1>7. page = 1 => f <= N /\ Cardinality(Listed \ Shown) + f <= Repeats + N
  <2> SUFFICES ASSUME page = 1
               PROVE  f <= N /\ Cardinality(Listed \ Shown) + f <= Repeats + N
    OBVIOUS
  <2>1. f = 0
    BY <1>3, Borders
  <2>2. NoneShown
    BY <1>1 DEF PagesTyped, ShownTyped, NoneShown
  <2>3. Repeats = 0 /\ Listed \ Shown = Listed
    BY <2>2, NothingShown DEF NoneShown, Shown, Listed
  <2>4. QED
    BY <1>4, <2>1, <2>3
<1>8. page # 1 /\ PlacesLeft
        => f <= N /\ Cardinality(Listed \ Shown) + f <= Repeats + N
  BY <1>3, <1>4 DEF PlacesLeft
<1>9. page # 1 => Walking
  BY <1>1 DEF Walking, PagesTyped, ClientTyped
<1>10. QED
  BY <1>5, <1>6, <1>7, <1>8, <1>9 DEF MissesDue

LEMMA MissesStep == PagesTyped /\ MissesDue /\ [Next]_vars => MissesDue'
<1> SUFFICES ASSUME PagesTyped, MissesDue, [Next]_vars PROVE MissesDue'
  OBVIOUS
<1>1. PagesTyped' /\ MissesTyped /\ MissesTyped'
  BY PagesStep, MissesHaveType, MissesTypedNext
<1>2. ASSUME UNCHANGED client, Listed' = Listed PROVE MissesDue'
  <2>1. /\ Shown' = Shown /\ Repeats' = Repeats /\ Border' = Border
        /\ Walking' = Walking /\ UNCHANGED <<at, present>>
    BY <1>2 DEF client, Shown, Repeats, Border, Offset, Walking
  <2>2. PlacesLeft' = PlacesLeft
    BY <1>2, <2>1 DEF PlacesLeft
  <2>3. QED
    BY <2>1, <2>2 DEF MissesDue
<1>3. CASE UNCHANGED vars
  BY <1>2, <1>3 DEF vars, client, Listed
<1>4. ASSUME NEW u \in Txns, (\E now \in Stamps : Flush(u, now)) \/ Abandon(u)
      PROVE  MissesDue'
  BY <1>2, <1>4, OthersKeepList DEF PagesTyped
<1>5. ASSUME NEW u \in Txns, CommitEntries(u) PROVE MissesDue'
  <2>1. UNCHANGED client
    BY <1>5 DEF CommitEntries
  <2>2. /\ Shown' = Shown /\ Repeats' = Repeats /\ Border' = Border
        /\ Walking' = Walking /\ UNCHANGED <<at, present>>
    BY <2>1 DEF client, Shown, Repeats, Border, Offset, Walking
  <2>3. /\ u \notin Listed /\ Listed' = Listed \cup {u}
        /\ Cardinality(Listed') = Cardinality(Listed) + 1
    BY <1>5, CommitMoves DEF PagesTyped
  <2>4. Listed' \ Shown = (Listed \ Shown) \cup {u}
    BY <2>3, RepeatsTyped
  <2>5. Cardinality(Listed' \ Shown) = Cardinality(Listed \ Shown) + 1
    BY <1>1, <2>3, <2>4, FS_AddElement DEF MissesTyped
  <2>6. PlacesLeft => PlacesLeft'
    BY <1>1, <2>2, <2>3, <2>5 DEF PlacesLeft, MissesTyped
  <2>7. QED
    BY <2>2, <2>6 DEF MissesDue
<1>6. CASE StartWalk
  BY <1>6 DEF StartWalk, MissesDue, Walking
<1>7. CASE SelectItems
  <2>1. at' = "count"
    BY <1>7 DEF SelectItems
  <2>2. QED
    BY <1>1, <1>7, <2>1, SelectKeepsMisses DEF MissesDue
<1>8. CASE SelectCount
  <2>1. /\ at = "count" /\ UNCHANGED <<perPage, present>>
        /\ Shown' = Shown /\ Repeats' = Repeats /\ Listed' = Listed
        /\ \/ page < Pages /\ at' = "items" /\ page' = page + 1
           \/ ~(page < Pages) /\ at' = "done" /\ page' = page
    BY <1>8, ClientKeepsList DEF SelectCount, Shown, Repeats
  <2>2. Cardinality(present \ Shown) <= Repeats \/ PlacesLeft
    BY <2>1 DEF MissesDue, Walking
  <2>3. CASE at' = "items"
    <3>1. Border' = Border
      BY <2>1, <2>3, Borders DEF Border, Offset
    <3>2. PlacesLeft' = PlacesLeft
      BY <2>1, <3>1 DEF PlacesLeft
    <3>3. QED
      BY <2>1, <2>2, <2>3, <3>2 DEF MissesDue
  <2>4. CASE at' = "done"
    <3>1. Cardinality(Listed) <= page * perPage
      BY <2>1, <2>4, LastPageEnds
    <3>2. ~PlacesLeft
      BY <1>1, <2>1, <3>1 DEF PlacesLeft, Border, MissesTyped
    <3>3. QED
      BY <2>1, <2>2, <2>4, <3>2 DEF MissesDue, Walking
  <2>5. QED
    BY <2>1, <2>3, <2>4
<1>9. CASE GiveUp
  BY <1>9 DEF GiveUp, MissesDue, Walking
<1>10. QED
  BY <1>3, <1>4, <1>5, <1>6, <1>7, <1>8, <1>9 DEF Next

\* Equal times or not, a walk to the last page has missed no more of what was
\* listed at its start than it has shown again: a walk without repeats is
\* complete, for any number of transactions and any page size.
THEOREM MissesAreRepeats == Spec => []MissedAreRepeats
<1>1. Init => MissesDue
  BY DEF Init, MissesDue, Walking
<1>2. Spec => []MissesDue
  BY <1>1, MissesStep, PagesAlways, PTL DEF Spec
<1>3. MissesDue => MissedAreRepeats
  BY DEF MissesDue, MissedAreRepeats
<1>4. QED
  BY <1>2, <1>3, PTL
=============================================================================
