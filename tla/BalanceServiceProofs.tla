------------------------- MODULE BalanceServiceProofs -----------------------
(***************************************************************************)
(* Proofs about BalanceService, for any number of sessions, jobs, readers  *)
(* and entries: entries commit in the order of their ids, so a snapshot    *)
(* with no commit between its two reads stays exact; through such          *)
(* snapshots the balance is read exactly; so no debit overdraws the        *)
(* account, and the cache is wrong at rest only where one of the three     *)
(* known races has happened.                                               *)
(***************************************************************************)
EXTENDS BalanceService, SumTheorems

-----------------------------------------------------------------------------
(* The latest entry.                                                       *)

Below == OpToRel(<, Nat)

\* A set of natural numbers with a bound has a greatest element.
LEMMA GreatestNatural ==
    ASSUME NEW S, S \subseteq Nat, S # {}, NEW b \in Nat,
           \A x \in S : x <= b
    PROVE  \E x \in S : \A y \in S : x >= y
<1> DEFINE T == {n \in Nat : \A x \in S : x <= n}
<1>1. \A m, n \in Nat : m < n => <<m, n>> \in Below
  BY DEF Below, OpToRel
<1>2. IsWellFoundedOn(Below, Nat)
  BY NatLessThanWellFounded DEF Below
<1>3. T \subseteq Nat /\ T # {}
  OBVIOUS
<1>4. PICK m \in T : \A n \in T : ~(<<n, m>> \in Below)
  <2> HIDE DEF T
  <2>1. QED
    BY <1>2, <1>3, WFMin
<1>5. m \in Nat /\ \A x \in S : x <= m
  OBVIOUS
<1>6. CASE m \in S
  BY <1>5, <1>6
<1>7. CASE m \notin S
  <2>1. \A x \in S : x <= m - 1
    BY <1>5, <1>7
  <2>2. PICK x \in S : x <= m - 1
    BY <2>1
  <2>3. m - 1 \in Nat
    BY <1>5, <2>2
  <2>4. m - 1 \in T /\ m - 1 < m
    BY <1>5, <2>1, <2>3
  <2>5. <<m - 1, m>> \in Below
    BY <1>1, <1>5, <2>3, <2>4
  <2>6. QED
    BY <1>4, <2>4, <2>5
<1>8. QED
  BY <1>6, <1>7

-----------------------------------------------------------------------------
(* The inductive invariant.                                                *)

\* What the writers and the jobs keep are records of these fields.
Shaped ==
    /\ writer = [w \in Writers |-> writer[w]]
    /\ \A w \in Writers : \E a, m, s, i :
          writer[w] = [at |-> a, amt |-> m, snap |-> s, id |-> i]
    /\ job = [j \in Snapshotters |-> job[j]]
    /\ \A j \in Snapshotters : \E a, l, t, c :
          job[j] = [at |-> a, last |-> l, total |-> t, crossed |-> c]

\* The account lock lets one writer at a time go on.
OneWriter == \A w \in Writers : writer[w].at # "idle" => owner = w

\* No entry with an id up to n will commit from now on.
Settled(n) ==
    /\ n \in Nat /\ n < nextEntry
    /\ \A w \in Writers : writer[w].id # 0 => n < writer[w].id

\* A writer has an id from its flush to its end, and it is above those of all
\* the committed entries.
IdsOrdered ==
    /\ nextEntry \in Nat \ {0}
    /\ \A e \in entries : Settled(e.id)
    /\ \A w \in Writers :
          /\ writer[w].id \in Nat /\ writer[w].id < nextEntry
          /\ writer[w].at \notin {"refresh", "commit"} => writer[w].id = 0

\* A job that no commit has crossed sums the entries up to its last one.
JobsExact ==
    \A j \in Snapshotters :
        /\ job[j].at \in {"total", "insert"} => Settled(job[j].last)
        /\ job[j].at = "total" /\ ~job[j].crossed =>
             \A e \in entries : e.id <= job[j].last
        /\ job[j].at = "insert" /\ ~job[j].crossed =>
             job[j].total = Sum(UpTo(entries, job[j].last))

SnapshotsSettled == \A s \in snapshots : Settled(s.last)

SnapshotInv ==
    /\ Shaped /\ OneWriter /\ IdsOrdered /\ JobsExact /\ SnapshotsSettled
    /\ UncrossedSnapshotExact

LEMMA SnapshotInit == Init => SnapshotInv
<1> SUFFICES ASSUME Init PROVE SnapshotInv
  OBVIOUS
<1>1. /\ \A w \in Writers : writer[w] = IdleWriter
      /\ \A j \in Snapshotters : job[j] = IdleJob
      /\ entries = {} /\ snapshots = {} /\ nextEntry = 1
  BY DEF Init
<1>2. Shaped
  BY <1>1 DEF Init, Shaped, IdleWriter, IdleJob
<1>3. OneWriter /\ IdsOrdered
  BY <1>1 DEF OneWriter, IdsOrdered, IdleWriter
<1>4. JobsExact /\ SnapshotsSettled /\ UncrossedSnapshotExact
  BY <1>1 DEF JobsExact, SnapshotsSettled, UncrossedSnapshotExact, IdleJob
<1>5. QED
  BY <1>2, <1>3, <1>4 DEF SnapshotInv

\* The latest entry is one of the entries, or none, and none is above it.
LEMMA LatestIsGreatest ==
    ASSUME IdsOrdered
    PROVE  /\ Settled(LatestEntryId)
           /\ \A e \in entries : e.id <= LatestEntryId
<1> DEFINE S == {e.id : e \in entries} \cup {0}
<1>1. S \subseteq Nat /\ S # {} /\ nextEntry \in Nat
      /\ \A x \in S : x <= nextEntry
  BY DEF IdsOrdered, Settled
<1>2. Settled(0)
  BY DEF IdsOrdered, Settled
<1>3. \A x \in S : Settled(x)
  BY <1>2 DEF IdsOrdered
<1>4. \A e \in entries : e.id \in S
  OBVIOUS
<1>5. LatestEntryId = Max(S)
  BY DEF LatestEntryId
<1> HIDE DEF S
<1>6. \E x \in S : \A y \in S : x >= y
  BY <1>1, GreatestNatural
<1>7. Max(S) \in S /\ \A y \in S : Max(S) >= y
  BY <1>6 DEF Max
<1>8. QED
  BY <1>1, <1>3, <1>4, <1>5, <1>7

-----------------------------------------------------------------------------
(* Steps of a writer.                                                      *)

\* What a step of writer w other than its flush and its commit may do.
LEMMA WriterMove ==
    ASSUME SnapshotInv, NEW w \in Writers, Shaped',
           UNCHANGED <<entries, nextEntry, snapshots, job, crossed>>,
           \A v \in Writers \ {w} : writer'[v] = writer[v],
           \/ /\ writer'[w].id = writer[w].id /\ owner' = owner
              /\ owner = w
              /\ writer'[w].at \in {"refresh", "commit"}
                   \/ writer[w].at \notin {"refresh", "commit"}
           \/ /\ writer'[w].id = 0
              /\ writer'[w].at \notin {"refresh", "commit"}
              /\ owner = None \/ owner = w
              /\ owner' = w \/ writer'[w].at = "idle"
    PROVE  SnapshotInv'
<1>1. \A n : Settled(n) => Settled(n)'
  BY DEF Settled
<1>2. OneWriter'
  BY BalanceAssumption DEF SnapshotInv, OneWriter
<1>3. IdsOrdered'
  BY <1>1 DEF SnapshotInv, IdsOrdered
<1>4. JobsExact'
  BY <1>1 DEF SnapshotInv, JobsExact
<1>5. SnapshotsSettled'
  BY <1>1 DEF SnapshotInv, SnapshotsSettled
<1>6. UncrossedSnapshotExact'
  BY DEF SnapshotInv, UncrossedSnapshotExact
<1>7. QED
  BY <1>2, <1>3, <1>4, <1>5, <1>6 DEF SnapshotInv

LEMMA WriterFlush ==
    ASSUME SnapshotInv, NEW w \in Writers, FlushEntry(w)
    PROVE  SnapshotInv'
<1>1. PICK a, m, s, i :
        writer[w] = [at |-> a, amt |-> m, snap |-> s, id |-> i]
  BY DEF SnapshotInv, Shaped
<1>2. /\ nextEntry' = nextEntry + 1 /\ writer[w].at = "flush"
      /\ UNCHANGED <<entries, owner, snapshots, job, crossed>>
  BY DEF FlushEntry, WriterOnly
<1>3. writer = [v \in Writers |-> writer[v]]
  BY DEF SnapshotInv, Shaped
<1>4. /\ \A v \in Writers \ {w} : writer'[v] = writer[v]
      /\ writer' = [v \in Writers |-> writer'[v]]
      /\ writer'[w] = [at |-> "refresh", amt |-> m, snap |-> s,
                       id |-> nextEntry]
      /\ writer'[w].at = "refresh" /\ writer'[w].id = nextEntry
  <2>1. /\ \A v \in Writers \ {w} : writer'[v] = writer[v]
        /\ writer' = [v \in Writers |-> writer'[v]]
    BY <1>3 DEF FlushEntry
  <2>2. writer'[w] = [writer[w] EXCEPT !.at = "refresh", !.id = nextEntry]
    BY <1>3 DEF FlushEntry
  <2>3. writer'[w] = [at |-> "refresh", amt |-> m, snap |-> s,
                      id |-> nextEntry]
    <3>1. ASSUME NEW r, NEW x, NEW k,
                 r = [at |-> a, amt |-> m, snap |-> s, id |-> i],
                 x = [r EXCEPT !.at = "refresh", !.id = k]
          PROVE  x = [at |-> "refresh", amt |-> m, snap |-> s, id |-> k]
      BY <3>1
    <3>2. QED
      BY <1>1, <2>2, <3>1, Zenon
  <2>4. QED
    BY <2>1, <2>3
<1>5. Shaped'
  <2>1. \A v \in Writers : \E b, n, t, k :
          writer'[v] = [at |-> b, amt |-> n, snap |-> t, id |-> k]
    <3> SUFFICES ASSUME NEW v \in Writers
                 PROVE  \E b, n, t, k : writer'[v] =
                          [at |-> b, amt |-> n, snap |-> t, id |-> k]
      OBVIOUS
    <3>1. CASE v = w
      BY <1>4, <3>1
    <3>2. CASE v # w
      BY <1>4, <3>2 DEF SnapshotInv, Shaped
    <3>3. QED
      BY <3>1, <3>2
  <2>2. QED
    BY <1>2, <1>4, <2>1 DEF SnapshotInv, Shaped
<1>6. nextEntry \in Nat \ {0}
  BY DEF SnapshotInv, IdsOrdered
<1>7. \A n : Settled(n) => Settled(n)'
  BY <1>2, <1>4, <1>6 DEF Settled
<1>8. OneWriter'
  BY <1>2, <1>4 DEF SnapshotInv, OneWriter
<1>9. IdsOrdered'
  <2>1. \A e \in entries : Settled(e.id)'
    BY <1>7 DEF SnapshotInv, IdsOrdered
  <2>2. ASSUME NEW v \in Writers
        PROVE  /\ writer'[v].id \in Nat /\ writer'[v].id < nextEntry'
               /\ writer'[v].at \notin {"refresh", "commit"} =>
                    writer'[v].id = 0
    BY <1>2, <1>4, <1>6 DEF SnapshotInv, IdsOrdered
  <2>3. QED
    BY <1>2, <1>6, <2>1, <2>2 DEF IdsOrdered
<1>10. JobsExact'
  BY <1>2, <1>7 DEF SnapshotInv, JobsExact
<1>11. SnapshotsSettled' /\ UncrossedSnapshotExact'
  BY <1>2, <1>7 DEF SnapshotInv, SnapshotsSettled, UncrossedSnapshotExact
<1>12. QED
  BY <1>5, <1>8, <1>9, <1>10, <1>11 DEF SnapshotInv

\* A commit adds its entry above everything that is settled.
LEMMA WriterCommit ==
    ASSUME SnapshotInv, NEW w \in Writers, CommitWrite(w)
    PROVE  SnapshotInv'
<1>1. /\ writer[w].at = "commit" /\ owner = w
      /\ entries' = entries \cup Own(w)
      /\ UNCHANGED <<nextEntry, snapshots, crossed>>
  BY DEF CommitWrite, SnapshotInv, OneWriter
<1>2. /\ writer'[w] = IdleWriter
      /\ \A v \in Writers \ {w} : writer'[v] = writer[v]
      /\ writer' = [v \in Writers |-> writer'[v]]
  BY DEF CommitWrite, ReleaseAll, SnapshotInv, Shaped
<1>3. \A v \in Writers : writer'[v].at = "idle" /\ writer'[v].id = 0
  BY <1>1, <1>2 DEF SnapshotInv, OneWriter, IdsOrdered, IdleWriter
<1>4. /\ job' = [j \in Snapshotters |-> job'[j]]
      /\ \A j \in Snapshotters :
           job'[j] = IF job[j].at = "total"
                       THEN [job[j] EXCEPT !.crossed = TRUE] ELSE job[j]
  BY DEF CommitWrite
<1>5. ASSUME NEW j \in Snapshotters
      PROVE  /\ job'[j].at = job[j].at /\ job'[j].last = job[j].last
             /\ job'[j].total = job[j].total
             /\ job[j].at # "total" => job'[j].crossed = job[j].crossed
             /\ job[j].at = "total" => job'[j].crossed = TRUE
             /\ \E a, l, t, c :
                  job'[j] = [at |-> a, last |-> l, total |-> t, crossed |-> c]
  <2>1. PICK a, l, t, c :
          job[j] = [at |-> a, last |-> l, total |-> t, crossed |-> c]
    BY DEF SnapshotInv, Shaped
  <2>2. QED
    BY <1>4, <2>1
<1>6. Shaped'
  <2>1. \A v \in Writers : \E a, m, s, i :
          writer'[v] = [at |-> a, amt |-> m, snap |-> s, id |-> i]
    BY <1>2 DEF SnapshotInv, Shaped, IdleWriter
  <2>2. QED
    BY <1>2, <1>4, <1>5, <2>1 DEF Shaped
<1>7. OneWriter'
  BY <1>3 DEF OneWriter
<1>8. \A n : Settled(n) => Settled(n)'
  BY <1>1, <1>3 DEF Settled
<1>9. \A e \in Own(w) : e.id = writer[w].id /\ e.id # 0
  BY DEF Own
<1>10. \A e \in Own(w) : Settled(e.id)'
  BY <1>1, <1>3, <1>9 DEF SnapshotInv, IdsOrdered, Settled
<1>11. IdsOrdered'
  <2>1. /\ nextEntry' \in Nat \ {0}
        /\ \A v \in Writers : /\ writer'[v].id \in Nat
                              /\ writer'[v].id < nextEntry'
    BY <1>1, <1>3 DEF SnapshotInv, IdsOrdered
  <2>2. \A e \in entries' : Settled(e.id)'
    BY <1>1, <1>8, <1>10 DEF SnapshotInv, IdsOrdered
  <2>3. QED
    BY <1>3, <2>1, <2>2 DEF IdsOrdered
<1>12. ASSUME NEW n, Settled(n)
       PROVE  UpTo(entries', n) = UpTo(entries, n)
  <2>1. \A e \in Own(w) : ~(e.id <= n)
    BY <1>9, <1>12 DEF Settled, SnapshotInv, IdsOrdered
  <2>2. QED
    BY <1>1, <2>1 DEF UpTo
<1>13. JobsExact'
  <2> SUFFICES ASSUME NEW j \in Snapshotters
               PROVE  /\ job'[j].at \in {"total", "insert"} =>
                           Settled(job[j].last)'
                      /\ job'[j].at = "total" /\ ~job'[j].crossed => FALSE
                      /\ job'[j].at = "insert" /\ ~job'[j].crossed =>
                           job'[j].total = Sum(UpTo(entries', job'[j].last))
    BY DEF JobsExact
  <2>1. PICK n : n = job[j].last
    OBVIOUS
  <2>2. job[j].at \in {"total", "insert"} => Settled(n) /\ Settled(n)'
    BY <1>8, <2>1 DEF SnapshotInv, JobsExact
  <2>3. job[j].at = "insert" /\ ~job[j].crossed =>
          job[j].total = Sum(UpTo(entries, n))
    BY <2>1 DEF SnapshotInv, JobsExact
  <2>4. job'[j].at = "insert" /\ ~job'[j].crossed =>
          job'[j].total = Sum(UpTo(entries', job'[j].last))
    BY <1>5, <1>12, <2>1, <2>2, <2>3
  <2>5. QED
    BY <1>5, <2>1, <2>2, <2>4
<1>14. SnapshotsSettled' /\ UncrossedSnapshotExact'
  BY <1>1, <1>8, <1>12
     DEF SnapshotInv, SnapshotsSettled, UncrossedSnapshotExact
<1>15. QED
  BY <1>6, <1>7, <1>11, <1>13, <1>14 DEF SnapshotInv

\* A step of writer w leaves what the writers keep records.
LEMMA ShapeKept ==
    ASSUME Shaped, NEW w \in Writers, UNCHANGED job,
           \A v \in Writers \ {w} : writer'[v] = writer[v],
           writer' = [v \in Writers |-> writer'[v]],
           \E a, m, s, i :
              writer'[w] = [at |-> a, amt |-> m, snap |-> s, id |-> i]
    PROVE  Shaped'
<1> SUFFICES ASSUME NEW v \in Writers
             PROVE  \E a, m, s, i :
                writer'[v] = [at |-> a, amt |-> m, snap |-> s, id |-> i]
  BY DEF Shaped
<1>1. CASE v = w
  BY <1>1
<1>2. CASE v # w
  BY <1>2 DEF Shaped
<1>3. QED
  BY <1>1, <1>2

\* A step that moves writer w on, with or without reading the snapshot.
LEMMA WriterGoesOn ==
    ASSUME SnapshotInv, NEW w \in Writers, NEW b, NEW n,
           \/ writer' = [writer EXCEPT ![w].at = b]
           \/ writer' = [writer EXCEPT ![w].at = b, ![w].snap = n],
           UNCHANGED job
    PROVE  /\ Shaped' /\ writer'[w].at = b /\ writer'[w].id = writer[w].id
           /\ \A v \in Writers \ {w} : writer'[v] = writer[v]
<1>1. PICK a, m, s, i :
        writer[w] = [at |-> a, amt |-> m, snap |-> s, id |-> i]
  BY DEF SnapshotInv, Shaped
<1>2. writer = [v \in Writers |-> writer[v]]
  BY DEF SnapshotInv, Shaped
<1>3. /\ \A v \in Writers \ {w} : writer'[v] = writer[v]
      /\ writer' = [v \in Writers |-> writer'[v]]
  BY <1>2
<1>4. \/ writer'[w] = [writer[w] EXCEPT !.at = b]
      \/ writer'[w] = [writer[w] EXCEPT !.at = b, !.snap = n]
  BY <1>2
<1>5. \E t : writer'[w] = [at |-> b, amt |-> m, snap |-> t, id |-> i]
  <2>1. CASE writer'[w] = [writer[w] EXCEPT !.at = b]
    <3>1. ASSUME NEW r, NEW x,
                 r = [at |-> a, amt |-> m, snap |-> s, id |-> i],
                 x = [r EXCEPT !.at = b]
          PROVE  x = [at |-> b, amt |-> m, snap |-> s, id |-> i]
      BY <3>1
    <3>2. writer'[w] = [at |-> b, amt |-> m, snap |-> s, id |-> i]
      BY <1>1, <2>1, <3>1, Zenon
    <3>3. QED
      BY <3>2, Zenon
  <2>2. CASE writer'[w] = [writer[w] EXCEPT !.at = b, !.snap = n]
    <3>1. ASSUME NEW r, NEW x,
                 r = [at |-> a, amt |-> m, snap |-> s, id |-> i],
                 x = [r EXCEPT !.at = b, !.snap = n]
          PROVE  x = [at |-> b, amt |-> m, snap |-> n, id |-> i]
      BY <3>1
    <3>2. writer'[w] = [at |-> b, amt |-> m, snap |-> n, id |-> i]
      BY <1>1, <2>2, <3>1, Zenon
    <3>3. QED
      BY <3>2, Zenon
  <2>3. QED
    BY <1>4, <2>1, <2>2, Zenon
<1>6. writer'[w].at = b /\ writer'[w].id = writer[w].id
  BY <1>1, <1>5
<1>7. \E c, k, z, l :
        writer'[w] = [at |-> c, amt |-> k, snap |-> z, id |-> l]
  BY <1>5, Zenon
<1>8. Shaped
  BY DEF SnapshotInv
<1>9. QED
  BY <1>3, <1>6, <1>7, <1>8, ShapeKept, Zenon

\* A writer begins, or goes back to rest.
LEMMA WriterStartsOrEnds ==
    ASSUME SnapshotInv, NEW w \in Writers, NEW a, NEW m, NEW s,
           writer' = [writer EXCEPT ![w] =
                        [at |-> a, amt |-> m, snap |-> s, id |-> 0]],
           UNCHANGED job
    PROVE  /\ Shaped' /\ writer'[w].at = a /\ writer'[w].id = 0
           /\ \A v \in Writers \ {w} : writer'[v] = writer[v]
<1>1. /\ \A v \in Writers \ {w} : writer'[v] = writer[v]
      /\ writer'[w] = [at |-> a, amt |-> m, snap |-> s, id |-> 0]
      /\ writer' = [v \in Writers |-> writer'[v]]
  BY DEF SnapshotInv, Shaped
<1>2. \E c, k, z, l :
        writer'[w] = [at |-> c, amt |-> k, snap |-> z, id |-> l]
  BY <1>1, Zenon
<1>3. Shaped
  BY DEF SnapshotInv
<1>4. writer'[w].at = a /\ writer'[w].id = 0
  BY <1>1
<1>5. QED
  BY <1>1, <1>2, <1>3, <1>4, ShapeKept, Zenon

LEMMA WriterStep ==
    ASSUME SnapshotInv, NEW w \in Writers,
           \/ \E m \in Moves : BeginWrite(w, m)
           \/ ReadSnapshot(w) \/ CheckFunds(w) \/ FlushEntry(w)
           \/ RefreshCache(w) \/ CommitWrite(w) \/ RollbackWrite(w)
    PROVE  SnapshotInv'
<1>1. ASSUME NEW m \in Moves, BeginWrite(w, m)
      PROVE  SnapshotInv'
  <2>1. PICK a : /\ a \in {"snapshot", "flush"}
                 /\ writer' = [writer EXCEPT ![w] =
                      [at |-> a, amt |-> m, snap |-> NoSnapshot, id |-> 0]]
    BY <1>1 DEF BeginWrite
  <2>2. /\ owner = None /\ owner' = w
        /\ UNCHANGED <<entries, nextEntry, snapshots, job, crossed>>
    BY <1>1 DEF BeginWrite, Lockable, WriterOnly
  <2>3. /\ Shaped' /\ writer'[w].at = a /\ writer'[w].id = 0
        /\ \A v \in Writers \ {w} : writer'[v] = writer[v]
    BY <2>1, <2>2, WriterStartsOrEnds
  <2>4. QED
    BY <2>1, <2>2, <2>3, WriterMove
<1>2. CASE ReadSnapshot(w) \/ CheckFunds(w) \/ RefreshCache(w)
  <2>1. PICK b : /\ b \in {"sum", "flush", "commit"}
                 /\ b = "commit" => writer[w].at = "refresh"
                 /\ b # "commit" => writer[w].at \in {"snapshot", "sum"}
                 /\ \/ writer' = [writer EXCEPT ![w].at = b]
                    \/ writer' = [writer EXCEPT ![w].at = b,
                                                ![w].snap = LatestSnapshot]
    BY <1>2 DEF ReadSnapshot, CheckFunds, RefreshCache
  <2>2. /\ owner' = owner
        /\ UNCHANGED <<entries, nextEntry, snapshots, job, crossed>>
    BY <1>2 DEF ReadSnapshot, CheckFunds, RefreshCache, WriterOnly
  <2>3. /\ Shaped' /\ writer'[w].at = b /\ writer'[w].id = writer[w].id
        /\ \A v \in Writers \ {w} : writer'[v] = writer[v]
    BY <2>1, <2>2, WriterGoesOn
  <2>4. owner = w /\ writer[w].at \in {"snapshot", "sum", "refresh"}
    BY <2>1 DEF SnapshotInv, OneWriter
  <2>5. \/ writer'[w].at \in {"refresh", "commit"}
        \/ writer[w].at \notin {"refresh", "commit"}
    BY <2>1, <2>3
  <2>6. QED
    BY <2>2, <2>3, <2>4, <2>5, WriterMove
<1>3. CASE RollbackWrite(w)
  <2>1. writer' = [writer EXCEPT ![w] =
          [at |-> "idle", amt |-> 0, snap |-> NoSnapshot, id |-> 0]]
    BY <1>3 DEF RollbackWrite, ReleaseAll, IdleWriter
  <2>2. /\ owner = w
        /\ UNCHANGED <<entries, nextEntry, snapshots, job, crossed>>
    BY <1>3 DEF RollbackWrite, SnapshotInv, OneWriter
  <2>3. /\ Shaped' /\ writer'[w].at = "idle" /\ writer'[w].id = 0
        /\ \A v \in Writers \ {w} : writer'[v] = writer[v]
    BY <2>1, <2>2, WriterStartsOrEnds
  <2>4. QED
    BY <2>2, <2>3, WriterMove
<1>4. QED
  BY <1>1, <1>2, <1>3, WriterFlush, WriterCommit

-----------------------------------------------------------------------------
(* Steps of a snapshot job.                                                *)

\* A job step that leaves every job exact.
LEMMA JobMove ==
    ASSUME SnapshotInv, NEW j \in Snapshotters, NEW a, NEW l, NEW t, NEW c,
           \A k \in Snapshotters \ {j} : job'[k] = job[k],
           job' = [k \in Snapshotters |-> job'[k]],
           job'[j] = [at |-> a, last |-> l, total |-> t, crossed |-> c],
           UNCHANGED <<entries, nextEntry, owner, writer>>,
           a \in {"total", "insert"} => Settled(l),
           a = "total" /\ ~c => \A e \in entries : e.id <= l,
           a = "insert" /\ ~c => t = Sum(UpTo(entries, l)),
           UncrossedSnapshotExact', \A s \in snapshots' : Settled(s.last)
    PROVE  SnapshotInv'
<1>1. \A n : Settled(n) => Settled(n)'
  BY DEF Settled
<1>2. Shaped'
  <2> SUFFICES ASSUME NEW k \in Snapshotters
               PROVE  \E b, i, m, d : job'[k] =
                        [at |-> b, last |-> i, total |-> m, crossed |-> d]
    BY DEF SnapshotInv, Shaped
  <2>1. CASE k = j
    BY <2>1
  <2>2. CASE k # j
    BY <2>2 DEF SnapshotInv, Shaped
  <2>3. QED
    BY <2>1, <2>2
<1>3. OneWriter'
  BY DEF SnapshotInv, OneWriter
<1>4. IdsOrdered'
  BY <1>1 DEF SnapshotInv, IdsOrdered
<1>5. JobsExact'
  <2>1. /\ job'[j].at = a /\ job'[j].last = l /\ job'[j].total = t
        /\ job'[j].crossed = c
    OBVIOUS
  <2> SUFFICES ASSUME NEW k \in Snapshotters
               PROVE  /\ job'[k].at \in {"total", "insert"} =>
                           Settled(job'[k].last)
                      /\ job'[k].at = "total" /\ ~job'[k].crossed =>
                           \A e \in entries : e.id <= job'[k].last
                      /\ job'[k].at = "insert" /\ ~job'[k].crossed =>
                           job'[k].total = Sum(UpTo(entries, job'[k].last))
    BY DEF JobsExact, Settled
  <2>2. CASE k = j
    BY <2>1, <2>2
  <2>3. CASE k # j
    BY <2>3 DEF SnapshotInv, JobsExact
  <2>4. QED
    BY <2>2, <2>3
<1>6. SnapshotsSettled'
  BY <1>1 DEF SnapshotsSettled
<1>7. QED
  BY <1>2, <1>3, <1>4, <1>5, <1>6 DEF SnapshotInv

\* The job is done, or has failed, and its worker is at rest.
Rests(j) == job' = [job EXCEPT ![j] = IdleJob]

LEMMA JobRests ==
    ASSUME SnapshotInv, NEW j \in Snapshotters, Rests(j),
           UNCHANGED <<entries, nextEntry, owner, writer>>,
           UncrossedSnapshotExact', \A s \in snapshots' : Settled(s.last)
    PROVE  SnapshotInv'
<1>1. job = [k \in Snapshotters |-> job[k]]
  BY DEF SnapshotInv, Shaped
<1>2. /\ \A k \in Snapshotters \ {j} : job'[k] = job[k]
      /\ job' = [k \in Snapshotters |-> job'[k]]
      /\ job'[j] = IdleJob
  BY <1>1 DEF Rests
<1>3. job'[j] = [at |-> "idle", last |-> 0, total |-> 0, crossed |-> FALSE]
  BY <1>2 DEF IdleJob
<1>4. QED
  BY <1>2, <1>3, JobMove

LEMMA JobTaken ==
    ASSUME SnapshotInv, NEW j \in Snapshotters, TakeJob(j)
    PROVE  SnapshotInv'
<1>1. PICK a, l, t, c :
        job[j] = [at |-> a, last |-> l, total |-> t, crossed |-> c]
  BY DEF SnapshotInv, Shaped
<1>2. /\ UNCHANGED <<entries, nextEntry, owner, writer, snapshots, crossed>>
      /\ a = "idle"
  BY <1>1 DEF TakeJob, JobOnly
<1>3. UncrossedSnapshotExact' /\ \A s \in snapshots' : Settled(s.last)
  BY <1>2 DEF SnapshotInv, UncrossedSnapshotExact, SnapshotsSettled
<1>4. job = [k \in Snapshotters |-> job[k]]
  BY DEF SnapshotInv, Shaped
<1>5. CASE job' = job
  <2>1. /\ \A k \in Snapshotters \ {j} : job'[k] = job[k]
        /\ job' = [k \in Snapshotters |-> job'[k]]
    BY <1>4, <1>5
  <2>2. job'[j] = [at |-> a, last |-> l, total |-> t, crossed |-> c]
    BY <1>1, <1>5
  <2>3. QED
    BY <1>2, <1>3, <2>1, <2>2, JobMove
<1>6. CASE job' = [job EXCEPT ![j].at = "entry"]
  <2>1. /\ \A k \in Snapshotters \ {j} : job'[k] = job[k]
        /\ job' = [k \in Snapshotters |-> job'[k]]
        /\ job'[j] = [job[j] EXCEPT !.at = "entry"]
    BY <1>4, <1>6
  <2>2. ASSUME NEW r, NEW x,
               r = [at |-> a, last |-> l, total |-> t, crossed |-> c],
               x = [r EXCEPT !.at = "entry"]
        PROVE  x = [at |-> "entry", last |-> l, total |-> t, crossed |-> c]
    BY <2>2
  <2>3. job'[j] = [at |-> "entry", last |-> l, total |-> t, crossed |-> c]
    BY <1>1, <2>1, <2>2, Zenon
  <2>4. QED
    BY <1>2, <1>3, <2>1, <2>3, JobMove
<1>7. QED
  BY <1>5, <1>6 DEF TakeJob

\* The last entry is chosen: none with a lower id commits after it.
LEMMA JobEntry ==
    ASSUME SnapshotInv, NEW j \in Snapshotters, ReadLatestEntry(j)
    PROVE  SnapshotInv'
<1>1. PICK a, l, t, c :
        job[j] = [at |-> a, last |-> l, total |-> t, crossed |-> c]
  BY DEF SnapshotInv, Shaped
<1>2. UNCHANGED <<entries, nextEntry, owner, writer, snapshots, crossed>>
  BY DEF ReadLatestEntry, JobOnly
<1>3. UncrossedSnapshotExact' /\ \A s \in snapshots' : Settled(s.last)
  BY <1>2 DEF SnapshotInv, UncrossedSnapshotExact, SnapshotsSettled
<1>4. job = [k \in Snapshotters |-> job[k]]
  BY DEF SnapshotInv, Shaped
<1>5. /\ \A k \in Snapshotters \ {j} : job'[k] = job[k]
      /\ job' = [k \in Snapshotters |-> job'[k]]
  BY <1>4 DEF ReadLatestEntry
<1>6. job'[j] = [at |-> "total", last |-> LatestEntryId, total |-> t,
                 crossed |-> c]
  <2>1. job'[j] = [job[j] EXCEPT !.at = "total", !.last = LatestEntryId]
    BY <1>4 DEF ReadLatestEntry
  <2>2. ASSUME NEW r, NEW x,
               r = [at |-> a, last |-> l, total |-> t, crossed |-> c],
               x = [r EXCEPT !.at = "total", !.last = LatestEntryId]
        PROVE  x = [at |-> "total", last |-> LatestEntryId, total |-> t,
                    crossed |-> c]
    BY <2>2
  <2>3. QED
    BY <1>1, <2>1, <2>2, Zenon
<1>7. /\ Settled(LatestEntryId)
      /\ \A e \in entries : e.id <= LatestEntryId
  BY LatestIsGreatest DEF SnapshotInv
<1>8. QED
  BY <1>2, <1>3, <1>5, <1>6, <1>7, JobMove

\* All entries are summed: those up to the last one, if no commit came
\* between.
LEMMA JobTotal ==
    ASSUME SnapshotInv, NEW j \in Snapshotters, ReadTotal(j)
    PROVE  SnapshotInv'
<1>1. PICK a, l, t, c :
        job[j] = [at |-> a, last |-> l, total |-> t, crossed |-> c]
  BY DEF SnapshotInv, Shaped
<1>2. /\ UNCHANGED <<entries, nextEntry, owner, writer, snapshots, crossed>>
      /\ a = "total"
  BY <1>1 DEF ReadTotal, JobOnly
<1>3. UncrossedSnapshotExact' /\ \A s \in snapshots' : Settled(s.last)
  BY <1>2 DEF SnapshotInv, UncrossedSnapshotExact, SnapshotsSettled
<1>4. job = [k \in Snapshotters |-> job[k]]
  BY DEF SnapshotInv, Shaped
<1>5. /\ \A k \in Snapshotters \ {j} : job'[k] = job[k]
      /\ job' = [k \in Snapshotters |-> job'[k]]
  BY <1>4 DEF ReadTotal
<1>6. job'[j] = [at |-> "insert", last |-> l, total |-> Summed(j),
                 crossed |-> c]
  <2>1. job'[j] = [job[j] EXCEPT !.at = "insert", !.total = Summed(j)]
    BY <1>4 DEF ReadTotal
  <2>2. ASSUME NEW r, NEW x,
               r = [at |-> a, last |-> l, total |-> t, crossed |-> c],
               x = [r EXCEPT !.at = "insert", !.total = Summed(j)]
        PROVE  x = [at |-> "insert", last |-> l, total |-> Summed(j),
                    crossed |-> c]
    BY <2>2
  <2>3. QED
    BY <1>1, <2>1, <2>2, Zenon
<1>7. Settled(l) /\ (~c => \A e \in entries : e.id <= l)
  BY <1>1, <1>2 DEF SnapshotInv, JobsExact
<1>8. ~c => Summed(j) = Sum(UpTo(entries, l))
  <2> SUFFICES ASSUME ~c PROVE Summed(j) = Sum(UpTo(entries, l))
    OBVIOUS
  <2>1. UpTo(entries, l) = entries
    BY <1>7 DEF UpTo
  <2>2. QED
    BY <2>1 DEF Summed, Balance
<1>9. QED
  BY <1>2, <1>3, <1>5, <1>6, <1>7, <1>8, JobMove

LEMMA JobInserts ==
    ASSUME SnapshotInv, NEW j \in Snapshotters, InsertSnapshot(j)
    PROVE  SnapshotInv'
<1>1. /\ UNCHANGED <<entries, nextEntry, owner, writer>>
      /\ job[j].at = "insert" /\ Rests(j)
  BY DEF InsertSnapshot, JobOnly, Rests
<1>2. PICK id : /\ snapshots' = snapshots \cup
                     {[id |-> id, balance |-> job[j].total,
                       last |-> job[j].last]}
                /\ crossed' = IF job[j].crossed THEN crossed \cup {id}
                                                ELSE crossed
  BY DEF InsertSnapshot
<1>3. /\ Settled(job[j].last)
      /\ ~job[j].crossed =>
           job[j].total = Sum(UpTo(entries, job[j].last))
  BY <1>1 DEF SnapshotInv, JobsExact
<1>4. \A s \in snapshots' : Settled(s.last)
  BY <1>2, <1>3 DEF SnapshotInv, SnapshotsSettled
<1>5. UncrossedSnapshotExact'
  <2> SUFFICES ASSUME NEW s \in snapshots', s.id \notin crossed'
               PROVE  s.balance = Sum(UpTo(entries, s.last))
    BY <1>1 DEF UncrossedSnapshotExact
  <2>1. CASE s \in snapshots
    BY <1>2, <2>1 DEF SnapshotInv, UncrossedSnapshotExact
  <2>2. CASE s \notin snapshots
    <3>1. s.id = id /\ s.balance = job[j].total /\ s.last = job[j].last
      BY <1>2, <2>2
    <3>2. QED
      BY <1>2, <1>3, <3>1
  <2>3. QED
    BY <2>1, <2>2
<1>6. QED
  BY <1>1, <1>4, <1>5, JobRests

LEMMA SnapshotStep == SnapshotInv /\ [Next]_vars => SnapshotInv'
<1> SUFFICES ASSUME SnapshotInv, [Next]_vars PROVE SnapshotInv'
  OBVIOUS
<1>1. ASSUME UNCHANGED <<entries, nextEntry, owner, writer, snapshots, job,
                         crossed>>
      PROVE  SnapshotInv'
  BY <1>1 DEF SnapshotInv, Shaped, OneWriter, IdsOrdered, Settled,
     JobsExact, SnapshotsSettled, UncrossedSnapshotExact
<1>2. CASE UNCHANGED vars
  BY <1>1, <1>2 DEF vars
<1>3. ASSUME NEW r \in Readers,
             MissCache(r) \/ ReadSum(r) \/ FillCache(r) \/ ReaderFails(r)
      PROVE  SnapshotInv'
  BY <1>1, <1>3 DEF MissCache, ReadSum, FillCache, ReaderFails, ReaderOnly
<1>4. CASE ExpireCache
  BY <1>1, <1>4 DEF ExpireCache, ReaderOnly
<1>5. ASSUME NEW j \in Snapshotters, JobFails(j)
      PROVE  SnapshotInv'
  <2>1. /\ Rests(j)
        /\ UNCHANGED <<entries, nextEntry, owner, writer, snapshots, crossed>>
    BY <1>5 DEF JobFails, JobOnly, Rests
  <2>2. UncrossedSnapshotExact' /\ \A s \in snapshots' : Settled(s.last)
    BY <2>1 DEF SnapshotInv, UncrossedSnapshotExact, SnapshotsSettled
  <2>3. QED
    BY <2>1, <2>2, JobRests
<1>6. QED
  BY <1>2, <1>3, <1>4, <1>5, WriterStep, JobTaken, JobEntry, JobTotal,
     JobInserts
     DEF Next

\* A snapshot no commit crossed is the sum of the entries up to its last one,
\* and stays it, for any number of writers, readers, jobs and entries.
THEOREM SnapshotsStayExact == Spec => []UncrossedSnapshotExact
<1>1. Spec => []SnapshotInv
  BY SnapshotInit, SnapshotStep, PTL DEF Spec
<1>2. SnapshotInv => UncrossedSnapshotExact
  BY DEF SnapshotInv
<1>3. QED
  BY <1>1, <1>2, PTL


-----------------------------------------------------------------------------
(* The sums that get_balance forms.                                        *)

Entry == [id : 1..MaxEntries, amt : Moves]

LEMMA EntryAmounts ==
    ASSUME NEW S, S \subseteq Entry
    PROVE  \A e \in S : e.amt \in Int /\ e.id \in Nat \ {0}
<1> SUFFICES ASSUME NEW e \in S PROVE e.amt \in Int /\ e.id \in Nat \ {0}
  OBVIOUS
<1>1. e \in Entry
  OBVIOUS
<1>2. e.amt \in Moves /\ e.id \in 1..MaxEntries
  BY <1>1 DEF Entry
<1>3. e.amt \in Int
  BY <1>2, BalanceAssumption
<1>4. e.id \in Nat \ {0}
  <2>1. ASSUME NEW i \in 1..MaxEntries PROVE i \in Nat \ {0}
    BY BalanceAssumption
  <2>2. QED
    BY <1>2, <2>1, Zenon
<1>5. QED
  BY <1>3, <1>4

\* The sum over some of the entries may be formed with the amounts of all.
LEMMA SumOfPart ==
    ASSUME NEW S, IsFiniteSet(S), NEW T, T \subseteq S
    PROVE  Sum(T) = SumFunctionOnSet([e \in S |-> e.amt], T)
<1> DEFINE f == [e \in T |-> e.amt]
           g == [e \in S |-> e.amt]
<1>1. IsFiniteSet(T)
  BY FS_Subset
<1>2. \A e \in T : f[e] = g[e]
  OBVIOUS
<1>3. Sum(T) = SumFunctionOnSet(f, T)
  BY DEF Sum
<1> HIDE DEF f, g
<1>4. SumFunctionOnSet(f, T) = SumFunctionOnSet(g, T)
  BY <1>1, <1>2, SumSame
<1>5. QED
  BY <1>3, <1>4 DEF g

LEMMA SumOfEntries ==
    ASSUME NEW S, IsFiniteSet(S), S \subseteq Entry
    PROVE  Sum(S) \in Int
<1> DEFINE f == [e \in S |-> e.amt]
<1>1. \A e \in S : f[e] \in Int
  BY EntryAmounts
<1>2. Sum(S) = SumFunctionOnSet(f, S)
  BY DEF Sum
<1> HIDE DEF f
<1>3. QED
  BY <1>1, <1>2, SumInt

LEMMA SumOfNone == Sum({}) = 0
BY SumEmpty DEF Sum

\* Entries of two disjoint sets are summed apart.
LEMMA SumOfBoth ==
    ASSUME NEW S, NEW T, IsFiniteSet(S), IsFiniteSet(T), S \cap T = {},
           S \cup T \subseteq Entry
    PROVE  Sum(S \cup T) = Sum(S) + Sum(T)
<1> DEFINE U == S \cup T
           f == [e \in U |-> e.amt]
<1>1. IsFiniteSet(U) /\ S \subseteq U /\ T \subseteq U /\ U \subseteq U
  BY FS_Union
<1>2. \A e \in U : f[e] \in Int
  BY EntryAmounts
<1> HIDE DEF U
<1>3. /\ Sum(S) = SumFunctionOnSet(f, S) /\ Sum(T) = SumFunctionOnSet(f, T)
      /\ Sum(U) = SumFunctionOnSet(f, U)
  BY <1>1, SumOfPart
<1> HIDE DEF f
<1>4. SumFunctionOnSet(f, S \cup T)
        = SumFunctionOnSet(f, S) + SumFunctionOnSet(f, T)
  BY <1>2, SumUnion DEF U
<1>5. QED
  BY <1>3, <1>4 DEF U

LEMMA SumOfOne ==
    ASSUME NEW e \in Entry
    PROVE  Sum({e}) = e.amt
<1> DEFINE S == {e}
           f == [d \in S |-> d.amt]
<1>1. IsFiniteSet(S)
  BY FS_Singleton
<1>2. f[e] \in Int /\ f[e] = e.amt /\ \A d \in S : f[d] \in Int
  BY EntryAmounts
<1>3. e \in S /\ S \ {e} = {}
  OBVIOUS
<1>4. Sum(S) = SumFunctionOnSet(f, S)
  BY DEF Sum
<1> HIDE DEF f, S
<1>5. SumFunctionOnSet(f, S) = f[e] + SumFunctionOnSet(f, S \ {e})
  BY <1>1, <1>2, <1>3, SumRemove
<1>6. QED
  BY <1>2, <1>3, <1>4, <1>5, SumEmpty DEF S

\* Read through a snapshot that is the sum of the entries up to its last one,
\* the balance is the sum of all entries.
LEMMA TotalIsSum ==
    ASSUME NEW S, IsFiniteSet(S), S \subseteq Entry, NEW snap,
           snap.last \in Nat, snap.balance = Sum(UpTo(S, snap.last))
    PROVE  TotalFrom(snap, S) = Sum(S)
<1> DEFINE A == UpTo(S, snap.last)
           B == After(S, snap.last)
<1>1. A \subseteq S /\ B \subseteq S /\ A \cup B = S /\ A \cap B = {}
  BY EntryAmounts DEF UpTo, After
<1>2. IsFiniteSet(A) /\ IsFiniteSet(B)
  BY <1>1, FS_Subset
<1>3. TotalFrom(snap, S) = Sum(A) + Sum(B)
  BY DEF TotalFrom
<1> HIDE DEF A, B
<1>4. QED
  BY <1>1, <1>2, <1>3, SumOfBoth

-----------------------------------------------------------------------------
(* The types, with what the steps need to keep them.                       *)

WriterRow == [at : {"idle", "snapshot", "sum", "flush", "refresh", "commit"},
              amt : Moves \cup {0}, snap : SnapshotRow, id : 0..MaxEntries]
ReaderRow == [at : {"idle", "sum", "fill"}, snap : SnapshotRow, val : Int]
JobRow == [at : {"idle", "entry", "total", "insert"}, last : 0..MaxEntries,
           total : Int, crossed : BOOLEAN]

Known == snapshots \cup {NoSnapshot}

\* A writer that goes on posts one of the amounts; before its flush there is
\* an id left for it; and it sums from a snapshot that exists.
WritersTyped ==
    /\ writer \in [Writers -> WriterRow]
    /\ \A w \in Writers :
          /\ writer[w].at # "idle" => writer[w].amt \in Moves
          /\ writer[w].at \in {"snapshot", "sum", "flush"} =>
               nextEntry <= MaxEntries
          /\ writer[w].at = "sum" => writer[w].snap \in Known

ReadersTyped ==
    /\ reader \in [Readers -> ReaderRow]
    /\ \A r \in Readers : reader[r].at = "sum" => reader[r].snap \in Known

JobsTyped == job \in [Snapshotters -> JobRow]

\* The ids of the snapshots are bounded by their number, so that there is a
\* latest one.
TablesTyped ==
    /\ entries \subseteq Entry /\ IsFiniteSet(entries)
    /\ nextEntry \in 1..MaxEntries + 1
    /\ owner \in Writers \cup {None}
    /\ snapshots \subseteq SnapshotRow /\ IsFiniteSet(snapshots)
    /\ \A s \in snapshots : s.id \in 1..Cardinality(snapshots)
    /\ crossed \subseteq {s.id : s \in snapshots}

CacheTyped ==
    /\ cached \in Int \cup {None}
    /\ jobs \in 0..MaxJobs
    /\ disturbed \in BOOLEAN

TypeInv == /\ WritersTyped /\ ReadersTyped /\ JobsTyped /\ TablesTyped
           /\ CacheTyped

LEMMA TypeInvIsTypeOK == TypeInv => TypeOK
BY DEF TypeInv, TypeOK, WritersTyped, ReadersTyped, JobsTyped, TablesTyped,
   CacheTyped, WriterRow, ReaderRow, JobRow, Entry

LEMMA NoSnapshotRow ==
    /\ NoSnapshot \in SnapshotRow
    /\ NoSnapshot.last = 0 /\ NoSnapshot.balance = 0 /\ NoSnapshot.id = 0
BY BalanceAssumption DEF NoSnapshot, SnapshotRow

LEMMA IdleRows ==
    IdleWriter \in WriterRow /\ IdleReader \in ReaderRow /\ IdleJob \in JobRow
<1>1. IdleWriter \in WriterRow
  BY NoSnapshotRow, BalanceAssumption DEF IdleWriter, WriterRow
<1>2. IdleReader \in ReaderRow
  BY NoSnapshotRow DEF IdleReader, ReaderRow
<1>3. IdleJob \in JobRow
  BY BalanceAssumption DEF IdleJob, JobRow
<1>4. QED
  BY <1>1, <1>2, <1>3

LEMMA TypeInit == Init => TypeInv
<1> SUFFICES ASSUME Init PROVE TypeInv
  OBVIOUS
<1>1. /\ writer \in [Writers -> WriterRow] /\ reader \in [Readers -> ReaderRow]
      /\ JobsTyped
  BY IdleRows DEF Init, JobsTyped
<1>2. WritersTyped
  BY <1>1 DEF Init, WritersTyped, IdleWriter
<1>3. ReadersTyped
  BY <1>1 DEF Init, ReadersTyped, IdleReader
<1>4. TablesTyped
  BY FS_EmptySet, BalanceAssumption DEF Init, TablesTyped
<1>5. CacheTyped
  <2>1. 0 \in 0..MaxJobs
    BY BalanceAssumption
  <2>2. QED
    BY <2>1 DEF Init, CacheTyped
<1>6. QED
  BY <1>1, <1>2, <1>3, <1>4, <1>5 DEF TypeInv

\* The latest snapshot is a row of the table, or none has been taken.
LEMMA LatestIsKnown ==
    ASSUME TablesTyped
    PROVE  LatestSnapshot \in Known /\ LatestSnapshot \in SnapshotRow
<1>1. CASE snapshots = {}
  BY <1>1, NoSnapshotRow DEF LatestSnapshot, Known
<1>2. CASE snapshots # {}
  <2> DEFINE S == {s.id : s \in snapshots}
             n == Cardinality(snapshots)
  <2>1. n \in Nat
    BY FS_CardinalityType DEF TablesTyped
  <2>2. S \subseteq Nat /\ S # {} /\ \A x \in S : x <= n
    BY <1>2, <2>1 DEF TablesTyped
  <2>3. \E x \in S : \A y \in S : x >= y
    <3> HIDE DEF S, n
    <3>1. QED
      BY <2>1, <2>2, GreatestNatural
  <2>4. \E s \in snapshots : \A t \in snapshots : s.id >= t.id
    BY <2>3
  <2>5. LatestSnapshot \in snapshots
    BY <1>2, <2>4 DEF LatestSnapshot
  <2>6. QED
    BY <2>5 DEF Known, TablesTyped
<1>3. QED
  BY <1>1, <1>2

LEMMA TotalTyped ==
    ASSUME NEW S, IsFiniteSet(S), S \subseteq Entry,
           NEW snap \in SnapshotRow
    PROVE  TotalFrom(snap, S) \in Int
<1>1. snap.balance \in Int
  BY DEF SnapshotRow
<1>2. /\ After(S, snap.last) \subseteq Entry
      /\ IsFiniteSet(After(S, snap.last))
  BY FS_Subset DEF After
<1>3. Sum(After(S, snap.last)) \in Int
  BY <1>2, SumOfEntries
<1>4. QED
  BY <1>1, <1>3 DEF TotalFrom

\* A writer's own entry, once it has an id.
LEMMA OwnTyped ==
    ASSUME WritersTyped, NEW w \in Writers, writer[w].at # "idle"
    PROVE  /\ Own(w) \subseteq Entry /\ IsFiniteSet(Own(w))
           /\ \A e \in Own(w) : e.id = writer[w].id /\ e.id # 0
           /\ Own(w) # {} => Own(w) = {[id |-> writer[w].id,
                                        amt |-> writer[w].amt]}
<1>1. writer[w].id \in 0..MaxEntries /\ writer[w].amt \in Moves
  BY DEF WritersTyped, WriterRow
<1>2. CASE writer[w].id = 0
  BY <1>2, FS_EmptySet DEF Own
<1>3. CASE writer[w].id # 0
  <2>1. writer[w].id \in 1..MaxEntries
    BY <1>1, <1>3, BalanceAssumption
  <2>2. PICK e : e = [id |-> writer[w].id, amt |-> writer[w].amt]
    OBVIOUS
  <2>3. e \in Entry /\ e.id = writer[w].id
    BY <1>1, <2>1, <2>2 DEF Entry
  <2>4. Own(w) = {e}
    BY <1>3, <2>2 DEF Own
  <2>5. IsFiniteSet({e})
    BY FS_Singleton
  <2>6. QED
    BY <1>3, <2>2, <2>3, <2>4, <2>5, Zenon
<1>4. QED
  BY <1>2, <1>3

\* A step of one writer keeps what the others are.
LEMMA WritersKept ==
    ASSUME WritersTyped, NEW w \in Writers, UNCHANGED snapshots,
           NEW row \in WriterRow, writer' = [writer EXCEPT ![w] = row],
           row.at # "idle" => row.amt \in Moves,
           row.at \in {"snapshot", "sum", "flush"} => nextEntry' <= MaxEntries,
           row.at = "sum" => row.snap \in Known,
           nextEntry' = nextEntry
             \/ \A v \in Writers \ {w} : writer[v].at = "idle"
    PROVE  WritersTyped'
<1>1. /\ writer' \in [Writers -> WriterRow] /\ writer'[w] = row
      /\ \A v \in Writers \ {w} : writer'[v] = writer[v]
  BY DEF WritersTyped
<1>2. Known' = Known
  BY DEF Known
<1> SUFFICES ASSUME NEW v \in Writers
             PROVE /\ writer'[v].at # "idle" => writer'[v].amt \in Moves
                   /\ writer'[v].at \in {"snapshot", "sum", "flush"} =>
                        nextEntry' <= MaxEntries
                   /\ writer'[v].at = "sum" => writer'[v].snap \in Known'
  BY <1>1 DEF WritersTyped
<1>3. CASE v = w
  BY <1>1, <1>2, <1>3
<1>4. CASE v # w
  BY <1>1, <1>2, <1>4 DEF WritersTyped
<1>5. QED
  BY <1>3, <1>4

\* The rows a writer goes on with.
Reading(r, n) == [r EXCEPT !.at = "sum", !.snap = n]
Flushed(r, k) == [r EXCEPT !.at = "refresh", !.id = k]
GoneOn(r, a) == [r EXCEPT !.at = a]

LEMMA WriterRows ==
    ASSUME NEW r \in WriterRow
    PROVE  /\ \A n \in SnapshotRow :
                /\ Reading(r, n) \in WriterRow
                /\ Reading(r, n).at = "sum" /\ Reading(r, n).snap = n
                /\ Reading(r, n).amt = r.amt /\ Reading(r, n).id = r.id
           /\ \A k \in 0..MaxEntries :
                /\ Flushed(r, k) \in WriterRow
                /\ Flushed(r, k).at = "refresh" /\ Flushed(r, k).id = k
                /\ Flushed(r, k).amt = r.amt
           /\ \A a \in {"flush", "commit"} :
                /\ GoneOn(r, a) \in WriterRow /\ GoneOn(r, a).at = a
                /\ GoneOn(r, a).amt = r.amt /\ GoneOn(r, a).id = r.id
<1>1. ASSUME NEW n \in SnapshotRow
      PROVE  /\ Reading(r, n) \in WriterRow
             /\ Reading(r, n).at = "sum" /\ Reading(r, n).snap = n
             /\ Reading(r, n).amt = r.amt /\ Reading(r, n).id = r.id
  BY DEF Reading, WriterRow
<1>2. ASSUME NEW k \in 0..MaxEntries
      PROVE  /\ Flushed(r, k) \in WriterRow
             /\ Flushed(r, k).at = "refresh" /\ Flushed(r, k).id = k
             /\ Flushed(r, k).amt = r.amt
  BY DEF Flushed, WriterRow
<1>3. ASSUME NEW a \in {"flush", "commit"}
      PROVE  /\ GoneOn(r, a) \in WriterRow /\ GoneOn(r, a).at = a
             /\ GoneOn(r, a).amt = r.amt /\ GoneOn(r, a).id = r.id
  BY DEF GoneOn, WriterRow
<1>4. QED
  BY <1>1, <1>2, <1>3

LEMMA TypesOfWriterStep ==
    ASSUME TypeInv, OneWriter, NEW w \in Writers,
           \/ \E m \in Moves : BeginWrite(w, m)
           \/ ReadSnapshot(w) \/ CheckFunds(w) \/ FlushEntry(w)
           \/ RefreshCache(w) \/ CommitWrite(w) \/ RollbackWrite(w)
    PROVE  WritersTyped'
<1>1. /\ WritersTyped /\ TablesTyped /\ writer[w] \in WriterRow
      /\ LatestSnapshot \in Known /\ LatestSnapshot \in SnapshotRow
  BY LatestIsKnown DEF TypeInv, WritersTyped
<1>2. ASSUME NEW m \in Moves, BeginWrite(w, m)
      PROVE  WritersTyped'
  <2> DEFINE row == [at |-> IF m < 0 THEN "snapshot" ELSE "flush", amt |-> m,
                     snap |-> NoSnapshot, id |-> 0]
  <2>1. /\ nextEntry <= MaxEntries /\ nextEntry' = nextEntry
        /\ UNCHANGED snapshots /\ writer' = [writer EXCEPT ![w] = row]
    BY <1>2 DEF BeginWrite, WriterOnly
  <2>2. /\ row \in WriterRow /\ row.amt \in Moves
        /\ row.at \in {"snapshot", "flush"}
    BY NoSnapshotRow, BalanceAssumption DEF WriterRow
  <2> HIDE DEF row
  <2>3. QED
    BY <1>1, <2>1, <2>2, WritersKept
<1>3. CASE ReadSnapshot(w)
  <2>1. PICK row : row = Reading(writer[w], LatestSnapshot)
    OBVIOUS
  <2>2. /\ writer[w].at = "snapshot" /\ nextEntry' = nextEntry
        /\ UNCHANGED snapshots /\ writer' = [writer EXCEPT ![w] = row]
    BY <1>3, <2>1 DEF ReadSnapshot, WriterOnly, Reading
  <2>3. /\ row \in WriterRow /\ row.amt = writer[w].amt /\ row.at = "sum"
        /\ row.snap = LatestSnapshot
    BY <1>1, <2>1, WriterRows
  <2>4. writer[w].amt \in Moves /\ nextEntry <= MaxEntries
    BY <1>1, <2>2 DEF WritersTyped
  <2>5. QED
    BY <1>1, <2>2, <2>3, <2>4, WritersKept
<1>4. CASE CheckFunds(w)
  <2>1. PICK row : row = GoneOn(writer[w], "flush")
    OBVIOUS
  <2>2. /\ writer[w].at = "sum" /\ nextEntry' = nextEntry
        /\ UNCHANGED snapshots /\ writer' = [writer EXCEPT ![w] = row]
    BY <1>4, <2>1 DEF CheckFunds, WriterOnly, GoneOn
  <2>3. row \in WriterRow /\ row.amt = writer[w].amt /\ row.at = "flush"
    BY <1>1, <2>1, WriterRows
  <2>4. writer[w].amt \in Moves /\ nextEntry <= MaxEntries
    BY <1>1, <2>2 DEF WritersTyped
  <2>5. QED
    BY <1>1, <2>2, <2>3, <2>4, WritersKept
<1>5. CASE FlushEntry(w)
  <2>1. PICK row : row = Flushed(writer[w], nextEntry)
    OBVIOUS
  <2>2. /\ writer[w].at = "flush"
        /\ UNCHANGED snapshots /\ writer' = [writer EXCEPT ![w] = row]
    BY <1>5, <2>1 DEF FlushEntry, WriterOnly, Flushed
  <2>3. writer[w].amt \in Moves /\ nextEntry <= MaxEntries
    BY <1>1, <2>2 DEF WritersTyped
  <2>4. nextEntry \in 0..MaxEntries
    BY <1>1, <2>3, BalanceAssumption DEF TablesTyped
  <2>5. row \in WriterRow /\ row.amt = writer[w].amt /\ row.at = "refresh"
    BY <1>1, <2>1, <2>4, WriterRows
  <2>6. \A v \in Writers \ {w} : writer[v].at = "idle"
    BY <2>2 DEF OneWriter
  <2>7. QED
    BY <1>1, <2>2, <2>3, <2>5, <2>6, WritersKept
<1>6. CASE RefreshCache(w)
  <2>1. PICK row : row = GoneOn(writer[w], "commit")
    OBVIOUS
  <2>2. /\ writer[w].at = "refresh" /\ nextEntry' = nextEntry
        /\ UNCHANGED snapshots /\ writer' = [writer EXCEPT ![w] = row]
    BY <1>6, <2>1 DEF RefreshCache, GoneOn
  <2>3. row \in WriterRow /\ row.amt = writer[w].amt /\ row.at = "commit"
    BY <1>1, <2>1, WriterRows
  <2>4. writer[w].amt \in Moves
    BY <1>1, <2>2 DEF WritersTyped
  <2>5. QED
    BY <1>1, <2>2, <2>3, <2>4, WritersKept
<1>7. CASE CommitWrite(w) \/ RollbackWrite(w)
  <2>1. /\ nextEntry' = nextEntry /\ UNCHANGED snapshots
        /\ writer' = [writer EXCEPT ![w] = IdleWriter]
    BY <1>7 DEF CommitWrite, RollbackWrite, ReleaseAll
  <2>2. IdleWriter \in WriterRow /\ IdleWriter.at = "idle"
    BY IdleRows DEF IdleWriter
  <2>3. QED
    BY <1>1, <2>1, <2>2, WritersKept
<1>8. QED
  BY <1>2, <1>3, <1>4, <1>5, <1>6, <1>7

\* What a writer's steps do to the tables and the cache.
LEMMA TablesOfWriterStep ==
    ASSUME TypeInv, NEW w \in Writers,
           \/ \E m \in Moves : BeginWrite(w, m)
           \/ ReadSnapshot(w) \/ CheckFunds(w) \/ FlushEntry(w)
           \/ RefreshCache(w) \/ CommitWrite(w) \/ RollbackWrite(w)
    PROVE  TablesTyped' /\ CacheTyped'
<1>1. TablesTyped /\ CacheTyped /\ WritersTyped
  BY DEF TypeInv
<1>2. CASE \E m \in Moves : BeginWrite(w, m)
  <2>1. /\ owner' \in Writers \cup {None}
        /\ UNCHANGED <<entries, nextEntry, WriterOnly>>
    BY <1>2 DEF BeginWrite
  <2>2. TablesTyped'
    BY <1>1, <2>1 DEF TablesTyped, WriterOnly
  <2>3. CacheTyped'
    BY <1>1, <2>1 DEF CacheTyped, WriterOnly
  <2>4. QED
    BY <2>2, <2>3
<1>3. CASE ReadSnapshot(w) \/ CheckFunds(w)
  <2>1. UNCHANGED <<entries, nextEntry, owner, WriterOnly>>
    BY <1>3 DEF ReadSnapshot, CheckFunds
  <2>2. TablesTyped'
    BY <1>1, <2>1 DEF TablesTyped, WriterOnly
  <2>3. CacheTyped'
    BY <1>1, <2>1 DEF CacheTyped, WriterOnly
  <2>4. QED
    BY <2>2, <2>3
<1>4. CASE FlushEntry(w)
  <2>1. /\ writer[w].at = "flush" /\ nextEntry' = nextEntry + 1
        /\ UNCHANGED <<entries, owner, WriterOnly>>
    BY <1>4 DEF FlushEntry
  <2>2. nextEntry <= MaxEntries
    BY <1>1, <2>1 DEF WritersTyped
  <2>3. nextEntry' \in 1..MaxEntries + 1
    BY <1>1, <2>1, <2>2, BalanceAssumption DEF TablesTyped
  <2>4. TablesTyped'
    BY <1>1, <2>1, <2>3 DEF TablesTyped, WriterOnly
  <2>5. CacheTyped'
    BY <1>1, <2>1 DEF CacheTyped, WriterOnly
  <2>6. QED
    BY <2>4, <2>5
<1>5. CASE RefreshCache(w)
  <2>1. /\ cached' = Refreshed(w) /\ writer[w].at = "refresh"
        /\ UNCHANGED <<entries, nextEntry, owner, snapshots, crossed,
                       disturbed>>
        /\ jobs' = jobs \/ (jobs < MaxJobs /\ jobs' = jobs + 1)
    BY <1>5 DEF RefreshCache
  <2>2. Own(w) \subseteq Entry /\ IsFiniteSet(Own(w))
    BY <1>1, <2>1, OwnTyped
  <2>3. /\ entries \cup Own(w) \subseteq Entry
        /\ IsFiniteSet(entries \cup Own(w))
    BY <1>1, <2>2, FS_Union DEF TablesTyped
  <2>4. Refreshed(w) \in Int
    BY <1>1, <2>3, LatestIsKnown, TotalTyped DEF Refreshed
  <2>5. jobs' \in 0..MaxJobs
    BY <1>1, <2>1, BalanceAssumption DEF CacheTyped
  <2>6. CacheTyped'
    BY <1>1, <2>1, <2>4, <2>5 DEF CacheTyped
  <2>7. TablesTyped'
    BY <1>1, <2>1 DEF TablesTyped
  <2>8. QED
    BY <2>6, <2>7
<1>6. CASE CommitWrite(w)
  <2>1. /\ writer[w].at = "commit" /\ entries' = entries \cup Own(w)
        /\ owner' = None /\ disturbed' \in BOOLEAN
        /\ UNCHANGED <<nextEntry, cached, snapshots, jobs, crossed>>
    BY <1>1, <1>6 DEF CommitWrite, ReleaseAll, CacheTyped
  <2>2. Own(w) \subseteq Entry /\ IsFiniteSet(Own(w))
    BY <1>1, <2>1, OwnTyped
  <2>3. entries' \subseteq Entry /\ IsFiniteSet(entries')
    BY <1>1, <2>1, <2>2, FS_Union DEF TablesTyped
  <2>4. TablesTyped'
    BY <1>1, <2>1, <2>3 DEF TablesTyped
  <2>5. CacheTyped'
    BY <1>1, <2>1 DEF CacheTyped
  <2>6. QED
    BY <2>4, <2>5
<1>7. CASE RollbackWrite(w)
  <2>1. /\ owner' = None /\ disturbed' \in BOOLEAN
        /\ UNCHANGED <<entries, nextEntry, cached, snapshots, jobs, crossed>>
    BY <1>1, <1>7 DEF RollbackWrite, ReleaseAll, CacheTyped
  <2>2. TablesTyped'
    BY <1>1, <2>1 DEF TablesTyped
  <2>3. CacheTyped'
    BY <1>1, <2>1 DEF CacheTyped
  <2>4. QED
    BY <2>2, <2>3
<1>8. QED
  BY <1>2, <1>3, <1>4, <1>5, <1>6, <1>7

\* The rows a reader and a job go on with.
Missed(r, n) == [r EXCEPT !.at = "sum", !.snap = n]
Read(r, n) == [r EXCEPT !.at = "fill", !.val = n]
Started(r) == [r EXCEPT !.at = "entry"]
Chosen(r, n) == [r EXCEPT !.at = "total", !.last = n]
Totalled(r, n) == [r EXCEPT !.at = "insert", !.total = n]
Crossed(r) == [r EXCEPT !.crossed = TRUE]

LEMMA ReaderRows ==
    ASSUME NEW r \in ReaderRow
    PROVE  /\ \A n \in SnapshotRow :
                /\ Missed(r, n) \in ReaderRow
                /\ Missed(r, n).at = "sum" /\ Missed(r, n).snap = n
           /\ \A n \in Int :
                /\ Read(r, n) \in ReaderRow
                /\ Read(r, n).at = "fill" /\ Read(r, n).val = n
<1>1. ASSUME NEW n \in SnapshotRow
      PROVE  /\ Missed(r, n) \in ReaderRow
             /\ Missed(r, n).at = "sum" /\ Missed(r, n).snap = n
  BY DEF Missed, ReaderRow
<1>2. ASSUME NEW n \in Int
      PROVE  /\ Read(r, n) \in ReaderRow
             /\ Read(r, n).at = "fill" /\ Read(r, n).val = n
  BY DEF Read, ReaderRow
<1>3. QED
  BY <1>1, <1>2

LEMMA JobRows ==
    ASSUME NEW r \in JobRow
    PROVE  /\ Started(r) \in JobRow /\ Crossed(r) \in JobRow
           /\ \A n \in 0..MaxEntries : Chosen(r, n) \in JobRow
           /\ \A n \in Int : Totalled(r, n) \in JobRow
<1>1. Started(r) \in JobRow
  BY DEF Started, JobRow
<1>2. Crossed(r) \in JobRow
  BY DEF Crossed, JobRow
<1>3. ASSUME NEW n \in 0..MaxEntries PROVE Chosen(r, n) \in JobRow
  BY DEF Chosen, JobRow
<1>4. ASSUME NEW n \in Int PROVE Totalled(r, n) \in JobRow
  BY DEF Totalled, JobRow
<1>5. QED
  BY <1>1, <1>2, <1>3, <1>4

\* A writer's step leaves the readers alone, and of the jobs it changes what
\* a commit crosses.
LEMMA OthersOfWriterStep ==
    ASSUME TypeInv, NEW w \in Writers,
           \/ \E m \in Moves : BeginWrite(w, m)
           \/ ReadSnapshot(w) \/ CheckFunds(w) \/ FlushEntry(w)
           \/ RefreshCache(w) \/ CommitWrite(w) \/ RollbackWrite(w)
    PROVE  ReadersTyped' /\ JobsTyped'
<1>1. UNCHANGED <<reader, snapshots>>
  BY DEF BeginWrite, ReadSnapshot, CheckFunds, FlushEntry, RefreshCache,
     CommitWrite, RollbackWrite, WriterOnly
<1>2. ReadersTyped'
  BY <1>1 DEF TypeInv, ReadersTyped, Known
<1>3. CASE CommitWrite(w)
  <2>1. job' = [j \in Snapshotters |-> IF job[j].at = "total"
                                         THEN Crossed(job[j]) ELSE job[j]]
    BY <1>3 DEF CommitWrite, Crossed
  <2>2. \A j \in Snapshotters : job[j] \in JobRow /\ Crossed(job[j]) \in JobRow
    BY JobRows DEF TypeInv, JobsTyped
  <2>3. QED
    BY <1>2, <2>1, <2>2 DEF JobsTyped
<1>4. CASE ~CommitWrite(w)
  <2>1. job' = job
    BY <1>4 DEF BeginWrite, ReadSnapshot, CheckFunds, FlushEntry,
       RefreshCache, RollbackWrite, WriterOnly
  <2>2. QED
    BY <1>2, <2>1 DEF TypeInv, JobsTyped
<1>5. QED
  BY <1>3, <1>4

LEMMA TypesOfReaderStep ==
    ASSUME TypeInv, NEW r \in Readers,
           MissCache(r) \/ ReadSum(r) \/ FillCache(r) \/ ReaderFails(r)
    PROVE  TypeInv'
<1>1. /\ ReadersTyped /\ TablesTyped /\ CacheTyped
      /\ LatestSnapshot \in Known /\ LatestSnapshot \in SnapshotRow
      /\ reader[r] \in ReaderRow /\ reader \in [Readers -> ReaderRow]
  BY LatestIsKnown DEF TypeInv, ReadersTyped
<1>2. UNCHANGED <<entries, nextEntry, owner, writer, snapshots, jobs, job,
                  crossed>>
  BY DEF MissCache, ReadSum, FillCache, ReaderFails, ReaderOnly
<1>3. WritersTyped' /\ JobsTyped' /\ TablesTyped' /\ Known' = Known
  <2>1. WritersTyped'
    BY <1>2 DEF TypeInv, WritersTyped, Known
  <2>2. JobsTyped' /\ Known' = Known
    BY <1>2 DEF TypeInv, JobsTyped, Known
  <2>3. TablesTyped'
    BY <1>2 DEF TypeInv, TablesTyped
  <2>4. QED
    BY <2>1, <2>2, <2>3
<1>4. PICK row : /\ row \in ReaderRow
                 /\ row.at = "sum" => row.snap \in Known
                 /\ reader' = [reader EXCEPT ![r] = row]
  <2>1. CASE MissCache(r)
    <3>1. reader' = [reader EXCEPT ![r] = Missed(reader[r], LatestSnapshot)]
      BY <2>1 DEF MissCache, Missed
    <3>2. QED
      BY <1>1, <3>1, ReaderRows
  <2>2. CASE ReadSum(r)
    <3>1. PICK n : /\ n = TotalFrom(reader[r].snap, entries)
                   /\ reader' = [reader EXCEPT ![r] = Read(reader[r], n)]
      BY <2>2 DEF ReadSum, Read
    <3>2. reader[r].snap \in SnapshotRow
      BY <1>1 DEF ReaderRow
    <3>3. n \in Int
      BY <1>1, <3>1, <3>2, TotalTyped DEF TablesTyped
    <3>4. QED
      BY <1>1, <3>1, <3>3, ReaderRows
  <2>3. CASE FillCache(r) \/ ReaderFails(r)
    <3>1. reader' = [reader EXCEPT ![r] = IdleReader]
      BY <2>3 DEF FillCache, ReaderFails
    <3>2. IdleReader \in ReaderRow /\ IdleReader.at = "idle"
      BY IdleRows DEF IdleReader
    <3>3. QED
      BY <3>1, <3>2
  <2>4. QED
    BY <2>1, <2>2, <2>3
<1>5. ReadersTyped'
  <2>1. /\ reader' \in [Readers -> ReaderRow] /\ reader'[r] = row
        /\ \A q \in Readers \ {r} : reader'[q] = reader[q]
    BY <1>1, <1>4
  <2>2. ASSUME NEW q \in Readers, reader'[q].at = "sum"
        PROVE  reader'[q].snap \in Known'
    BY <1>1, <1>3, <1>4, <2>1, <2>2 DEF ReadersTyped
  <2>3. QED
    BY <2>1, <2>2 DEF ReadersTyped
<1>6. CacheTyped'
  <2>1. cached' \in Int \cup {None} /\ disturbed' \in BOOLEAN
    <3>1. CASE FillCache(r)
      <4>1. reader[r].val \in Int
        BY <1>1 DEF ReaderRow
      <4>2. QED
        BY <1>1, <3>1, <4>1 DEF FillCache, CacheTyped
    <3>2. CASE ~FillCache(r)
      BY <1>1, <3>2 DEF MissCache, ReadSum, ReaderFails, CacheTyped
    <3>3. QED
      BY <3>1, <3>2
  <2>2. QED
    BY <1>1, <1>2, <2>1 DEF CacheTyped
<1>7. QED
  BY <1>3, <1>5, <1>6 DEF TypeInv

LEMMA TypesOfJobStep ==
    ASSUME TypeInv, IdsOrdered, NEW j \in Snapshotters,
           \/ TakeJob(j) \/ ReadLatestEntry(j) \/ ReadTotal(j)
           \/ InsertSnapshot(j) \/ JobFails(j)
    PROVE  TypeInv'
<1>1. /\ ReadersTyped /\ TablesTyped /\ CacheTyped /\ WritersTyped
      /\ JobsTyped /\ job[j] \in JobRow
  BY DEF TypeInv, JobsTyped
<1>2. UNCHANGED JobOnly
  BY DEF TakeJob, ReadLatestEntry, ReadTotal, InsertSnapshot, JobFails
<1>3. PICK row : /\ row \in JobRow
                 /\ job' = job \/ job' = [job EXCEPT ![j] = row]
  <2>1. CASE TakeJob(j)
    <3>1. job' = job \/ job' = [job EXCEPT ![j] = Started(job[j])]
      BY <2>1 DEF TakeJob, Started
    <3>2. QED
      BY <1>1, <3>1, JobRows
  <2>2. CASE ReadLatestEntry(j)
    <3>1. PICK n : /\ n = LatestEntryId
                   /\ job' = [job EXCEPT ![j] = Chosen(job[j], n)]
      BY <2>2 DEF ReadLatestEntry, Chosen
    <3>2. n \in Nat /\ n < nextEntry
      BY <3>1, LatestIsGreatest DEF Settled
    <3>3. n \in 0..MaxEntries
      BY <1>1, <3>2, BalanceAssumption DEF TablesTyped
    <3>4. QED
      BY <1>1, <3>1, <3>3, JobRows
  <2>3. CASE ReadTotal(j)
    <3>1. PICK n : /\ n = Sum(entries)
                   /\ job' = [job EXCEPT ![j] = Totalled(job[j], n)]
      BY <2>3 DEF ReadTotal, Totalled, Summed, Balance
    <3>2. n \in Int
      BY <1>1, <3>1, SumOfEntries DEF TablesTyped
    <3>3. QED
      BY <1>1, <3>1, <3>2, JobRows
  <2>4. CASE InsertSnapshot(j) \/ JobFails(j)
    <3>1. job' = [job EXCEPT ![j] = IdleJob]
      BY <2>4 DEF InsertSnapshot, JobFails
    <3>2. QED
      BY <3>1, IdleRows
  <2>5. QED
    BY <2>1, <2>2, <2>3, <2>4
<1>4. JobsTyped'
  BY <1>1, <1>3 DEF JobsTyped
<1>5. CacheTyped'
  <2>1. jobs' = jobs \/ (jobs > 0 /\ jobs' = jobs - 1)
    BY DEF TakeJob, ReadLatestEntry, ReadTotal, InsertSnapshot, JobFails
  <2>2. jobs' \in 0..MaxJobs
    BY <1>1, <2>1, BalanceAssumption DEF CacheTyped
  <2>3. QED
    BY <1>1, <1>2, <2>2 DEF CacheTyped, JobOnly
<1>6. TablesTyped' /\ snapshots \subseteq snapshots'
  <2>1. CASE InsertSnapshot(j)
    <3> DEFINE id == Cardinality(snapshots) + 1
               s == [id |-> id, balance |-> job[j].total, last |-> job[j].last]
    <3>1. /\ snapshots' = snapshots \cup {s}
          /\ crossed' = crossed \cup {id} \/ crossed' = crossed
      BY <2>1 DEF InsertSnapshot
    <3>2. Cardinality(snapshots) \in Nat
      BY <1>1, FS_CardinalityType DEF TablesTyped
    <3>3. s \in SnapshotRow /\ s.id = id
      BY <1>1, <3>2 DEF JobRow, SnapshotRow
    <3>4. s \notin snapshots
      BY <1>1, <3>2, <3>3 DEF TablesTyped
    <3> HIDE DEF s
    <3>5. IsFiniteSet(snapshots') /\ Cardinality(snapshots') = id
      BY <1>1, <3>1, <3>4, FS_AddElement DEF TablesTyped
    <3>6. \A t \in snapshots' : t.id \in 1..Cardinality(snapshots')
      <4> SUFFICES ASSUME NEW t \in snapshots' PROVE t.id \in 1..id
        BY <3>5
      <4>1. CASE t = s
        BY <3>2, <3>3, <4>1
      <4>2. CASE t \in snapshots
        <5>1. t.id \in 1..Cardinality(snapshots)
          BY <1>1, <4>2 DEF TablesTyped
        <5>2. QED
          BY <3>2, <5>1
      <4>3. QED
        BY <3>1, <4>1, <4>2
    <3>7. crossed' \subseteq {t.id : t \in snapshots'}
      <4>1. crossed \subseteq {t.id : t \in snapshots}
        BY <1>1 DEF TablesTyped
      <4>2. QED
        BY <3>1, <3>3, <4>1
    <3>8. snapshots' \subseteq SnapshotRow
      BY <1>1, <3>1, <3>3 DEF TablesTyped
    <3>9. QED
      BY <1>1, <1>2, <3>1, <3>5, <3>6, <3>7, <3>8 DEF TablesTyped, JobOnly
  <2>2. CASE ~InsertSnapshot(j)
    <3>1. UNCHANGED <<snapshots, crossed>>
      BY <2>2 DEF TakeJob, ReadLatestEntry, ReadTotal, JobFails
    <3>2. QED
      BY <1>1, <1>2, <3>1 DEF TablesTyped, JobOnly
  <2>3. QED
    BY <2>1, <2>2
<1>7. WritersTyped' /\ ReadersTyped'
  <2>1. Known \subseteq Known'
    BY <1>6 DEF Known
  <2>2. WritersTyped'
    BY <1>1, <1>2, <2>1 DEF WritersTyped, JobOnly
  <2>3. ReadersTyped'
    BY <1>1, <1>2, <2>1 DEF ReadersTyped, JobOnly
  <2>4. QED
    BY <2>2, <2>3
<1>8. QED
  BY <1>4, <1>5, <1>6, <1>7 DEF TypeInv

LEMMA TypeStep == TypeInv /\ SnapshotInv /\ [Next]_vars => TypeInv'
<1> SUFFICES ASSUME TypeInv, SnapshotInv, [Next]_vars PROVE TypeInv'
  OBVIOUS
<1>1. ASSUME NEW w \in Writers,
             \/ \E m \in Moves : BeginWrite(w, m)
             \/ ReadSnapshot(w) \/ CheckFunds(w) \/ FlushEntry(w)
             \/ RefreshCache(w) \/ CommitWrite(w) \/ RollbackWrite(w)
      PROVE  TypeInv'
  BY <1>1, TypesOfWriterStep, TablesOfWriterStep, OthersOfWriterStep
     DEF SnapshotInv, TypeInv
<1>2. CASE ExpireCache \/ UNCHANGED vars
  <2>1. /\ UNCHANGED <<entries, nextEntry, owner, writer, reader, snapshots,
                       jobs, job, crossed, disturbed>>
        /\ cached' = cached \/ cached' = None
    BY <1>2 DEF ExpireCache, ReaderOnly, vars
  <2>2. WritersTyped' /\ ReadersTyped'
    BY <2>1 DEF TypeInv, WritersTyped, ReadersTyped, Known
  <2>3. JobsTyped' /\ TablesTyped'
    BY <2>1 DEF TypeInv, JobsTyped, TablesTyped
  <2>4. CacheTyped'
    BY <2>1 DEF TypeInv, CacheTyped
  <2>5. QED
    BY <2>2, <2>3, <2>4 DEF TypeInv
<1>3. QED
  BY <1>1, <1>2, TypesOfReaderStep, TypesOfJobStep DEF SnapshotInv, Next

\* Every variable keeps to its values, whatever the numbers of sessions,
\* readers and jobs, the amounts and the bounds.
THEOREM TypeCorrect == Spec => []TypeOK
<1>1. Spec => [](SnapshotInv /\ TypeInv)
  BY SnapshotInit, SnapshotStep, TypeInit, TypeStep, PTL DEF Spec
<1>2. QED
  BY <1>1, TypeInvIsTypeOK, PTL

-----------------------------------------------------------------------------
(* The balance read through a snapshot.                                    *)

BalanceInv == SnapshotInv /\ TypeInv

LEMMA BalanceInvHolds == Spec => []BalanceInv
<1>1. Init => BalanceInv
  BY SnapshotInit, TypeInit DEF BalanceInv
<1>2. BalanceInv /\ [Next]_vars => BalanceInv'
  BY SnapshotStep, TypeStep DEF BalanceInv
<1>3. QED
  BY <1>1, <1>2, PTL DEF Spec

\* What one writer's commit adds to the balance.
LEMMA OwnAdds ==
    ASSUME BalanceInv, NEW w \in Writers, writer[w].at # "idle"
    PROVE  /\ entries \cup Own(w) \subseteq Entry
           /\ IsFiniteSet(entries \cup Own(w))
           /\ Balance \in Int /\ writer[w].amt \in Int
           /\ Sum(entries \cup Own(w)) \in {Balance, Balance + writer[w].amt}
<1>1. /\ entries \subseteq Entry /\ IsFiniteSet(entries) /\ WritersTyped
      /\ writer[w].amt \in Moves /\ IdsOrdered
  BY DEF BalanceInv, SnapshotInv, TypeInv, TablesTyped, WritersTyped
<1>2. /\ Own(w) \subseteq Entry /\ IsFiniteSet(Own(w))
      /\ \A e \in Own(w) : e.id = writer[w].id /\ e.id # 0
      /\ Own(w) # {} => Own(w) = {[id |-> writer[w].id,
                                   amt |-> writer[w].amt]}
  BY <1>1, OwnTyped
<1>3. /\ entries \cup Own(w) \subseteq Entry
      /\ IsFiniteSet(entries \cup Own(w))
  BY <1>1, <1>2, FS_Union
<1>4. Balance \in Int /\ writer[w].amt \in Int
  BY <1>1, SumOfEntries, BalanceAssumption DEF Balance
<1>5. CASE Own(w) = {}
  <2>1. entries \cup Own(w) = entries
    BY <1>5
  <2>2. QED
    BY <1>3, <1>4, <2>1 DEF Balance
<1>6. CASE Own(w) # {}
  <2>1. entries \cap Own(w) = {}
    BY <1>1, <1>2 DEF IdsOrdered, Settled
  <2>2. Sum(entries \cup Own(w)) = Sum(entries) + Sum(Own(w))
    BY <1>1, <1>2, <1>3, <2>1, SumOfBoth
  <2>3. PICK e : /\ e = [id |-> writer[w].id, amt |-> writer[w].amt]
                 /\ Own(w) = {e}
    BY <1>2, <1>6
  <2>4. e \in Entry /\ e.amt = writer[w].amt
    BY <1>2, <2>3
  <2>5. Sum(Own(w)) = writer[w].amt
    BY <2>3, <2>4, SumOfOne
  <2>6. QED
    BY <1>3, <1>4, <2>2, <2>5 DEF Balance
<1>7. QED
  BY <1>5, <1>6

\* Through a snapshot that no commit crossed the balance is read exactly, with
\* and without the entry that a writer is about to commit.
LEMMA KnownExact ==
    ASSUME BalanceInv, NEW s \in Known, s.id \notin crossed
    PROVE  /\ TotalFrom(s, entries) = Balance
           /\ \A w \in Writers : writer[w].at # "idle" =>
                TotalFrom(s, entries \cup Own(w)) = Sum(entries \cup Own(w))
<1>1. /\ entries \subseteq Entry /\ IsFiniteSet(entries) /\ IdsOrdered
      /\ snapshots \subseteq SnapshotRow /\ WritersTyped
  BY DEF BalanceInv, SnapshotInv, TypeInv, TablesTyped
<1>2. /\ s.last \in Nat /\ s.balance = Sum(UpTo(entries, s.last))
      /\ Settled(s.last)
  <2>1. CASE s \in snapshots
    BY <2>1 DEF BalanceInv, SnapshotInv, SnapshotsSettled,
       UncrossedSnapshotExact, Settled
  <2>2. CASE s = NoSnapshot
    <3>1. UpTo(entries, 0) = {}
      BY <1>1, EntryAmounts DEF UpTo
    <3>2. Settled(0)
      BY <1>1 DEF IdsOrdered, Settled
    <3>3. QED
      BY <2>2, <3>1, <3>2, SumOfNone, NoSnapshotRow
  <2>3. QED
    BY <2>1, <2>2 DEF Known
<1>3. TotalFrom(s, entries) = Balance
  BY <1>1, <1>2, TotalIsSum DEF Balance
<1>4. ASSUME NEW w \in Writers, writer[w].at # "idle"
      PROVE  TotalFrom(s, entries \cup Own(w)) = Sum(entries \cup Own(w))
  <2>1. /\ entries \cup Own(w) \subseteq Entry
        /\ IsFiniteSet(entries \cup Own(w))
    BY <1>4, OwnAdds
  <2>2. \A e \in Own(w) : e.id = writer[w].id /\ e.id # 0
    BY <1>1, <1>4, OwnTyped
  <2>3. UpTo(entries \cup Own(w), s.last) = UpTo(entries, s.last)
    <3>1. writer[w].id # 0 => s.last < writer[w].id
      BY <1>2 DEF Settled
    <3>2. writer[w].id \in Nat
      BY <1>1 DEF IdsOrdered
    <3>3. \A e \in Own(w) : ~(e.id <= s.last)
      BY <1>2, <2>2, <3>1, <3>2
    <3>4. QED
      BY <3>3 DEF UpTo
  <2>4. s.balance = Sum(UpTo(entries \cup Own(w), s.last))
    BY <1>2, <2>3
  <2> DEFINE S == entries \cup Own(w)
  <2> HIDE DEF S
  <2>5. QED
    BY <1>2, <2>1, <2>4, TotalIsSum DEF S
<1>5. QED
  BY <1>3, <1>4

\* Balance and last entry fit each other even when the newest snapshot row
\* was computed from older data than one before it: the balance read through
\* the latest snapshot is the sum of all entries unless that one is crossed.
BalanceThroughSnapshot ==
    LatestSnapshot.id \notin crossed =>
        TotalFrom(LatestSnapshot, entries) = Balance

\* The balance read through the latest snapshot is the sum of all entries,
\* unless a commit crossed that snapshot, whatever the number of sessions and
\* jobs and however old the data of the latest snapshot.
THEOREM SnapshotsReadTheBalance == Spec => []BalanceThroughSnapshot
<1>1. ASSUME BalanceInv PROVE BalanceThroughSnapshot
  <2>1. LatestSnapshot \in Known
    BY <1>1, LatestIsKnown DEF BalanceInv, TypeInv
  <2>2. PICK s \in Known : s = LatestSnapshot
    BY <2>1
  <2>3. s.id \notin crossed => TotalFrom(s, entries) = Balance
    BY <1>1, KnownExact
  <2>4. QED
    BY <2>2, <2>3 DEF BalanceThroughSnapshot
<1>2. QED
  BY <1>1, BalanceInvHolds, PTL

-----------------------------------------------------------------------------
(* No debit overdraws the account.                                         *)

\* Once a posting is through the funds check, its amount leaves the balance
\* at zero or above: the lock keeps all the other entries out until it ends.
FundsInv ==
    crossed = {} =>
        /\ Balance >= 0
        /\ \A w \in Writers :
              writer[w].at \in {"flush", "refresh", "commit"} =>
                Balance + writer[w].amt >= 0

\* What the steps do to where the writers are and to the entries.
LEMMA WriterMoves ==
    ASSUME BalanceInv, NEW w \in Writers
    PROVE  /\ \A m \in Moves : BeginWrite(w, m) =>
                /\ writer'[w].amt = m
                /\ m >= 0 \/ writer'[w].at = "snapshot"
           /\ ReadSnapshot(w) => writer'[w].at = "sum"
           /\ CheckFunds(w) \/ FlushEntry(w) \/ RefreshCache(w) =>
                writer'[w].amt = writer[w].amt
           /\ RefreshCache(w) => writer'[w].at = "commit"
           /\ RefreshCache(w) => writer'[w].id = writer[w].id
           /\ CheckFunds(w) => writer'[w].at = "flush"
           /\ FlushEntry(w) => writer'[w].at = "refresh"
           /\ CommitWrite(w) \/ RollbackWrite(w) =>
                writer'[w].at = "idle" /\ writer'[w].id = 0
           /\ \/ \E m \in Moves : BeginWrite(w, m)
              \/ ReadSnapshot(w) \/ CheckFunds(w) \/ FlushEntry(w)
              \/ RefreshCache(w) \/ CommitWrite(w) \/ RollbackWrite(w)
              => \A v \in Writers \ {w} : writer'[v] = writer[v]
<1>1. /\ writer \in [Writers -> WriterRow] /\ writer[w] \in WriterRow
      /\ LatestSnapshot \in SnapshotRow /\ Moves \subseteq Int
      /\ nextEntry \in 1..MaxEntries + 1
      /\ writer[w].at = "flush" => nextEntry <= MaxEntries
  BY LatestIsKnown, BalanceAssumption
     DEF BalanceInv, TypeInv, WritersTyped, TablesTyped
<1>2. ASSUME NEW m \in Moves, BeginWrite(w, m)
      PROVE  /\ writer'[w].amt = m
             /\ m >= 0 \/ writer'[w].at = "snapshot"
  BY <1>1, <1>2 DEF BeginWrite
<1>3. ASSUME ReadSnapshot(w) PROVE writer'[w].at = "sum"
  <2>1. PICK row : row = Reading(writer[w], LatestSnapshot)
    OBVIOUS
  <2>2. writer' = [writer EXCEPT ![w] = row]
    BY <1>3, <2>1 DEF ReadSnapshot, Reading
  <2>3. row.at = "sum"
    BY <1>1, <2>1, WriterRows
  <2>4. QED
    BY <1>1, <2>2, <2>3
<1>4. ASSUME CheckFunds(w)
      PROVE  writer'[w].amt = writer[w].amt /\ writer'[w].at = "flush"
  <2>1. writer'[w] = GoneOn(writer[w], "flush")
    BY <1>1, <1>4 DEF CheckFunds, GoneOn
  <2>2. QED
    BY <1>1, <2>1, WriterRows
<1>5. ASSUME FlushEntry(w)
      PROVE  writer'[w].amt = writer[w].amt /\ writer'[w].at = "refresh"
  <2>1. writer'[w] = Flushed(writer[w], nextEntry) /\ writer[w].at = "flush"
    BY <1>1, <1>5 DEF FlushEntry, Flushed
  <2>2. nextEntry \in 0..MaxEntries
    BY <1>1, <2>1, BalanceAssumption
  <2>3. QED
    BY <1>1, <2>1, <2>2, WriterRows
<1>6. ASSUME RefreshCache(w)
      PROVE  /\ writer'[w].amt = writer[w].amt /\ writer'[w].at = "commit"
             /\ writer'[w].id = writer[w].id
  <2>1. writer'[w] = GoneOn(writer[w], "commit")
    BY <1>1, <1>6 DEF RefreshCache, GoneOn
  <2>2. QED
    BY <1>1, <2>1, WriterRows
<1>7. ASSUME CommitWrite(w) \/ RollbackWrite(w)
      PROVE  writer'[w].at = "idle" /\ writer'[w].id = 0
  BY <1>1, <1>7 DEF CommitWrite, RollbackWrite, ReleaseAll, IdleWriter
<1>8. ASSUME \/ \E m \in Moves : BeginWrite(w, m)
             \/ ReadSnapshot(w) \/ CheckFunds(w) \/ FlushEntry(w)
             \/ RefreshCache(w) \/ CommitWrite(w) \/ RollbackWrite(w)
      PROVE  \A v \in Writers \ {w} : writer'[v] = writer[v]
  BY <1>1, <1>8 DEF BeginWrite, ReadSnapshot, CheckFunds, FlushEntry,
     RefreshCache, CommitWrite, RollbackWrite, ReleaseAll
<1>9. QED
  BY <1>2, <1>3, <1>4, <1>5, <1>6, <1>7, <1>8

LEMMA FundsStep == BalanceInv /\ FundsInv /\ [Next]_vars => FundsInv'
<1> SUFFICES ASSUME BalanceInv, FundsInv, [Next]_vars, crossed' = {}
             PROVE  /\ Balance' >= 0
                    /\ \A v \in Writers :
                          writer'[v].at \in {"flush", "refresh", "commit"} =>
                            Balance' + writer'[v].amt >= 0
  BY DEF FundsInv
<1>1. ASSUME UNCHANGED <<entries, writer>>, crossed = {}
      PROVE  /\ Balance' >= 0
             /\ \A v \in Writers :
                   writer'[v].at \in {"flush", "refresh", "commit"} =>
                     Balance' + writer'[v].amt >= 0
  BY <1>1 DEF FundsInv, Balance
<1>2. CASE UNCHANGED vars
  BY <1>1, <1>2 DEF vars
<1>3. ASSUME NEW r \in Readers,
             MissCache(r) \/ ReadSum(r) \/ FillCache(r) \/ ReaderFails(r)
      PROVE  UNCHANGED <<entries, writer, crossed>>
  BY <1>3 DEF MissCache, ReadSum, FillCache, ReaderFails, ReaderOnly
<1>4. CASE ExpireCache
  BY <1>1, <1>4 DEF ExpireCache, ReaderOnly
<1>5. ASSUME NEW j \in Snapshotters,
             \/ TakeJob(j) \/ ReadLatestEntry(j) \/ ReadTotal(j)
             \/ InsertSnapshot(j) \/ JobFails(j)
      PROVE  UNCHANGED <<entries, writer>> /\ crossed = {}
  <2>1. UNCHANGED <<entries, writer>>
    BY <1>5 DEF TakeJob, ReadLatestEntry, ReadTotal, InsertSnapshot,
       JobFails, JobOnly
  <2>2. crossed \subseteq crossed'
    BY <1>5 DEF TakeJob, ReadLatestEntry, ReadTotal, InsertSnapshot, JobFails
  <2>3. QED
    BY <2>1, <2>2
<1>6. ASSUME NEW w \in Writers,
             \/ \E m \in Moves : BeginWrite(w, m)
             \/ ReadSnapshot(w) \/ CheckFunds(w) \/ FlushEntry(w)
             \/ RefreshCache(w) \/ CommitWrite(w) \/ RollbackWrite(w)
      PROVE  /\ Balance' >= 0
             /\ \A v \in Writers :
                   writer'[v].at \in {"flush", "refresh", "commit"} =>
                     Balance' + writer'[v].amt >= 0
  <2>1. /\ crossed = {} /\ Balance >= 0
        /\ \A v \in Writers : writer[v].at \in {"flush", "refresh", "commit"}
              => Balance + writer[v].amt >= 0
    <3>1. crossed' = crossed
      BY <1>6 DEF BeginWrite, ReadSnapshot, CheckFunds, FlushEntry,
         RefreshCache, CommitWrite, RollbackWrite, WriterOnly
    <3>2. QED
      BY <3>1 DEF FundsInv
  <2>2. \A v \in Writers \ {w} : writer'[v] = writer[v]
    BY <1>6, WriterMoves
  <2>3. CASE CommitWrite(w)
    <3>1. /\ writer[w].at = "commit" /\ entries' = entries \cup Own(w)
      BY <2>3 DEF CommitWrite
    <3>2. Balance' = Sum(entries \cup Own(w))
      BY <3>1 DEF Balance
    <3>3. Balance' >= 0
      BY <2>1, <3>1, <3>2, OwnAdds
    <3>4. \A v \in Writers : writer'[v].at = "idle"
      <4>1. writer'[w].at = "idle"
        BY <2>3, WriterMoves
      <4>2. \A v \in Writers \ {w} : writer[v].at = "idle"
        BY <3>1 DEF BalanceInv, SnapshotInv, OneWriter
      <4>3. QED
        BY <2>2, <4>1, <4>2
    <3>5. QED
      BY <3>3, <3>4
  <2>4. CASE ~CommitWrite(w)
    <3>1. entries' = entries
      BY <1>6, <2>4 DEF BeginWrite, ReadSnapshot, CheckFunds, FlushEntry,
         RefreshCache, RollbackWrite, WriterOnly
    <3>2. Balance' = Balance /\ Balance \in Int
      BY <3>1, SumOfEntries DEF Balance, BalanceInv, TypeInv, TablesTyped
    <3>3. writer'[w].at \in {"flush", "refresh", "commit"} =>
            Balance + writer'[w].amt >= 0
      <4>1. ASSUME NEW m \in Moves, BeginWrite(w, m)
            PROVE  writer'[w].at = "snapshot" \/
                     Balance + writer'[w].amt >= 0
        <5>1. writer'[w].amt = m /\ (m >= 0 \/ writer'[w].at = "snapshot")
          BY <4>1, WriterMoves
        <5>2. m \in Int
          BY BalanceAssumption
        <5>3. QED
          BY <2>1, <3>2, <5>1, <5>2
      <4>2. CASE ReadSnapshot(w)
        BY <4>2, WriterMoves
      <4>3. CASE CheckFunds(w)
        <5>1. /\ writer[w].at = "sum" /\ Funded(w)
              /\ writer'[w].amt = writer[w].amt
          BY <4>3, WriterMoves DEF CheckFunds
        <5>2. PICK s \in Known : s = writer[w].snap
          BY <5>1 DEF BalanceInv, TypeInv, WritersTyped
        <5>3. TotalFrom(s, entries) = Balance
          BY <2>1, KnownExact
        <5>4. writer[w].amt \in Int
          BY <5>1, OwnAdds
        <5>5. QED
          BY <3>2, <5>1, <5>2, <5>3, <5>4 DEF Funded
      <4>4. CASE FlushEntry(w) \/ RefreshCache(w)
        <5>1. /\ writer[w].at \in {"flush", "refresh"}
              /\ writer'[w].amt = writer[w].amt
          BY <4>4, WriterMoves DEF FlushEntry, RefreshCache
        <5>2. QED
          BY <2>1, <5>1
      <4>5. CASE RollbackWrite(w)
        BY <4>5, WriterMoves
      <4>6. QED
        BY <1>6, <2>4, <4>1, <4>2, <4>3, <4>4, <4>5
    <3>4. ASSUME NEW v \in Writers,
                 writer'[v].at \in {"flush", "refresh", "commit"}
          PROVE  Balance' + writer'[v].amt >= 0
      BY <2>1, <2>2, <3>2, <3>3, <3>4
    <3>5. QED
      BY <2>1, <3>2, <3>4
  <2>5. QED
    BY <2>3, <2>4
<1>7. QED
  BY <1>1, <1>2, <1>3, <1>4, <1>5, <1>6 DEF Next

\* While no commit has crossed a snapshot, no debit overdraws the account: not
\* when several sessions debit it at once, and not when the newest snapshot
\* was computed from older data than one before it.
THEOREM UncrossedNeverOverdrawn == Spec => []NoOverdraftUncrossed
<1>1. Init => FundsInv
  <2> SUFFICES ASSUME Init PROVE FundsInv
    OBVIOUS
  <2>1. Balance = 0
    BY SumOfNone DEF Init, Balance
  <2>2. \A w \in Writers : writer[w].at = "idle"
    BY DEF Init, IdleWriter
  <2>3. QED
    BY <2>1, <2>2 DEF FundsInv
<1>2. Spec => []FundsInv
  BY <1>1, FundsStep, BalanceInvHolds, PTL DEF Spec
<1>3. FundsInv => NoOverdraftUncrossed
  BY DEF FundsInv, NoOverdraftUncrossed
<1>4. QED
  BY <1>2, <1>3, PTL

-----------------------------------------------------------------------------
(* What the cache holds.                                                   *)

\* Undisturbed, the cache holds the balance, or what it will be after the
\* commit of the writer that has written it through; and a reader about to
\* fill it has read the balance.
Quiet == ~disturbed /\ crossed = {}

CacheExact ==
    /\ (\A w \in Writers : writer[w].at # "commit") =>
          cached \in {None, Balance}
    /\ \A w \in Writers : writer[w].at = "commit" =>
          cached \in {None, Sum(entries \cup Own(w))}

FillsExact ==
    \A r \in Readers : reader[r].at = "fill" => reader[r].val = Balance

CacheInv == Quiet => CacheExact /\ FillsExact

LEMMA CacheOfWriterStep ==
    ASSUME BalanceInv, CacheInv, Quiet', NEW w \in Writers,
           \/ \E m \in Moves : BeginWrite(w, m)
           \/ ReadSnapshot(w) \/ CheckFunds(w) \/ FlushEntry(w)
           \/ RefreshCache(w) \/ CommitWrite(w) \/ RollbackWrite(w)
    PROVE  CacheExact' /\ FillsExact'
<1>1. crossed' = crossed /\ reader' = reader
  BY DEF BeginWrite, ReadSnapshot, CheckFunds, FlushEntry, RefreshCache,
     CommitWrite, RollbackWrite, WriterOnly
<1>2. crossed = {} /\ CacheExact /\ FillsExact
  <2>1. \/ disturbed' = disturbed
        \/ disturbed' = (disturbed \/ \E r \in Readers : reader[r].at = "fill")
        \/ disturbed' = (disturbed \/ writer[w].at = "commit")
    BY Zenon DEF BeginWrite, ReadSnapshot, CheckFunds, FlushEntry,
       RefreshCache, CommitWrite, RollbackWrite, WriterOnly
  <2>2. ~disturbed
    BY <2>1, Zenon DEF Quiet
  <2>3. QED
    BY <1>1, <2>2 DEF Quiet, CacheInv
<1>3. \A v \in Writers \ {w} : writer'[v] = writer[v] /\ Own(v)' = Own(v)
  BY WriterMoves DEF Own
<1>4. writer[w].at # "idle" => \A v \in Writers \ {w} : writer[v].at = "idle"
  BY DEF BalanceInv, SnapshotInv, OneWriter
<1>5. CASE CommitWrite(w)
  <2>1. /\ writer[w].at = "commit" /\ entries' = entries \cup Own(w)
        /\ cached' = cached
        /\ \A r \in Readers : reader[r].at # "fill"
    BY <1>5 DEF CommitWrite, Quiet
  <2>2. cached' \in {None, Sum(entries')}
    BY <1>2, <2>1 DEF CacheExact
  <2>3. \A v \in Writers : writer'[v].at = "idle"
    <3>1. writer'[w].at = "idle"
      BY <1>5, WriterMoves
    <3>2. QED
      BY <1>3, <1>4, <2>1, <3>1
  <2>4. CacheExact'
    BY <2>2, <2>3 DEF CacheExact, Balance
  <2>5. FillsExact'
    BY <1>1, <2>1 DEF FillsExact
  <2>6. QED
    BY <2>4, <2>5
<1>6. CASE RefreshCache(w)
  <2>1. /\ writer[w].at = "refresh" /\ cached' = Refreshed(w)
        /\ entries' = entries
    BY <1>6 DEF RefreshCache
  <2>2. PICK s \in Known : s = LatestSnapshot
    BY LatestIsKnown DEF BalanceInv, TypeInv
  <2>3. cached' = Sum(entries \cup Own(w))
    BY <1>2, <2>1, <2>2, KnownExact DEF Refreshed
  <2>4. Own(w)' = Own(w) /\ writer'[w].at = "commit"
    BY <1>6, WriterMoves DEF Own
  <2>5. \A v \in Writers : writer'[v].at = "commit" => v = w
    BY <1>3, <1>4, <2>1
  <2>6. CacheExact'
    <3>1. \A v \in Writers : writer'[v].at = "commit" =>
             cached' = Sum(entries' \cup Own(v)')
      BY <2>1, <2>3, <2>4, <2>5
    <3>2. QED
      BY <2>4, <3>1 DEF CacheExact
  <2>7. FillsExact'
    BY <1>1, <1>2, <2>1 DEF FillsExact, Balance
  <2>8. QED
    BY <2>6, <2>7
<1>7. CASE ~CommitWrite(w) /\ ~RefreshCache(w)
  <2>1. entries' = entries /\ cached' = cached
    BY <1>7 DEF BeginWrite, ReadSnapshot, CheckFunds, FlushEntry,
       RollbackWrite, WriterOnly
  <2>2. writer[w].at # "commit" /\ writer'[w].at # "commit"
    <3>1. ASSUME NEW m \in Moves, BeginWrite(w, m)
          PROVE  writer[w].at = "idle" /\ writer'[w].at # "commit"
      <4>1. writer \in [Writers -> WriterRow]
        BY DEF BalanceInv, TypeInv, WritersTyped
      <4>2. QED
        BY <3>1, <4>1 DEF BeginWrite
    <3>2. CASE ReadSnapshot(w) \/ CheckFunds(w) \/ FlushEntry(w)
      <4>1. writer[w].at \in {"snapshot", "sum", "flush"}
        BY <3>2 DEF ReadSnapshot, CheckFunds, FlushEntry
      <4>2. writer'[w].at \in {"sum", "flush", "refresh"}
        BY <3>2, WriterMoves
      <4>3. QED
        BY <4>1, <4>2
    <3>3. CASE RollbackWrite(w)
      <4>1. writer[w].at # "commit"
        BY <3>3 DEF RollbackWrite, Quiet
      <4>2. writer'[w].at = "idle"
        BY <3>3, WriterMoves
      <4>3. QED
        BY <4>1, <4>2
    <3>4. QED
      BY <1>7, <3>1, <3>2, <3>3
  <2>3. CacheExact'
    BY <1>2, <1>3, <2>1, <2>2 DEF CacheExact, Balance
  <2>4. FillsExact'
    BY <1>1, <1>2, <2>1 DEF FillsExact, Balance
  <2>5. QED
    BY <2>3, <2>4
<1>8. QED
  BY <1>5, <1>6, <1>7

LEMMA CacheOfReaderStep ==
    ASSUME BalanceInv, CacheInv, Quiet', NEW r \in Readers,
           MissCache(r) \/ ReadSum(r) \/ FillCache(r) \/ ReaderFails(r)
    PROVE  CacheExact' /\ FillsExact'
<1>1. UNCHANGED <<entries, writer, crossed>>
  BY DEF MissCache, ReadSum, FillCache, ReaderFails, ReaderOnly
<1>2. crossed = {} /\ CacheExact /\ FillsExact
  <2>1. \/ disturbed' = disturbed
        \/ disturbed' =
             (disturbed \/ \E w \in Writers : writer[w].at = "commit")
    BY Zenon DEF MissCache, ReadSum, FillCache, ReaderFails
  <2>2. ~disturbed
    BY <2>1, Zenon DEF Quiet
  <2>3. QED
    BY <1>1, <2>2 DEF Quiet, CacheInv
<1>3. /\ reader \in [Readers -> ReaderRow] /\ reader[r] \in ReaderRow
      /\ LatestSnapshot \in SnapshotRow
      /\ reader[r].at = "sum" => reader[r].snap \in Known
      /\ Balance' = Balance /\ Balance \in Int
  BY <1>1, LatestIsKnown, SumOfEntries
     DEF BalanceInv, TypeInv, ReadersTyped, TablesTyped, Balance
<1>4. /\ \A q \in Readers \ {r} : reader'[q] = reader[q]
      /\ reader'[r].at = "fill" => reader'[r].val = Balance
  <2>1. CASE MissCache(r)
    <3>1. PICK row : row = Missed(reader[r], LatestSnapshot)
      OBVIOUS
    <3>2. reader' = [reader EXCEPT ![r] = row]
      BY <2>1, <3>1 DEF MissCache, Missed
    <3>3. row.at = "sum"
      BY <1>3, <3>1, ReaderRows
    <3>4. QED
      BY <1>3, <3>2, <3>3
  <2>2. CASE ReadSum(r)
    <3>1. PICK n : n = TotalFrom(reader[r].snap, entries)
      OBVIOUS
    <3>2. PICK row : row = Read(reader[r], n)
      OBVIOUS
    <3>3. /\ reader' = [reader EXCEPT ![r] = row] /\ reader[r].at = "sum"
      BY <2>2, <3>1, <3>2 DEF ReadSum, Read
    <3>4. PICK s \in Known : s = reader[r].snap
      BY <1>3, <3>3
    <3>5. n = Balance
      BY <1>2, <3>1, <3>4, KnownExact
    <3>6. row.at = "fill" /\ row.val = n
      BY <1>3, <3>2, <3>5, ReaderRows
    <3>7. QED
      BY <1>3, <3>3, <3>5, <3>6
  <2>3. CASE FillCache(r) \/ ReaderFails(r)
    BY <1>3, <2>3 DEF FillCache, ReaderFails, IdleReader
  <2>4. QED
    BY <2>1, <2>2, <2>3
<1>5. FillsExact'
  BY <1>2, <1>3, <1>4 DEF FillsExact
<1>6. \A w \in Writers : Own(w)' = Own(w)
  BY <1>1 DEF Own
<1>7. CacheExact'
  <2>1. CASE FillCache(r)
    <3>1. /\ cached' = Balance
          /\ \A w \in Writers : writer[w].at # "commit"
      BY <1>2, <2>1 DEF FillCache, FillsExact, Quiet
    <3>2. QED
      BY <1>1, <1>3, <3>1 DEF CacheExact
  <2>2. CASE ~FillCache(r)
    <3>1. cached' = cached
      BY <2>2 DEF MissCache, ReadSum, ReaderFails
    <3>2. QED
      BY <1>1, <1>2, <1>3, <1>6, <3>1 DEF CacheExact
  <2>3. QED
    BY <2>1, <2>2
<1>8. QED
  BY <1>5, <1>7

LEMMA CacheStep == BalanceInv /\ CacheInv /\ [Next]_vars => CacheInv'
<1> SUFFICES ASSUME BalanceInv, CacheInv, [Next]_vars, Quiet'
             PROVE  CacheExact' /\ FillsExact'
  BY DEF CacheInv
<1>1. ASSUME UNCHANGED <<entries, writer, reader>>, Quiet,
             cached' = cached \/ cached' = None
      PROVE  CacheExact' /\ FillsExact'
  <2>1. /\ Balance' = Balance /\ \A w \in Writers : Own(w)' = Own(w)
        /\ CacheExact /\ FillsExact
    BY <1>1 DEF Balance, Own, CacheInv
  <2>2. QED
    BY <1>1, <2>1 DEF CacheExact, FillsExact
<1>2. CASE UNCHANGED vars
  BY <1>1, <1>2 DEF vars, Quiet
<1>3. CASE ExpireCache
  BY <1>1, <1>3 DEF ExpireCache, ReaderOnly, Quiet
<1>4. ASSUME NEW j \in Snapshotters,
             \/ TakeJob(j) \/ ReadLatestEntry(j) \/ ReadTotal(j)
             \/ InsertSnapshot(j) \/ JobFails(j)
      PROVE  CacheExact' /\ FillsExact'
  <2>1. UNCHANGED <<entries, writer, reader, cached, disturbed>>
    BY <1>4 DEF TakeJob, ReadLatestEntry, ReadTotal, InsertSnapshot,
       JobFails, JobOnly
  <2>2. crossed \subseteq crossed'
    BY <1>4 DEF TakeJob, ReadLatestEntry, ReadTotal, InsertSnapshot, JobFails
  <2>3. QED
    BY <1>1, <2>1, <2>2 DEF Quiet
<1>5. QED
  BY <1>2, <1>3, <1>4, CacheOfWriterStep, CacheOfReaderStep DEF Next

\* With nobody posting and nobody reading, the cache holds the balance or
\* nothing, unless a reader's fill crossed a write, a write was rolled back
\* after its write-through, or a commit crossed a snapshot: there is no other
\* way to leave a wrong balance in the cache.
THEOREM QuietCacheIsExact == Spec => []QuietCacheExact
<1>1. Init => CacheInv
  <2> SUFFICES ASSUME Init PROVE CacheExact /\ FillsExact
    BY DEF CacheInv
  <2>1. /\ cached = None
        /\ \A w \in Writers : writer[w].at = "idle"
        /\ \A r \in Readers : reader[r].at = "idle"
    BY DEF Init, IdleWriter, IdleReader
  <2>2. QED
    BY <2>1 DEF CacheExact, FillsExact
<1>2. Spec => []CacheInv
  BY <1>1, CacheStep, BalanceInvHolds, PTL DEF Spec
<1>3. CacheInv => QuietCacheExact
  BY DEF CacheInv, CacheExact, Quiet, QuietCacheExact
<1>4. QED
  BY <1>2, <1>3, PTL
=============================================================================
