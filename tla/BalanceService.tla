--------------------------- MODULE BalanceService ---------------------------
(***************************************************************************)
(* How the balance of one user's account is computed, cached and           *)
(* summarised in snapshots while sessions post to it: get_balance with its *)
(* three ways of being called, the write-through of the cache before the   *)
(* commit, and the snapshot jobs of the RQ worker.                         *)
(*                                                                         *)
(* Each SELECT is a step of its own and sees what is committed when it     *)
(* runs (READ COMMITTED), besides the session's own entry.                 *)
(***************************************************************************)
EXTENDS Integers, FiniteSets, FiniteSetsExt

CONSTANTS
    Writers,        \* sessions that post to the account
    Readers,        \* sessions that serve GET /accounts/<id>/balance
    Snapshotters,   \* RQ workers on the balance queue
    None,
    Moves,          \* amounts posted, debits negative
    Threshold,      \* LEDGER_SNAPSHOT_THRESHOLD
    MaxEntries,     \* bound: entry ids handed out
    MaxJobs         \* bound: further snapshot jobs are not counted

ASSUME BalanceAssumption ==
    /\ None \notin Writers
    /\ Moves \subseteq Int
    /\ Threshold \in Nat \ {0}
    /\ MaxEntries \in Nat /\ MaxJobs \in Nat

VARIABLES
    entries,    \* committed SUCCESS entries of the account, [id, amt]
    nextEntry,  \* the id sequence of the ledger_entries table
    owner,      \* the writer holding the account's row lock
    writer,     \* where each writer is, what it posts and what it has read
    cached,     \* the balance in the cache, None if absent or expired
    reader,     \* where each reader is and what it has read
    snapshots,  \* committed BalanceSnapshot rows, [id, balance, last]
    jobs,       \* create_snapshot jobs in the queue
    job,        \* where each snapshot job is and what it has read
    crossed,    \* ids of the snapshots whose two SELECTs a commit separates
    disturbed   \* a write the cache cannot have followed, see below

vars == <<entries, nextEntry, owner, writer, cached, reader, snapshots, jobs,
          job, crossed, disturbed>>

Sum(S) == SumFunctionOnSet([e \in S |-> e.amt], S)
AfterInclusive(S, id) == {e \in S : e.id >= id}
After(S, id) == {e \in S : e.id > id}
UpTo(S, id) == {e \in S : e.id <= id}
Balance == Sum(entries)

NoSnapshot == [id |-> 0, balance |-> 0, last |-> 0]

\* ORDER BY id DESC LIMIT 1
LatestSnapshot ==
    IF snapshots = {} THEN NoSnapshot
    ELSE CHOOSE s \in snapshots : \A t \in snapshots : s.id >= t.id

NextEntryId == nextEntry
LatestEntryId == Max({e.id : e \in entries} \cup {0})

\* snapshot_balance + SUM(amount) WHERE id > last_entry_id
TotalFrom(snap, seen) == snap.balance + Sum(After(seen, snap.last))

IdleWriter == [at |-> "idle", amt |-> 0, snap |-> NoSnapshot, id |-> 0]
IdleReader == [at |-> "idle", snap |-> NoSnapshot, val |-> 0]
IdleJob == [at |-> "idle", last |-> 0, total |-> 0, crossed |-> FALSE]

Own(w) == IF writer[w].id = 0 THEN {}
          ELSE {[id |-> writer[w].id, amt |-> writer[w].amt]}

Init ==
    /\ entries = {}
    /\ nextEntry = 1
    /\ owner = None
    /\ writer = [w \in Writers |-> IdleWriter]
    /\ cached = None
    /\ reader = [r \in Readers |-> IdleReader]
    /\ snapshots = {}
    /\ jobs = 0
    /\ job = [j \in Snapshotters |-> IdleJob]
    /\ crossed = {}
    /\ disturbed = FALSE

-----------------------------------------------------------------------------
(* A posting: lock, funds check, entry, cache, snapshot job, commit.       *)

WriterOnly == <<cached, reader, snapshots, jobs, job, crossed, disturbed>>

LockableAlways == TRUE
Lockable == owner = None

BeginWrite(w, m) ==
    /\ writer[w].at = "idle"
    /\ nextEntry <= MaxEntries
    /\ Lockable
    /\ owner' = w
    /\ writer' = [writer EXCEPT ![w] =
         [at |-> IF m < 0 THEN "snapshot" ELSE "flush", amt |-> m,
          snap |-> NoSnapshot, id |-> 0]]
    /\ UNCHANGED <<entries, nextEntry, WriterOnly>>

\* get_balance(use_lock=True): the snapshot is one SELECT, the sum another.
ReadSnapshot(w) ==
    /\ writer[w].at = "snapshot"
    /\ writer' = [writer EXCEPT ![w].at = "sum", ![w].snap = LatestSnapshot]
    /\ UNCHANGED <<entries, nextEntry, owner, WriterOnly>>

\* The entries after the snapshot are locked and summed, and the balance
\* compared with the amount.
FundedBySnapshot(w) == writer[w].snap.balance >= -writer[w].amt
Funded(w) == TotalFrom(writer[w].snap, entries) >= -writer[w].amt

CheckFunds(w) ==
    /\ writer[w].at = "sum"
    /\ Funded(w)
    /\ writer' = [writer EXCEPT ![w].at = "flush"]
    /\ UNCHANGED <<entries, nextEntry, owner, WriterOnly>>

FlushEntry(w) ==
    /\ writer[w].at = "flush"
    /\ nextEntry' = nextEntry + 1
    /\ writer' = [writer EXCEPT ![w].at = "refresh", ![w].id = nextEntry]
    /\ UNCHANGED <<entries, owner, WriterOnly>>

\* refresh_balance_cache, then maybe_create_snapshot: both before the commit,
\* both counting the session's own entry.  Each makes two SELECTs, which see
\* the same: the session's lock on the account keeps entries and snapshots out.
\* An exception from the queue is logged and dropped.
RefreshedUnflushed(w) == TotalFrom(LatestSnapshot, entries)
Refreshed(w) == TotalFrom(LatestSnapshot, entries \cup Own(w))

RefreshCache(w) ==
    /\ writer[w].at = "refresh"
    /\ cached' = Refreshed(w)
    /\ \/ /\ Cardinality(After(entries \cup Own(w), LatestSnapshot.last))
               >= Threshold
          /\ jobs < MaxJobs
          /\ jobs' = jobs + 1
       \/ UNCHANGED jobs
    /\ writer' = [writer EXCEPT ![w].at = "commit"]
    /\ UNCHANGED <<entries, nextEntry, owner, reader, snapshots, job, crossed,
                   disturbed>>

ReleaseAll(w) ==
    /\ owner' = None
    /\ writer' = [writer EXCEPT ![w] = IdleWriter]

\* A reader that has read the balance already will put the old one into the
\* cache after this commit; a job that has chosen its last entry already
\* will sum this one too.
CommitWrite(w) ==
    /\ writer[w].at = "commit"
    /\ entries' = entries \cup Own(w)
    /\ disturbed' = (disturbed \/ \E r \in Readers : reader[r].at = "fill")
    /\ job' = [j \in Snapshotters |->
                 IF job[j].at = "total" THEN [job[j] EXCEPT !.crossed = TRUE]
                                        ELSE job[j]]
    /\ ReleaseAll(w)
    /\ UNCHANGED <<nextEntry, cached, reader, snapshots, jobs, crossed>>

\* Insufficient funds, any error, a crash.  The cache keeps what it was told.
RollbackWrite(w) ==
    /\ writer[w].at # "idle"
    /\ disturbed' = (disturbed \/ writer[w].at = "commit")
    /\ ReleaseAll(w)
    /\ UNCHANGED <<entries, nextEntry, cached, reader, snapshots, jobs, job,
                   crossed>>

-----------------------------------------------------------------------------
(* GET balance: a hit changes nothing; a miss reads and fills the cache.   *)

ReaderOnly == <<entries, nextEntry, owner, writer, snapshots, jobs, job,
                crossed>>

MissCache(r) ==
    /\ reader[r].at = "idle"
    /\ cached = None
    /\ reader' = [reader EXCEPT ![r].at = "sum", ![r].snap = LatestSnapshot]
    /\ UNCHANGED <<ReaderOnly, cached, disturbed>>

ReadSum(r) ==
    /\ reader[r].at = "sum"
    /\ reader' = [reader EXCEPT ![r].at = "fill",
                    ![r].val = TotalFrom(reader[r].snap, entries)]
    /\ UNCHANGED <<ReaderOnly, cached, disturbed>>

\* The reader may also come between a writer's write-through and its commit.
FillCache(r) ==
    /\ reader[r].at = "fill"
    /\ cached' = reader[r].val
    /\ reader' = [reader EXCEPT ![r] = IdleReader]
    /\ disturbed' = (disturbed \/ \E w \in Writers : writer[w].at = "commit")
    /\ UNCHANGED ReaderOnly

\* The request fails, or the cache does.
ReaderFails(r) ==
    /\ reader[r].at # "idle"
    /\ reader' = [reader EXCEPT ![r] = IdleReader]
    /\ UNCHANGED <<ReaderOnly, cached, disturbed>>

ExpireCache ==
    /\ cached # None
    /\ cached' = None
    /\ UNCHANGED <<ReaderOnly, reader, disturbed>>

-----------------------------------------------------------------------------
(* create_snapshot in an RQ worker.                                        *)

JobOnly == <<entries, nextEntry, owner, writer, cached, reader, disturbed>>

\* The job counts the entries after the latest snapshot: too few, it returns.
TakeJob(j) ==
    /\ job[j].at = "idle"
    /\ jobs > 0
    /\ jobs' = jobs - 1
    /\ job' = IF Cardinality(After(entries, LatestSnapshot.last)) >= Threshold
                THEN [job EXCEPT ![j].at = "entry"] ELSE job
    /\ UNCHANGED <<snapshots, crossed, JobOnly>>

ReadLatestEntry(j) ==
    /\ job[j].at = "entry"
    /\ job' = [job EXCEPT ![j].at = "total", ![j].last = LatestEntryId]
    /\ UNCHANGED <<snapshots, crossed, jobs, JobOnly>>

\* The sum over all entries, whatever last entry was found before.
SummedSinceSnapshot(j) == Sum(After(entries, LatestSnapshot.last))
Summed(j) == Balance

ReadTotal(j) ==
    /\ job[j].at = "total"
    /\ job' = [job EXCEPT ![j].at = "insert", ![j].total = Summed(j)]
    /\ UNCHANGED <<snapshots, crossed, jobs, JobOnly>>

\* The INSERT's foreign key waits for the row lock of the account.
InsertSnapshot(j) ==
    LET id == Cardinality(snapshots) + 1 IN
    /\ job[j].at = "insert"
    /\ owner = None
    /\ snapshots' = snapshots \cup
         {[id |-> id, balance |-> job[j].total, last |-> job[j].last]}
    /\ crossed' = IF job[j].crossed THEN crossed \cup {id} ELSE crossed
    /\ job' = [job EXCEPT ![j] = IdleJob]
    /\ UNCHANGED <<jobs, JobOnly>>

JobFails(j) ==
    /\ job[j].at # "idle"
    /\ job' = [job EXCEPT ![j] = IdleJob]
    /\ UNCHANGED <<snapshots, crossed, jobs, JobOnly>>

-----------------------------------------------------------------------------
Next ==
    \/ \E w \in Writers :
          \/ \E m \in Moves : BeginWrite(w, m)
          \/ ReadSnapshot(w) \/ CheckFunds(w) \/ FlushEntry(w)
          \/ RefreshCache(w) \/ CommitWrite(w) \/ RollbackWrite(w)
    \/ \E r \in Readers :
          MissCache(r) \/ ReadSum(r) \/ FillCache(r) \/ ReaderFails(r)
    \/ ExpireCache
    \/ \E j \in Snapshotters :
          \/ TakeJob(j) \/ ReadLatestEntry(j) \/ ReadTotal(j)
          \/ InsertSnapshot(j) \/ JobFails(j)

Spec == Init /\ [][Next]_vars

\* An entry that nobody sets again lives out its time, and a request that
\* reads the balance ends; nothing is asked of writers and jobs.
FairSpec ==
    /\ Spec
    /\ WF_vars(ExpireCache)
    /\ \A r \in Readers : WF_vars(ReadSum(r) \/ FillCache(r) \/ ReaderFails(r))

-----------------------------------------------------------------------------
(* Properties.                                                             *)

SnapshotRow == [id : Nat, balance : Int, last : 0..MaxEntries]

\* The values every variable may take.
TypeOK ==
    /\ entries \subseteq [id : 1..MaxEntries, amt : Moves]
    /\ nextEntry \in 1..MaxEntries + 1
    /\ owner \in Writers \cup {None}
    /\ writer \in [Writers ->
         [at : {"idle", "snapshot", "sum", "flush", "refresh", "commit"},
          amt : Moves \cup {0}, snap : SnapshotRow, id : 0..MaxEntries]]
    /\ cached \in Int \cup {None}
    /\ reader \in [Readers -> [at : {"idle", "sum", "fill"},
                               snap : SnapshotRow, val : Int]]
    /\ snapshots \subseteq SnapshotRow
    /\ jobs \in 0..MaxJobs
    /\ job \in [Snapshotters ->
         [at : {"idle", "entry", "total", "insert"}, last : 0..MaxEntries,
          total : Int, crossed : BOOLEAN]]
    /\ crossed \subseteq {s.id : s \in snapshots}
    /\ disturbed \in BOOLEAN

\* A snapshot with no commit between its two SELECTs is the sum of the
\* entries up to last_entry_id, and stays it: entries commit in the order of
\* their ids because the account lock is held from before the INSERT to the
\* commit, so none turns up later below the snapshot.
UncrossedSnapshotExact ==
    \A s \in snapshots :
        s.id \notin crossed => s.balance = Sum(UpTo(entries, s.last))

\* The funds check never lets a debit overdraw the account while no snapshot
\* is crossed, however old the data the newest snapshot was computed from.
NoOverdraftUncrossed == crossed = {} => Balance >= 0

\* At rest the cache holds the balance, unless a reader's fill crossed a
\* write, a write was rolled back after its write-through, or a snapshot is
\* crossed.
QuietCacheExact ==
    /\ \A w \in Writers : writer[w].at = "idle"
    /\ \A r \in Readers : reader[r].at = "idle"
    /\ ~disturbed /\ crossed = {}
    => cached \in {None, Balance}

\* Whatever rolled back writes and late fills have put into the cache: once no
\* one posts to the account, the cache comes to hold the balance or nothing,
\* and stays so, as no request can carry an old balance for ever.  A crossed
\* snapshot apart.
CacheHeals ==
    <>[](\A w \in Writers : writer[w].at = "idle")
        => <>[](crossed # {} \/ cached \in {None, Balance})

\* tests/test_transfers.py:174: concurrent transfers cannot overdraw an
\* account.
NoOverdraft == Balance >= 0
=============================================================================
