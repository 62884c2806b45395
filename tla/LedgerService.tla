---------------------------- MODULE LedgerService ---------------------------
(***************************************************************************)
(* The operations that post to the ledger, run by concurrent sessions      *)
(* (gunicorn workers) on PostgreSQL at READ COMMITTED: execute_transfer,   *)
(* execute_deposit and execute_fx_transfer, with the account row locks     *)
(* they take, the platform clearing accounts they may have to create, the  *)
(* unique idempotency key of the transaction row, the event they publish   *)
(* and the commit of the caller.                                           *)
(*                                                                         *)
(* A step of a session is what it does between two points where another    *)
(* session can make a difference: one SELECT, one INSERT, one row lock,    *)
(* the checks made under the locks, the publication, the commit.  Rows     *)
(* written by an open transaction are seen by its own session only.        *)
(***************************************************************************)
EXTENDS Integers, Functions

CONSTANTS
    Calls,          \* sessions; each runs one operation at a time
    NoCall,         \* no session
    UserAccounts,   \* ids of the users' accounts
    Currencies,
    SystemUser,     \* the row of the __system__ user
    CurrencyOf,     \* the currency each account is held in
    ClearingId,     \* the id of the clearing account of each currency
    Amounts,        \* amounts clients ask for, the refused ones included
    Quote,          \* Quote[<<s, t, m>>]: what m units of s may buy in t
    Keys, NoKey,    \* idempotency keys, and the request without one
    Requests,       \* the operations clients may ask for
    InitialBalance,
    InitialRows,    \* sets of system rows that may exist at the start
    MaxTxn          \* bound: no operation begins once this many ids are used

ClearingIds == {ClearingId[k] : k \in Currencies}
Accounts == UserAccounts \cup ClearingIds
Rows == Currencies \cup {SystemUser}
Absent == "absent"
Present == "present"
MaybeKey == Keys \cup {NoKey}

ASSUME CallsAssumption ==
    NoCall \notin Calls /\ Absent \notin Calls /\ Present \notin Calls

ASSUME AccountsAssumption ==
    /\ UserAccounts \subseteq Nat
    /\ ClearingId \in [Currencies -> Nat \ UserAccounts]
    /\ CurrencyOf \in [Accounts -> Currencies]
    /\ \A k \in Currencies : CurrencyOf[ClearingId[k]] = k
    /\ SystemUser \notin Currencies

ASSUME AmountsAssumption ==
    /\ Amounts \subseteq Int
    /\ Quote \in [Currencies \X Currencies \X Amounts -> SUBSET Nat]
    /\ NoKey \notin Keys
    /\ MaxTxn \in Nat

ASSUME RequestsAssumption ==
    Requests \subseteq
      [kind : {"transfer", "deposit", "fx"}, src : UserAccounts,
       dst : Accounts, amt : Amounts, cur : Currencies, tcur : Currencies,
       key : MaybeKey]

ASSUME InitialAssumption ==
    /\ InitialBalance \in [Accounts -> Int]
    /\ \A a \in UserAccounts : InitialBalance[a] >= 0
    /\ InitialRows \subseteq SUBSET Rows

VARIABLES
    pc,         \* where each session is in its operation
    call,       \* the arguments of the operation it runs
    seek,       \* the system row get_or_create looks for
    toLock,     \* the accounts lock_accounts has still to lock
    owner,      \* the session holding the row lock of each account
    row,        \* each system row: absent, present, or inserted by a session
    txn,        \* id of the transaction row the session inserted, 0 if none
    nextTxn,    \* the id sequence of the transactions table
    balance,    \* sum of the committed SUCCESS entries of each account
    posted,     \* the committed transactions
    notified,   \* the transactions whose completion event was handled
    answers     \* <<key, transaction id>> returned to clients

vars == <<pc, call, seek, toLock, owner, row, txn, nextTxn,
          balance, posted, notified, answers>>

NoArgs == [kind |-> "none", src |-> 0, dst |-> 0, amt |-> 0, got |-> 0,
           cur |-> SystemUser, tcur |-> SystemUser, key |-> NoKey]

Args == {NoArgs} \cup
        [kind : {"transfer", "deposit", "fx"}, src : Accounts, dst : Accounts,
         amt : Amounts, got : Int, cur : Currencies, tcur : Currencies,
         key : MaybeKey]

-----------------------------------------------------------------------------
(* What a session sees.                                                    *)
(* Here and below, a definition placed directly before another one of the  *)
(* same parameters is a faulty variant of it: no action uses it, and the   *)
(* property it breaks is named in PROJECT.json.                            *)

RowSeenDirty(c, x) == row[x] # Absent
RowSeen(c, x) == row[x] \in {Present, c}

AccountSeen(c, a) ==
    \/ a \in UserAccounts
    \/ \E k \in Currencies : a = ClearingId[k] /\ RowSeen(c, k)

\* Transaction.query.filter_by(idempotency_key=...).first()
Recorded(k) == k # NoKey /\ \E t \in posted : t.key = k

\* The accounts passed to lock_accounts.
InvolvedSource(r) == {r.src}
Involved(r) ==
    CASE r.kind = "transfer" -> {r.src, r.dst}
      [] r.kind = "deposit"  -> {r.dst, ClearingId[r.cur]}
      [] r.kind = "fx" -> {r.src, r.dst, ClearingId[r.cur], ClearingId[r.tcur]}
      [] OTHER -> {}

(* The entries an operation adds to account a, summed.                     *)
Entry(a, account, amount) == IF a = account THEN amount ELSE 0

TransferEntriesDoubled(r, a) ==
    Entry(a, r.src, -r.amt) + Entry(a, r.dst, 2 * r.amt)
TransferEntries(r, a) == Entry(a, r.src, -r.amt) + Entry(a, r.dst, r.amt)

DepositEntries(r, a) ==
    Entry(a, ClearingId[r.cur], -r.amt) + Entry(a, r.dst, r.amt)

FxEntriesNoPoolDebit(r, a) ==
    Entry(a, r.src, -r.amt) + Entry(a, ClearingId[r.cur], r.amt)
      + Entry(a, r.dst, r.got)
FxEntries(r, a) ==
    Entry(a, r.src, -r.amt) + Entry(a, ClearingId[r.cur], r.amt)
      + Entry(a, ClearingId[r.tcur], -r.got) + Entry(a, r.dst, r.got)

Entries(r, a) ==
    CASE r.kind = "transfer" -> TransferEntries(r, a)
      [] r.kind = "deposit"  -> DepositEntries(r, a)
      [] r.kind = "fx"       -> FxEntries(r, a)
      [] OTHER -> 0

-----------------------------------------------------------------------------
Init ==
    /\ pc = [c \in Calls |-> "idle"]
    /\ call = [c \in Calls |-> NoArgs]
    /\ seek = [c \in Calls |-> SystemUser]
    /\ toLock = [c \in Calls |-> {}]
    /\ owner = [a \in Accounts |-> NoCall]
    /\ \E found \in InitialRows :
         row = [x \in Rows |-> IF x \in found THEN Present ELSE Absent]
    /\ txn = [c \in Calls |-> 0]
    /\ nextTxn = 1
    /\ balance = InitialBalance
    /\ posted = {}
    /\ notified = {}
    /\ answers = {}

Database == <<owner, row, txn, nextTxn, balance, posted, notified, answers>>

\* The checks before the operation touches a row: the sign of the amount, and
\* no committed transaction with the key.
Accepted(c, r) ==
    /\ pc[c] = "idle"
    /\ nextTxn <= MaxTxn
    /\ r.amt > 0
    /\ ~Recorded(r.key)

Start(c, r, got) ==
    call' = [call EXCEPT ![c] =
      [kind |-> r.kind, src |-> IF r.kind = "deposit" THEN ClearingId[r.cur]
                                                      ELSE r.src,
       dst |-> r.dst, amt |-> r.amt, got |-> got, cur |-> r.cur,
       tcur |-> IF r.kind = "fx" THEN r.tcur ELSE r.cur, key |-> r.key]]

\* The source is one of the caller's own accounts (the route checks it).
BeginTransfer(c, r) ==
    /\ r.kind = "transfer" /\ Accepted(c, r)
    /\ r.src # r.dst
    /\ Start(c, r, r.amt)
    /\ pc' = [pc EXCEPT ![c] = "lock"]
    /\ toLock' = [toLock EXCEPT ![c] = Involved(r)]
    /\ UNCHANGED <<seek, Database>>

BeginDeposit(c, r) ==
    /\ r.kind = "deposit" /\ Accepted(c, r)
    /\ AccountSeen(c, r.dst)
    /\ CurrencyOf[r.dst] = r.cur
    /\ Start(c, r, r.amt)
    /\ pc' = [pc EXCEPT ![c] = "find"]
    /\ seek' = [seek EXCEPT ![c] = SystemUser]
    /\ UNCHANGED <<toLock, Database>>

\* No rate from the provider: Quote is empty and the request is refused.
BeginFx(c, r) ==
    /\ r.kind = "fx" /\ Accepted(c, r)
    /\ r.cur # r.tcur
    /\ \E q \in Quote[<<r.cur, r.tcur, r.amt>>] : Start(c, r, q)
    /\ AccountSeen(c, r.dst)
    /\ pc' = [pc EXCEPT ![c] = "find"]
    /\ seek' = [seek EXCEPT ![c] = SystemUser]
    /\ UNCHANGED <<toLock, Database>>

\* What the services raise an error for before they touch the database.
TransferRefused(r) == r.kind = "transfer" /\ (r.src = r.dst \/ r.amt <= 0)

DepositRefused(c, r) ==
    /\ r.kind = "deposit"
    /\ \/ r.amt <= 0
       \/ ~AccountSeen(c, r.dst) \/ CurrencyOf[r.dst] # r.cur

FxRefused(c, r) ==
    /\ r.kind = "fx"
    /\ \/ r.cur = r.tcur \/ r.amt <= 0
       \/ Quote[<<r.cur, r.tcur, r.amt>>] = {}
       \/ ~AccountSeen(c, r.dst)

\* The error is the answer; nothing changes.
Refuse(c, r) ==
    /\ pc[c] = "idle"
    /\ TransferRefused(r) \/ DepositRefused(c, r) \/ FxRefused(c, r)
    /\ UNCHANGED vars

\* A retry whose key is recorded is answered with the recorded transaction.
ReplyRecorded(k) ==
    /\ \E t \in posted : t.key = k /\ answers' = answers \cup {<<k, t.id>>}
    /\ UNCHANGED <<pc, call, seek, toLock, owner, row, txn, nextTxn, balance,
                   posted, notified>>

-----------------------------------------------------------------------------
(* get_or_create_platform_clearing_account: the system user, then the      *)
(* clearing account of the currency, then that of the target currency.     *)

FoundRow(c) ==
    LET r == call[c] IN
    \/ /\ seek[c] = SystemUser
       /\ pc' = [pc EXCEPT ![c] = "find"]
       /\ seek' = [seek EXCEPT ![c] = r.cur]
       /\ UNCHANGED toLock
    \/ /\ seek[c] = r.cur /\ r.tcur # r.cur
       /\ pc' = [pc EXCEPT ![c] = "find"]
       /\ seek' = [seek EXCEPT ![c] = r.tcur]
       /\ UNCHANGED toLock
    \/ /\ seek[c] = r.tcur
       /\ pc' = [pc EXCEPT ![c] = "lock"]
       /\ toLock' = [toLock EXCEPT ![c] = Involved(r)]
       /\ UNCHANGED seek

FindRow(c) ==
    /\ pc[c] = "find"
    /\ IF RowSeen(c, seek[c])
         THEN FoundRow(c)
         ELSE pc' = [pc EXCEPT ![c] = "create"] /\ UNCHANGED <<seek, toLock>>
    /\ UNCHANGED <<call, Database>>

\* The INSERT waits while another open transaction holds the same unique
\* value, and fails once that transaction has committed it.
CreateRow(c) ==
    /\ pc[c] = "create"
    /\ \/ /\ row[seek[c]] = Absent
          /\ row' = [row EXCEPT ![seek[c]] = c]
          /\ FoundRow(c)
       \/ /\ row[seek[c]] = Present
          /\ pc' = [pc EXCEPT ![c] = "failed"]
          /\ UNCHANGED <<row, seek, toLock>>
    /\ UNCHANGED <<call, owner, txn, nextTxn, balance, posted, notified,
                   answers>>

-----------------------------------------------------------------------------
(* lock_accounts: the ids in increasing order; a row the session does not  *)
(* see is not locked, and a row it holds already is held.                  *)

NextToLockAny(c, a) == a \in toLock[c]
NextToLock(c, a) == a \in toLock[c] /\ \A b \in toLock[c] : a <= b

LockFreeAlways(c, a) == TRUE
LockFree(c, a) == owner[a] \in {NoCall, c}

Acquire(c) ==
    /\ pc[c] = "lock"
    /\ \E a \in Accounts :
         /\ NextToLock(c, a)
         /\ AccountSeen(c, a) => LockFree(c, a)
         /\ owner' = IF AccountSeen(c, a) THEN [owner EXCEPT ![a] = c]
                                          ELSE owner
         /\ toLock' = [toLock EXCEPT ![c] = @ \ {a}]
         /\ pc' = IF toLock[c] = {a} THEN [pc EXCEPT ![c] = "check"] ELSE pc
    /\ UNCHANGED <<call, seek, row, txn, nextTxn, balance, posted, notified,
                   answers>>

-----------------------------------------------------------------------------
(* Under the locks.                                                        *)

TransferAllowedUnfunded(c) ==
    LET r == call[c] IN
    /\ AccountSeen(c, r.src) /\ AccountSeen(c, r.dst)
    /\ CurrencyOf[r.src] = r.cur /\ CurrencyOf[r.dst] = r.cur
TransferAllowed(c) ==
    LET r == call[c] IN
    /\ AccountSeen(c, r.src) /\ AccountSeen(c, r.dst)
    /\ CurrencyOf[r.src] = r.cur /\ CurrencyOf[r.dst] = r.cur
    /\ balance[r.src] >= r.amt

FxAllowedTarget(c) ==
    LET r == call[c] IN
    /\ CurrencyOf[r.src] = r.cur /\ CurrencyOf[r.dst] = r.tcur
    /\ balance[r.src] >= r.got
FxAllowed(c) ==
    LET r == call[c] IN
    /\ CurrencyOf[r.src] = r.cur /\ CurrencyOf[r.dst] = r.tcur
    /\ balance[r.src] >= r.amt

Allowed(c) ==
    CASE call[c].kind = "transfer" -> TransferAllowed(c)
      [] call[c].kind = "fx"       -> FxAllowed(c)
      [] OTHER                     -> TRUE

Check(c) ==
    /\ pc[c] = "check"
    /\ pc' = [pc EXCEPT ![c] = IF Allowed(c) THEN "insert" ELSE "failed"]
    /\ UNCHANGED <<call, seek, toLock, Database>>

\* Sessions that have inserted a transaction row and not committed it.
KeyHeldNever(d, k) == FALSE
KeyHeld(d, k) == k # NoKey /\ txn[d] # 0 /\ call[d].key = k

\* The INSERT of the transaction row takes an id and the unique key.  While
\* another session holds the key it waits; once the key is committed it is
\* rolled back, and so is the whole operation: add() left the row pending, so
\* begin_nested flushes it before it opens the savepoint.
InsertTxn(c) ==
    /\ pc[c] = "insert"
    /\ ~\E d \in Calls : KeyHeld(d, call[c].key)
    /\ nextTxn' = nextTxn + 1
    /\ IF Recorded(call[c].key)
         THEN /\ pc' = [pc EXCEPT ![c] = "failed"]
              /\ UNCHANGED txn
         ELSE /\ pc' = [pc EXCEPT ![c] = "publish"]
              /\ txn' = [txn EXCEPT ![c] = nextTxn]
    /\ UNCHANGED <<call, seek, toLock, owner, row, balance, posted, notified,
                   answers>>

\* TransferCompleted and DepositCompleted; an exchange has no event.
EventsTransferOnly(c) == IF call[c].kind = "transfer" THEN {txn[c]} ELSE {}
EventsOfAll(c) == {txn[c]}
Events(c) == IF call[c].kind \in {"transfer", "deposit"} THEN {txn[c]} ELSE {}

\* The entries are flushed and the event handled.
Publish(c) ==
    /\ pc[c] = "publish"
    /\ pc' = [pc EXCEPT ![c] = "commit"]
    /\ notified' = notified \cup Events(c)
    /\ UNCHANGED <<call, seek, toLock, owner, row, txn, nextTxn, balance,
                   posted, answers>>

\* The session ends its transaction and is free for another operation.
End(c) ==
    /\ pc' = [pc EXCEPT ![c] = "idle"]
    /\ call' = [call EXCEPT ![c] = NoArgs]
    /\ seek' = [seek EXCEPT ![c] = SystemUser]
    /\ toLock' = [toLock EXCEPT ![c] = {}]
    /\ owner' = [a \in Accounts |-> IF owner[a] = c THEN NoCall ELSE owner[a]]
    /\ txn' = [txn EXCEPT ![c] = 0]
    /\ UNCHANGED <<nextTxn, notified>>

AnswerAlways(r, id) == {<<r.key, id>>}
Answer(r, id) == IF r.key = NoKey THEN {} ELSE {<<r.key, id>>}

Commit(c) ==
    /\ pc[c] = "commit"
    /\ LET r == call[c] IN
         /\ balance' = [a \in Accounts |-> balance[a] + Entries(r, a)]
         /\ posted' = posted \cup
                        {[id |-> txn[c], key |-> r.key, kind |-> r.kind]}
         /\ answers' = answers \cup Answer(r, txn[c])
    /\ row' = [x \in Rows |-> IF row[x] = c THEN Present ELSE row[x]]
    /\ End(c)

Undo(c) ==
    /\ row' = [x \in Rows |-> IF row[x] = c THEN Absent ELSE row[x]]
    /\ End(c)
    /\ UNCHANGED <<balance, posted, answers>>

\* The exception leaves the handler and the session is rolled back.
Rollback(c) == pc[c] = "failed" /\ Undo(c)

\* The worker dies, or any statement fails, between two steps.
Crash(c) == pc[c] \notin {"idle", "failed"} /\ Undo(c)

-----------------------------------------------------------------------------
WaitsFor(c, d) ==
    /\ c # d
    /\ \/ pc[c] = "create" /\ row[seek[c]] = d
       \/ /\ pc[c] = "lock"
          /\ \E a \in Accounts :
               NextToLock(c, a) /\ AccountSeen(c, a) /\ owner[a] = d
       \/ pc[c] = "insert" /\ KeyHeld(d, call[c].key)

\* statement_timeout, or the server's deadlock detector.  lock_accounts
\* swallows the error of a row lock, but the aborted transaction refuses the
\* next statement: both ways the operation fails.
Timeout(c) ==
    /\ \E d \in Calls : WaitsFor(c, d)
    /\ pc' = [pc EXCEPT ![c] = "failed"]
    /\ UNCHANGED <<call, seek, toLock, Database>>

Progress(c) ==
    \/ FindRow(c) \/ CreateRow(c) \/ Acquire(c) \/ Check(c) \/ InsertTxn(c)
    \/ Publish(c) \/ Commit(c) \/ Rollback(c)

Next ==
    \/ \E c \in Calls, r \in Requests :
          \/ BeginTransfer(c, r) \/ BeginDeposit(c, r) \/ BeginFx(c, r)
          \/ Refuse(c, r)
    \/ \E k \in Keys : ReplyRecorded(k)
    \/ \E c \in Calls : Progress(c) \/ Crash(c) \/ Timeout(c)

Spec == Init /\ [][Next]_vars

\* PostgreSQL grants a lock in the order it was asked for, and a session that
\* is not waiting runs on: no step of an operation is passed over for ever.
FairSpec == Spec /\ \A c \in Calls : SF_vars(Progress(c))

-----------------------------------------------------------------------------
(* Properties.                                                             *)

Underway(c) == pc[c] \in {"insert", "publish", "commit"}

\* Debits are taken from a user's account; a deposit debits the clearing
\* account, which is let go below zero.
Debits(c) == call[c].kind \in {"transfer", "fx"}

\* The values every variable may take.
TypeOK ==
    /\ pc \in [Calls -> {"idle", "find", "create", "lock", "check", "insert",
                         "publish", "commit", "failed"}]
    /\ call \in [Calls -> Args]
    /\ seek \in [Calls -> Rows]
    /\ toLock \in [Calls -> SUBSET Accounts]
    /\ owner \in [Accounts -> Calls \cup {NoCall}]
    /\ row \in [Rows -> Calls \cup {Absent, Present}]
    /\ txn \in [Calls -> Nat]
    /\ nextTxn \in Nat
    /\ balance \in [Accounts -> Int]
    /\ posted \subseteq [id : Nat, key : MaybeKey,
                         kind : {"transfer", "deposit", "fx"}]
    /\ notified \subseteq Nat
    /\ answers \subseteq Keys \X Nat

\* However the sessions interleave, no user's account goes below zero: the
\* balance execute_transfer and execute_fx_transfer compare the amount with
\* is not spent a second time before they commit.
NoOverdraft == \A a \in UserAccounts : balance[a] >= 0

\* The funds found by the check are there until the commit, whatever other
\* sessions commit in between.
FundsStayAvailable ==
    \A c \in Calls :
        Underway(c) /\ Debits(c) => balance[call[c].src] >= call[c].amt

Total(bal, k) == SumFunctionOnSet(bal, {a \in Accounts : CurrencyOf[a] = k})

\* Double entry: no operation creates or destroys money, in any currency,
\* whether it posts two entries or four, and whoever its accounts are.
MoneyConserved ==
    \A k \in Currencies : Total(balance, k) = Total(InitialBalance, k)

\* A commit changes a user's balance only while it holds the row lock of
\* that account: no posting slips past lock_accounts.
PostedUnderLock ==
    [][\A a \in UserAccounts :
         balance'[a] # balance[a] =>
           \E c \in Calls : owner[a] = c /\ pc[c] = "commit"]_vars

\* Each idempotency key names one committed transaction for ever: whatever
\* retries and concurrent requests with the key are told, it is the id of
\* the only transaction recorded under it.
OneTransactionPerKey ==
    /\ \A p \in answers : \E t \in posted : <<t.key, t.id>> = p
    /\ \A t, u \in posted : t.key = u.key /\ t.key # NoKey => t.id = u.id

\* No set of sessions waits in a circle.  lock_accounts sorts the ids for
\* this purpose; the key of the transaction row is waited for under the
\* account locks, and its holder must never wait in turn.
NoWaitCycle ==
    \A S \in (SUBSET Calls) \ {{}} :
        \E c \in S : \A d \in S : ~WaitsFor(c, d)

\* On any database, a circle of waiting sessions has one that is creating a
\* system row: execute_fx_transfer may insert the clearing accounts of two
\* currencies in either order, and nothing else of the services deadlocks.
DeadlockOnlyOnCreation ==
    \A S \in (SUBSET Calls) \ {{}} :
        (\A c \in S : \E d \in S : WaitsFor(c, d))
          => \E c \in S : pc[c] = "create"

\* From the first lock to the commit the system rows an operation posts to
\* are committed or its own: no other session's rollback takes them away
\* from under its entries.
ClearingRowsStay ==
    \A c \in Calls :
        /\ pc[c] \in {"lock", "check", "insert", "publish", "commit"}
        /\ call[c].kind \in {"deposit", "fx"}
        => /\ RowSeen(c, SystemUser)
           /\ RowSeen(c, call[c].cur) /\ RowSeen(c, call[c].tcur)

\* Every committed transfer and deposit has had its completion event
\* handled, and an exchange none (fx_service publishes nothing).  The converse
\* does not hold: an operation may be rolled back after its event.
CommittedAnnounced ==
    \A t \in posted : t.id \in notified <=> t.kind # "fx"

\* Every operation comes to an end without the help of a timeout, in a
\* database whose system rows exist.
EveryCallEnds == \A c \in Calls : pc[c] # "idle" ~> pc[c] = "idle"

Atomic == INSTANCE AtomicLedger
            WITH spent <- {t.key : t \in posted} \ {NoKey}

\* The concurrent services implement the atomic ledger: a commit is one
\* atomic operation whose checks hold at that very moment, and every other
\* step changes nothing a client can see in the ledger.
ImplementsAtomicLedger == Atomic!ASpec
=============================================================================
