------------------------- MODULE LedgerServiceProofs ------------------------
(***************************************************************************)
(* Proofs about LedgerService, for any number of sessions, accounts,       *)
(* currencies, amounts and keys: its types, the funds found by the checks, *)
(* the locks, the keys, the refinement of AtomicLedger, and conservation.  *)
(***************************************************************************)
EXTENDS LedgerService, SumTheorems
\* A session that is not idle runs an operation of one of the three kinds.
Busy == \A c \in Calls : pc[c] # "idle" => call[c].kind # "none"

TypeInv == TypeOK /\ Busy

USE DEF Absent, Present

-----------------------------------------------------------------------------
(* The sums of entries are integers.                                       *)

LEMMA EntriesInt ==
    ASSUME NEW r \in Args, NEW a \in Accounts
    PROVE  Entries(r, a) \in Int
<1>1. CASE r.kind = "none"
  BY <1>1 DEF Entries
<1>2. CASE r.kind # "none"
  <2>1. r \in [kind : {"transfer", "deposit", "fx"}, src : Accounts,
               dst : Accounts, amt : Amounts, got : Int, cur : Currencies,
               tcur : Currencies, key : MaybeKey]
    BY <1>2 DEF Args, NoArgs
  <2>2. r.amt \in Int /\ r.got \in Int
    BY <2>1, AmountsAssumption
  <2>3. /\ TransferEntries(r, a) \in Int
        /\ DepositEntries(r, a) \in Int
        /\ FxEntries(r, a) \in Int
    BY <2>2 DEF TransferEntries, DepositEntries, FxEntries, Entry
  <2>4. QED
    BY <2>3 DEF Entries
<1>3. QED
  BY <1>1, <1>2

\* The accounts an operation locks are accounts.
LEMMA InvolvedAccounts ==
    ASSUME NEW r \in Args
    PROVE  Involved(r) \subseteq Accounts
<1>1. CASE r.kind = "none"
  BY <1>1 DEF Involved
<1>2. CASE r.kind # "none"
  <2>1. r.src \in Accounts /\ r.dst \in Accounts
        /\ r.cur \in Currencies /\ r.tcur \in Currencies
    BY <1>2 DEF Args, NoArgs
  <2>2. ClearingId[r.cur] \in Accounts /\ ClearingId[r.tcur] \in Accounts
    BY <2>1 DEF Accounts, ClearingIds
  <2>3. QED
    BY <2>1, <2>2 DEF Involved
<1>3. QED
  BY <1>1, <1>2

-----------------------------------------------------------------------------
(* Type correctness.                                                       *)

LEMMA TypeInit == Init => TypeInv
<1> SUFFICES ASSUME Init PROVE TypeInv
  OBVIOUS
<1>1. call \in [Calls -> Args] /\ seek \in [Calls -> Rows]
  BY DEF Init, Args, Rows
<1>2. row \in [Rows -> Calls \cup {Absent, Present}]
  BY DEF Init
<1>3. TypeOK
  BY <1>1, <1>2, InitialAssumption DEF Init, TypeOK
<1>4. Busy
  BY DEF Init, Busy
<1>5. QED
  BY <1>3, <1>4 DEF TypeInv

LEMMA TypeStart ==
    ASSUME TypeInv, NEW c \in Calls, NEW r \in Requests, NEW q \in Int,
           Start(c, r, q)
    PROVE  /\ call' \in [Calls -> Args]
           /\ call'[c].kind # "none"
           /\ \A d \in Calls \ {c} : call'[d] = call[d]
<1>1. r \in [kind : {"transfer", "deposit", "fx"}, src : UserAccounts,
             dst : Accounts, amt : Amounts, cur : Currencies,
             tcur : Currencies, key : MaybeKey]
  BY RequestsAssumption
<1>2. ClearingId[r.cur] \in Accounts /\ r.src \in Accounts
  BY <1>1 DEF Accounts, ClearingIds
<1> DEFINE new == [kind |-> r.kind,
                   src |-> IF r.kind = "deposit" THEN ClearingId[r.cur]
                                                 ELSE r.src,
                   dst |-> r.dst, amt |-> r.amt, got |-> q, cur |-> r.cur,
                   tcur |-> IF r.kind = "fx" THEN r.tcur ELSE r.cur,
                   key |-> r.key]
<1>3. new \in Args /\ new.kind # "none"
  BY <1>1, <1>2 DEF Args
<1>4. call' = [call EXCEPT ![c] = new]
  BY DEF Start
<1> HIDE DEF new
<1>5. QED
  BY <1>3, <1>4 DEF TypeInv, TypeOK

LEMMA TypeFound ==
    ASSUME TypeInv, NEW c \in Calls, pc[c] # "idle", FoundRow(c)
    PROVE  /\ pc' \in [Calls -> {"idle", "find", "create", "lock", "check",
                          "insert", "publish", "commit", "failed"}]
           /\ seek' \in [Calls -> Rows]
           /\ toLock' \in [Calls -> SUBSET Accounts]
           /\ \A d \in Calls : pc'[d] # "idle" => pc[d] # "idle"
<1>1. call[c] \in Args
  BY DEF TypeInv, TypeOK
<1>2. call[c].cur \in Rows /\ call[c].tcur \in Rows
  BY <1>1 DEF Args, NoArgs, Rows
<1>3. Involved(call[c]) \subseteq Accounts
  BY <1>1, InvolvedAccounts
<1>4. QED
  BY <1>2, <1>3 DEF FoundRow, TypeInv, TypeOK

LEMMA TypeEnd ==
    ASSUME TypeInv, NEW c \in Calls, End(c)
    PROVE  /\ pc' \in [Calls -> {"idle", "find", "create", "lock", "check",
                          "insert", "publish", "commit", "failed"}]
           /\ call' \in [Calls -> Args]
           /\ seek' \in [Calls -> Rows]
           /\ toLock' \in [Calls -> SUBSET Accounts]
           /\ owner' \in [Accounts -> Calls \cup {NoCall}]
           /\ txn' \in [Calls -> Nat]
           /\ nextTxn' \in Nat
           /\ notified' \subseteq Nat
           /\ Busy'
<1>1. NoArgs \in Args /\ SystemUser \in Rows
  BY DEF Args, Rows
<1>2. call' \in [Calls -> Args]
  BY <1>1 DEF End, TypeInv, TypeOK
<1>3. Busy'
  BY DEF End, Busy, TypeInv, TypeOK
<1>4. QED
  BY <1>1, <1>2, <1>3 DEF End, TypeInv, TypeOK

LEMMA TypeStep == TypeInv /\ [Next]_vars => TypeInv'
<1> SUFFICES ASSUME TypeInv, [Next]_vars PROVE TypeInv'
  OBVIOUS
<1> USE DEF TypeInv
<1>1. ASSUME NEW c \in Calls, NEW r \in Requests, BeginTransfer(c, r)
      PROVE  TypeInv'
  <2>1. r.amt \in Int /\ Start(c, r, r.amt)
    BY <1>1, RequestsAssumption, AmountsAssumption DEF BeginTransfer
  <2>2. /\ call' \in [Calls -> Args] /\ call'[c].kind # "none"
        /\ \A d \in Calls \ {c} : call'[d] = call[d]
    BY <2>1, TypeStart
  <2>3. Involved(r) \subseteq Accounts
    BY <1>1, RequestsAssumption DEF Involved, BeginTransfer, Accounts
  <2>4. QED
    BY <1>1, <2>2, <2>3 DEF BeginTransfer, Database, TypeOK, Busy
<1>2. ASSUME NEW c \in Calls, NEW r \in Requests, BeginDeposit(c, r)
      PROVE  TypeInv'
  <2>1. r.amt \in Int /\ Start(c, r, r.amt)
    BY <1>2, RequestsAssumption, AmountsAssumption DEF BeginDeposit
  <2>2. /\ call' \in [Calls -> Args] /\ call'[c].kind # "none"
        /\ \A d \in Calls \ {c} : call'[d] = call[d]
    BY <2>1, TypeStart
  <2>3. QED
    BY <1>2, <2>2 DEF BeginDeposit, Database, TypeOK, Busy, Rows
<1>3. ASSUME NEW c \in Calls, NEW r \in Requests, BeginFx(c, r)
      PROVE  TypeInv'
  <2>1. PICK q \in Quote[<<r.cur, r.tcur, r.amt>>] : Start(c, r, q)
    BY <1>3 DEF BeginFx
  <2>2. q \in Int
    <3>1. <<r.cur, r.tcur, r.amt>> \in Currencies \X Currencies \X Amounts
      BY RequestsAssumption
    <3>2. Quote[<<r.cur, r.tcur, r.amt>>] \in SUBSET Nat
      BY <3>1, AmountsAssumption, Zenon
    <3>3. QED
      BY <2>1, <3>2
  <2>3. /\ call' \in [Calls -> Args] /\ call'[c].kind # "none"
        /\ \A d \in Calls \ {c} : call'[d] = call[d]
    BY <2>1, <2>2, TypeStart
  <2>4. QED
    BY <1>3, <2>3 DEF BeginFx, Database, TypeOK, Busy, Rows
<1>4. ASSUME NEW c \in Calls, NEW r \in Requests, Refuse(c, r)
      PROVE  TypeInv'
  BY <1>4 DEF Refuse, vars, TypeOK, Busy
<1>5. ASSUME NEW k \in Keys, ReplyRecorded(k)
      PROVE  TypeInv'
  BY <1>5 DEF ReplyRecorded, TypeOK, Busy
<1>6. ASSUME NEW c \in Calls, FindRow(c)
      PROVE  TypeInv'
  <2>1. CASE FoundRow(c)
    BY <1>6, <2>1, TypeFound DEF FindRow, Database, TypeOK, Busy
  <2>2. CASE pc' = [pc EXCEPT ![c] = "create"] /\ UNCHANGED <<seek, toLock>>
    BY <1>6, <2>2 DEF FindRow, Database, TypeOK, Busy
  <2>3. QED
    BY <1>6, <2>1, <2>2 DEF FindRow
<1>7. ASSUME NEW c \in Calls, CreateRow(c)
      PROVE  TypeInv'
  <2>1. CASE row' = [row EXCEPT ![seek[c]] = c] /\ FoundRow(c)
    BY <1>7, <2>1, TypeFound DEF CreateRow, TypeOK, Busy
  <2>2. CASE /\ pc' = [pc EXCEPT ![c] = "failed"]
             /\ UNCHANGED <<row, seek, toLock>>
    BY <1>7, <2>2 DEF CreateRow, TypeOK, Busy
  <2>3. QED
    BY <1>7, <2>1, <2>2 DEF CreateRow
<1>8. ASSUME NEW c \in Calls, Acquire(c)
      PROVE  TypeInv'
  BY <1>8 DEF Acquire, TypeOK, Busy
<1>9. ASSUME NEW c \in Calls, Check(c)
      PROVE  TypeInv'
  BY <1>9 DEF Check, Database, TypeOK, Busy
<1>10. ASSUME NEW c \in Calls, InsertTxn(c)
       PROVE  TypeInv'
  BY <1>10 DEF InsertTxn, TypeOK, Busy
<1>11. ASSUME NEW c \in Calls, Publish(c)
       PROVE  TypeInv'
  BY <1>11 DEF Publish, Events, TypeOK, Busy
<1>12. ASSUME NEW c \in Calls, Commit(c)
       PROVE  TypeInv'
  <2>1. call[c] \in Args /\ call[c].kind # "none"
    BY <1>12 DEF Commit, TypeOK, Busy
  <2>2. /\ call[c].key \in MaybeKey
        /\ call[c].kind \in {"transfer", "deposit", "fx"}
    BY <2>1 DEF Args, NoArgs
  <2>3. balance' \in [Accounts -> Int]
    <3>1. \A a \in Accounts : balance[a] + Entries(call[c], a) \in Int
      BY <2>1, EntriesInt DEF TypeOK
    <3>2. QED
      BY <1>12, <3>1 DEF Commit
  <2>4. posted' \subseteq [id : Nat, key : MaybeKey,
                           kind : {"transfer", "deposit", "fx"}]
    BY <1>12, <2>2 DEF Commit, TypeOK
  <2>5. answers' \subseteq Keys \X Nat
    BY <1>12, <2>2 DEF Commit, Answer, TypeOK, MaybeKey
  <2>6. row' \in [Rows -> Calls \cup {Absent, Present}]
    BY <1>12 DEF Commit, TypeOK
  <2>7. End(c)
    BY <1>12 DEF Commit
  <2>8. QED
    BY <2>3, <2>4, <2>5, <2>6, <2>7, TypeEnd DEF TypeOK
<1>13. ASSUME NEW c \in Calls, Undo(c)
       PROVE  TypeInv'
  <2>1. row' \in [Rows -> Calls \cup {Absent, Present}]
    BY <1>13 DEF Undo, TypeOK
  <2>2. QED
    BY <1>13, <2>1, TypeEnd DEF Undo, TypeOK
<1>14. ASSUME NEW c \in Calls, Timeout(c)
       PROVE  TypeInv'
  <2>1. pc[c] # "idle"
    BY <1>14 DEF Timeout, WaitsFor
  <2>2. QED
    BY <1>14, <2>1 DEF Timeout, Database, TypeOK, Busy
<1>15. CASE UNCHANGED vars
  BY <1>15 DEF vars, TypeOK, Busy
<1>16. QED
  BY <1>1, <1>2, <1>3, <1>4, <1>5, <1>6, <1>7, <1>8, <1>9, <1>10, <1>11,
     <1>12, <1>13, <1>14, <1>15
     DEF Next, Progress, Rollback, Crash

\* Every variable keeps to its type, whatever the sessions do.
THEOREM TypeCorrect == Spec => []TypeOK
<1>1. Spec => []TypeInv
  BY TypeInit, TypeStep, PTL DEF Spec
<1>2. TypeInv => TypeOK
  BY DEF TypeInv
<1>3. QED
  BY <1>1, <1>2, PTL

-----------------------------------------------------------------------------
(* No overdraft.  NoOverdraft is not inductive: a commit debits an account *)
(* by an amount that was compared with its balance steps ago.  What holds  *)
(* in between is that the session owns the row lock of the account it      *)
(* debits from the check to the commit, that an account has one owner, and *)
(* that only a commit of its owner lowers a user's balance.                *)

\* The amounts of an operation under way have passed the check of their sign.
Positive ==
    \A c \in Calls :
        call[c].kind # "none" => call[c].amt > 0 /\ call[c].got >= 0

\* Only users' accounts are debited by a transfer or an exchange.
DebitsUser ==
    \A c \in Calls : Debits(c) => call[c].src \in UserAccounts

\* A deposit debits a clearing account, and so does the second half of an
\* exchange; neither is a user's.
DepositSource ==
    \A c \in Calls :
        call[c].kind = "deposit" => call[c].src = ClearingId[call[c].cur]

\* The account debited is waiting to be locked, and then stays locked.
SourceLocked ==
    \A c \in Calls : Debits(c) =>
        /\ pc[c] = "lock" =>
             call[c].src \in toLock[c] \/ owner[call[c].src] = c
        /\ pc[c] = "check" \/ Underway(c) => owner[call[c].src] = c

SafeInv ==
    /\ TypeInv /\ Positive /\ DebitsUser /\ DepositSource /\ SourceLocked
    /\ FundsStayAvailable /\ NoOverdraft

LEMMA ArgsFields ==
    ASSUME NEW r \in Args, r.kind # "none"
    PROVE  /\ r.kind \in {"transfer", "deposit", "fx"}
           /\ r.src \in Accounts /\ r.dst \in Accounts
           /\ r.amt \in Int /\ r.got \in Int
           /\ r.cur \in Currencies /\ r.tcur \in Currencies
           /\ r.key \in MaybeKey
<1>1. r \in [kind : {"transfer", "deposit", "fx"}, src : Accounts,
             dst : Accounts, amt : Amounts, got : Int, cur : Currencies,
             tcur : Currencies, key : MaybeKey]
  BY DEF Args, NoArgs
<1>2. r.amt \in Int
  BY <1>1, AmountsAssumption
<1>3. QED
  BY <1>1, <1>2

\* The clearing accounts belong to no user.
LEMMA ClearingNotUser ==
    ASSUME NEW k \in Currencies
    PROVE  ClearingId[k] \in Accounts \ UserAccounts
BY AccountsAssumption DEF Accounts, ClearingIds

\* What an operation takes from a user's account is its amount, and only
\* from its source.
LEMMA UserEntries ==
    ASSUME SafeInv, NEW c \in Calls, call[c].kind # "none",
           NEW a \in UserAccounts
    PROVE  /\ Entries(call[c], a) \in Int
           /\ ~(Debits(c) /\ call[c].src = a) => Entries(call[c], a) >= 0
           /\ Debits(c) /\ call[c].src = a =>
                Entries(call[c], a) >= -call[c].amt
<1> DEFINE r == call[c]
<1>1. r \in Args
  BY DEF SafeInv, TypeInv, TypeOK
<1>2. /\ r.kind \in {"transfer", "deposit", "fx"}
      /\ r.src \in Accounts /\ r.dst \in Accounts
      /\ r.amt \in Int /\ r.got \in Int
      /\ r.cur \in Currencies /\ r.tcur \in Currencies
  BY <1>1, ArgsFields
<1>3. ClearingId[r.cur] # a /\ ClearingId[r.tcur] # a
  BY <1>2, ClearingNotUser
<1>4. r.amt > 0 /\ r.got >= 0
  BY DEF SafeInv, Positive
<1>5. CASE r.kind = "transfer"
  BY <1>2, <1>4, <1>5
     DEF Entries, TransferEntries, Entry, Debits
<1>6. CASE r.kind = "deposit"
  BY <1>2, <1>3, <1>4, <1>6 DEF Entries, DepositEntries, Entry, Debits
<1>7. CASE r.kind = "fx"
  BY <1>2, <1>3, <1>4, <1>7 DEF Entries, FxEntries, Entry, Debits
<1>8. QED
  BY <1>2, <1>5, <1>6, <1>7

LEMMA SafeInit == Init => SafeInv
<1> SUFFICES ASSUME Init PROVE SafeInv
  OBVIOUS
<1>1. TypeInv
  BY TypeInit
<1>2. Positive /\ DebitsUser /\ DepositSource /\ SourceLocked
      /\ FundsStayAvailable
  BY DEF Init, NoArgs, Positive, DebitsUser, DepositSource, SourceLocked,
         FundsStayAvailable, Debits
<1>3. NoOverdraft
  BY InitialAssumption DEF Init, NoOverdraft
<1>4. QED
  BY <1>1, <1>2, <1>3 DEF SafeInv

\* The beginning of an operation.
LEMMA SafeStart ==
    ASSUME SafeInv, TypeInv', NEW c \in Calls, NEW r \in Requests,
           NEW q \in Int, q >= 0, r.amt > 0,
           Start(c, r, q), UNCHANGED Database,
           \/ pc' = [pc EXCEPT ![c] = "find"]
           \/ /\ pc' = [pc EXCEPT ![c] = "lock"]
              /\ r.kind = "transfer" /\ r.src \in toLock'[c],
           \A d \in Calls \ {c} : toLock'[d] = toLock[d]
    PROVE  SafeInv'
<1>1. r.kind \in {"transfer", "deposit", "fx"} /\ r.src \in UserAccounts
  BY RequestsAssumption
<1>2. /\ call'[c].kind = r.kind /\ call'[c].amt = r.amt /\ call'[c].got = q
      /\ call'[c].cur = r.cur
      /\ call'[c].src = IF r.kind = "deposit" THEN ClearingId[r.cur] ELSE r.src
      /\ \A d \in Calls \ {c} : call'[d] = call[d] /\ pc'[d] = pc[d]
      /\ pc'[c] \in {"find", "lock"}
  BY DEF Start, SafeInv, TypeInv, TypeOK
<1>3. owner' = owner /\ balance' = balance
  BY DEF Database
<1>4. Positive'
  BY <1>2 DEF SafeInv, Positive
<1>5. DebitsUser' /\ DepositSource'
  BY <1>1, <1>2 DEF SafeInv, DebitsUser, DepositSource, Debits
<1>6. SourceLocked'
  <2> SUFFICES ASSUME NEW d \in Calls, Debits(d)'
               PROVE  /\ pc'[d] = "lock" => call'[d].src \in toLock'[d]
                                             \/ owner'[call'[d].src] = d
                      /\ pc'[d] = "check" \/ Underway(d)'
                           => owner'[call'[d].src] = d
    BY DEF SourceLocked
  <2>1. CASE d = c
    BY <1>2, <2>1 DEF Underway, SafeInv, TypeInv, TypeOK
  <2>2. CASE d # c
    BY <1>2, <1>3, <2>2 DEF SafeInv, SourceLocked, Debits, Underway
  <2>3. QED
    BY <2>1, <2>2
<1>7. FundsStayAvailable'
  BY <1>2, <1>3 DEF SafeInv, FundsStayAvailable, Debits, Underway
<1>8. NoOverdraft'
  BY <1>3 DEF SafeInv, NoOverdraft
<1>9. QED
  BY <1>4, <1>5, <1>6, <1>7, <1>8 DEF SafeInv

\* A step that leaves the arguments, the balances and the locks held alone,
\* and moves one session c to a place that asks no more of the locks.
LEMMA SafeMove ==
    ASSUME SafeInv, TypeInv', NEW c \in Calls,
           UNCHANGED <<call, owner, balance>>,
           \A d \in Calls \ {c} : pc'[d] = pc[d] /\ toLock'[d] = toLock[d],
           \/ pc'[c] \in {"find", "create", "failed"}
           \/ pc'[c] = "lock" /\ toLock'[c] = Involved(call[c])
           \/ pc[c] \in {"check", "insert", "publish", "commit"}
              /\ pc'[c] \in {"insert", "publish", "commit"}
              /\ (Debits(c) => balance[call[c].src] >= call[c].amt)
    PROVE  SafeInv'
<1>1. Positive' /\ DebitsUser' /\ DepositSource' /\ NoOverdraft'
  BY DEF SafeInv, Positive, DebitsUser, DepositSource, NoOverdraft, Debits
<1>2. SourceLocked'
  <2> SUFFICES ASSUME NEW d \in Calls, Debits(d)
               PROVE  /\ pc'[d] = "lock" => call[d].src \in toLock'[d]
                                             \/ owner[call[d].src] = d
                      /\ pc'[d] = "check" \/ Underway(d)'
                           => owner[call[d].src] = d
    BY DEF SourceLocked, Debits
  <2>1. CASE d # c
    BY <2>1 DEF SafeInv, SourceLocked, Underway
  <2>2. CASE d = c /\ pc'[c] \in {"find", "create", "failed"}
    BY <2>2 DEF Underway
  <2>3. CASE d = c /\ pc'[c] = "lock" /\ toLock'[c] = Involved(call[c])
    BY <2>3 DEF Underway, Involved, Debits
  <2>4. CASE d = c /\ pc[c] \in {"check", "insert", "publish", "commit"}
                   /\ pc'[c] \in {"insert", "publish", "commit"}
    BY <2>4 DEF SafeInv, SourceLocked, Underway
  <2>5. QED
    BY <2>1, <2>2, <2>3, <2>4
<1>3. FundsStayAvailable'
  BY DEF SafeInv, FundsStayAvailable, Underway, Debits
<1>4. QED
  BY <1>1, <1>2, <1>3 DEF SafeInv

\* The end of an operation, balances apart.
LEMMA SafeEnd ==
    ASSUME SafeInv, TypeInv', NEW c \in Calls, End(c),
           \A a \in UserAccounts : balance'[a] >= 0,
           \A d \in Calls \ {c} : Underway(d) /\ Debits(d) =>
              balance'[call[d].src] >= call[d].amt
    PROVE  SafeInv'
<1>1. /\ pc'[c] = "idle" /\ call'[c] = NoArgs
      /\ \A d \in Calls \ {c} : /\ pc'[d] = pc[d] /\ call'[d] = call[d]
                                /\ toLock'[d] = toLock[d]
      /\ \A a \in Accounts, d \in Calls \ {c} : owner[a] = d => owner'[a] = d
  BY DEF End, SafeInv, TypeInv, TypeOK
<1>2. Positive' /\ DebitsUser' /\ DepositSource'
  BY <1>1 DEF SafeInv, Positive, DebitsUser, DepositSource, Debits, NoArgs
<1>3. SourceLocked'
  <2>1. \A d \in Calls : Debits(d) => call[d].src \in Accounts
    BY DEF SafeInv, DebitsUser, Accounts
  <2>2. QED
    BY <1>1, <2>1 DEF SafeInv, SourceLocked, Debits, Underway, NoArgs
<1>4. FundsStayAvailable'
  BY <1>1 DEF FundsStayAvailable, Debits, Underway, NoArgs
<1>5. NoOverdraft'
  BY DEF NoOverdraft
<1>6. QED
  BY <1>2, <1>3, <1>4, <1>5 DEF SafeInv

\* A commit: its own debit is covered, and no other session's funds shrink.
LEMMA SafeCommit ==
    ASSUME SafeInv, TypeInv', NEW c \in Calls, Commit(c)
    PROVE  SafeInv'
<1>1. call[c].kind # "none" /\ Underway(c)
  BY DEF Commit, SafeInv, TypeInv, Busy, Underway
<1>2. \A a \in Accounts : balance'[a] = balance[a] + Entries(call[c], a)
  BY DEF Commit
<1>3. UserAccounts \subseteq Accounts /\ \A a \in Accounts : balance[a] \in Int
  BY DEF Accounts, SafeInv, TypeInv, TypeOK
<1>4. call[c].amt \in Int
  BY <1>1, ArgsFields DEF SafeInv, TypeInv, TypeOK
<1>5. ASSUME NEW a \in UserAccounts
      PROVE  balance'[a] >= 0
  <2>1. balance[a] >= 0
    BY DEF SafeInv, NoOverdraft
  <2>2. CASE Debits(c) /\ call[c].src = a
    <3>1. balance[a] >= call[c].amt
      BY <1>1, <2>2 DEF SafeInv, FundsStayAvailable
    <3>2. Entries(call[c], a) \in Int /\ Entries(call[c], a) >= -call[c].amt
      BY <1>1, <2>2, UserEntries
    <3>3. QED
      BY <1>2, <1>3, <1>4, <3>1, <3>2
  <2>3. CASE ~(Debits(c) /\ call[c].src = a)
    <3>1. Entries(call[c], a) \in Int /\ Entries(call[c], a) >= 0
      BY <1>1, <2>3, UserEntries
    <3>2. QED
      BY <1>2, <1>3, <2>1, <3>1
  <2>4. QED
    BY <2>2, <2>3
<1>6. ASSUME NEW d \in Calls \ {c}, Underway(d), Debits(d)
      PROVE  balance'[call[d].src] >= call[d].amt
  <2> DEFINE a == call[d].src
  <2>1. a \in UserAccounts /\ owner[a] = d
    BY <1>6 DEF SafeInv, DebitsUser, SourceLocked
  <2>2. ~(Debits(c) /\ call[c].src = a)
    BY <1>1, <2>1 DEF SafeInv, SourceLocked
  <2>3. Entries(call[c], a) \in Int /\ Entries(call[c], a) >= 0
    BY <1>1, <2>1, <2>2, UserEntries
  <2>4. balance[a] >= call[d].amt
    BY <1>6 DEF SafeInv, FundsStayAvailable
  <2>5. call[d].amt \in Int
    BY <1>6, ArgsFields DEF SafeInv, TypeInv, TypeOK, Debits
  <2>6. QED
    BY <1>2, <1>3, <2>1, <2>3, <2>4, <2>5
<1>7. End(c)
  BY DEF Commit
<1>8. QED
  BY <1>5, <1>6, <1>7, SafeEnd

LEMMA SafeStep == SafeInv /\ [Next]_vars => SafeInv'
<1> SUFFICES ASSUME SafeInv, [Next]_vars PROVE SafeInv'
  OBVIOUS
<1>0. TypeInv /\ TypeInv'
  BY TypeStep DEF SafeInv
<1>1. ASSUME NEW c \in Calls, NEW r \in Requests, BeginTransfer(c, r)
      PROVE  SafeInv'
  <2>1. PICK q \in Int : q >= 0 /\ r.amt > 0 /\ Start(c, r, q)
    <3>1. r.amt \in Int
      BY RequestsAssumption, AmountsAssumption
    <3>2. r.amt > 0 /\ Start(c, r, r.amt)
      BY <1>1 DEF BeginTransfer, Accepted
    <3>3. r.amt >= 0
      BY <3>1, <3>2
    <3>4. QED
      BY <3>1, <3>2, <3>3, Zenon
  <2>2. r.src \in toLock'[c] /\ \A d \in Calls \ {c} : toLock'[d] = toLock[d]
    BY <1>0, <1>1 DEF BeginTransfer, Involved, TypeInv, TypeOK
  <2>3. QED
    BY <1>0, <1>1, <2>1, <2>2, SafeStart DEF BeginTransfer
<1>2. ASSUME NEW c \in Calls, NEW r \in Requests, BeginDeposit(c, r)
      PROVE  SafeInv'
  <2>1. PICK q \in Int : q >= 0 /\ r.amt > 0 /\ Start(c, r, q)
    <3>1. r.amt \in Int
      BY RequestsAssumption, AmountsAssumption
    <3>2. r.amt > 0 /\ Start(c, r, r.amt)
      BY <1>2 DEF BeginDeposit, Accepted
    <3>3. r.amt >= 0
      BY <3>1, <3>2
    <3>4. QED
      BY <3>1, <3>2, <3>3, Zenon
  <2>2. QED
    BY <1>0, <1>2, <2>1, SafeStart DEF BeginDeposit
<1>3. ASSUME NEW c \in Calls, NEW r \in Requests, BeginFx(c, r)
      PROVE  SafeInv'
  <2>1. PICK q \in Quote[<<r.cur, r.tcur, r.amt>>] : Start(c, r, q)
    BY <1>3 DEF BeginFx
  <2>2. q \in Int /\ q >= 0 /\ r.amt > 0
    <3>1. <<r.cur, r.tcur, r.amt>> \in Currencies \X Currencies \X Amounts
      BY RequestsAssumption
    <3>2. Quote[<<r.cur, r.tcur, r.amt>>] \in SUBSET Nat
      BY <3>1, AmountsAssumption, Zenon
    <3>3. QED
      BY <1>3, <2>1, <3>2 DEF BeginFx, Accepted
  <2>3. QED
    BY <1>0, <1>3, <2>1, <2>2, SafeStart DEF BeginFx
<1>4. CASE UNCHANGED vars
  BY <1>0, <1>4 DEF vars, SafeInv, Positive, DebitsUser, DepositSource,
     SourceLocked, FundsStayAvailable, NoOverdraft, Debits, Underway
<1>5. ASSUME NEW k \in Keys, ReplyRecorded(k)
      PROVE  SafeInv'
  BY <1>0, <1>5 DEF ReplyRecorded, SafeInv, Positive, DebitsUser,
     DepositSource, SourceLocked, FundsStayAvailable, NoOverdraft, Debits,
     Underway
<1>6. ASSUME NEW c \in Calls, FindRow(c) \/ CreateRow(c) \/ Timeout(c)
      PROVE  SafeInv'
  <2>1. UNCHANGED <<call, owner, balance>>
    BY <1>6 DEF FindRow, CreateRow, Timeout, Database
  <2>2. \A d \in Calls \ {c} : pc'[d] = pc[d] /\ toLock'[d] = toLock[d]
    BY <1>0, <1>6 DEF FindRow, CreateRow, Timeout, FoundRow, TypeInv, TypeOK
  <2>3. \/ pc'[c] \in {"find", "create", "failed"}
        \/ pc'[c] = "lock" /\ toLock'[c] = Involved(call[c])
    BY <1>0, <1>6 DEF FindRow, CreateRow, Timeout, FoundRow, TypeInv, TypeOK
  <2>4. QED
    BY <1>0, <2>1, <2>2, <2>3, SafeMove
<1>7. ASSUME NEW c \in Calls, Acquire(c)
      PROVE  SafeInv'
  <2>1. PICK a \in Accounts :
          /\ NextToLock(c, a)
          /\ AccountSeen(c, a) => LockFree(c, a)
          /\ owner' = IF AccountSeen(c, a) THEN [owner EXCEPT ![a] = c]
                                           ELSE owner
          /\ toLock' = [toLock EXCEPT ![c] = @ \ {a}]
          /\ pc' = IF toLock[c] = {a} THEN [pc EXCEPT ![c] = "check"] ELSE pc
    BY <1>7 DEF Acquire
  <2>2. call' = call /\ balance' = balance /\ pc[c] = "lock"
    BY <1>7 DEF Acquire
  <2>3. \A b \in Accounts, d \in Calls : owner[b] = d => owner'[b] = d
    BY <1>0, <2>1, CallsAssumption DEF LockFree, TypeInv, TypeOK
  <2>4. \A d \in Calls : Debits(d) => /\ call[d].src \in UserAccounts
                                      /\ call[d].src \in Accounts
    BY DEF SafeInv, DebitsUser, Accounts
  <2>5. SourceLocked'
    <3> SUFFICES ASSUME NEW d \in Calls, Debits(d)
                 PROVE  /\ pc'[d] = "lock" => call[d].src \in toLock'[d]
                                               \/ owner'[call[d].src] = d
                        /\ pc'[d] = "check" \/ Underway(d)'
                             => owner'[call[d].src] = d
      BY <2>2 DEF SourceLocked, Debits
    <3>1. CASE d # c
      BY <1>0, <2>1, <2>3, <2>4, <3>1
         DEF SafeInv, SourceLocked, Underway, TypeInv, TypeOK
    <3>2. CASE d = c
      <4>1. CASE call[c].src = a
        <5>1. owner'[a] = c
          BY <1>0, <2>1, <2>4, <3>2, <4>1 DEF AccountSeen, TypeInv, TypeOK
        <5>2. QED
          BY <3>2, <4>1, <5>1
      <4>2. CASE call[c].src # a
        <5>1. call[c].src \in toLock[c] \/ owner[call[c].src] = c
          BY <2>2, <3>2 DEF SafeInv, SourceLocked
        <5>2. CASE owner[call[c].src] = c
          BY <2>3, <2>4, <3>2, <5>2
        <5>3. CASE call[c].src \in toLock[c]
          <6>1. toLock[c] # {a} /\ call[c].src \in toLock'[c]
            BY <1>0, <2>1, <4>2, <5>3 DEF TypeInv, TypeOK
          <6>2. QED
            BY <2>1, <2>2, <3>2, <6>1 DEF Underway
        <5>4. QED
          BY <5>1, <5>2, <5>3
      <4>3. QED
        BY <4>1, <4>2
    <3>3. QED
      BY <3>1, <3>2
  <2>6. \A d \in Calls : Underway(d)' => Underway(d)
    BY <1>0, <2>1, <2>2 DEF Underway, TypeInv, TypeOK
  <2>7. FundsStayAvailable'
    BY <2>2, <2>6 DEF SafeInv, FundsStayAvailable, Debits
  <2>8. QED
    BY <1>0, <2>2, <2>5, <2>7
       DEF SafeInv, Positive, DebitsUser, DepositSource, NoOverdraft, Debits
<1>8. ASSUME NEW c \in Calls, Check(c)
      PROVE  SafeInv'
  <2>1. UNCHANGED <<call, owner, balance>>
        /\ \A d \in Calls \ {c} : pc'[d] = pc[d] /\ toLock'[d] = toLock[d]
    BY <1>0, <1>8 DEF Check, Database, TypeInv, TypeOK
  <2>2. CASE ~Allowed(c)
    <3>1. pc'[c] = "failed"
      BY <1>0, <1>8, <2>2 DEF Check, TypeInv, TypeOK
    <3>2. QED
      BY <1>0, <2>1, <3>1, SafeMove
  <2>3. CASE Allowed(c)
    <3>1. pc[c] = "check" /\ pc'[c] = "insert"
      BY <1>0, <1>8, <2>3 DEF Check, TypeInv, TypeOK
    <3>2. Debits(c) => balance[call[c].src] >= call[c].amt
      BY <2>3 DEF Allowed, TransferAllowed, FxAllowed, Debits
    <3>3. QED
      BY <1>0, <2>1, <3>1, <3>2, SafeMove
  <2>4. QED
    BY <2>2, <2>3
<1>9. ASSUME NEW c \in Calls, InsertTxn(c) \/ Publish(c)
      PROVE  SafeInv'
  <2>1. UNCHANGED <<call, owner, balance>>
        /\ \A d \in Calls \ {c} : pc'[d] = pc[d] /\ toLock'[d] = toLock[d]
    BY <1>0, <1>9 DEF InsertTxn, Publish, TypeInv, TypeOK
  <2>2. Underway(c) /\ pc'[c] \in {"failed", "publish", "commit"}
    BY <1>0, <1>9 DEF InsertTxn, Publish, Underway, TypeInv, TypeOK
  <2>3. Debits(c) => balance[call[c].src] >= call[c].amt
    BY <2>2 DEF SafeInv, FundsStayAvailable
  <2>4. QED
    BY <1>0, <2>1, <2>2, <2>3, SafeMove DEF Underway
<1>10. ASSUME NEW c \in Calls, Commit(c)
       PROVE  SafeInv'
  BY <1>0, <1>10, SafeCommit
<1>11. ASSUME NEW c \in Calls, Undo(c)
       PROVE  SafeInv'
  <2>1. End(c) /\ balance' = balance
    BY <1>11 DEF Undo
  <2>2. QED
    BY <1>0, <2>1, SafeEnd DEF SafeInv, NoOverdraft, FundsStayAvailable
<1>12. QED
  BY <1>1, <1>2, <1>3, <1>4, <1>5, <1>6, <1>7, <1>8, <1>9, <1>10, <1>11
     DEF Next, Progress, Rollback, Crash, Refuse

LEMMA Safe == Spec => []SafeInv
BY SafeInit, SafeStep, PTL DEF Spec

\* However many sessions post at once, no user's account goes below zero.
THEOREM NeverOverdrawn == Spec => []NoOverdraft
<1>1. SafeInv => NoOverdraft
  BY DEF SafeInv
<1>2. QED
  BY <1>1, Safe, PTL

\* The funds a session has found stay until it commits.
THEOREM FundsReserved == Spec => []FundsStayAvailable
<1>1. SafeInv => FundsStayAvailable
  BY DEF SafeInv
<1>2. QED
  BY <1>1, Safe, PTL

-----------------------------------------------------------------------------
(* Locks.                                                                  *)

\* The users' accounts an operation posts to are waiting to be locked by it,
\* and then stay locked.
UsersLocked ==
    \A c \in Calls, a \in UserAccounts : a \in Involved(call[c]) =>
        /\ pc[c] = "lock" => a \in toLock[c] \/ owner[a] = c
        /\ pc[c] = "check" \/ Underway(c) => owner[a] = c

LockInv == TypeInv /\ UsersLocked

LEMMA LockInit == Init => LockInv
<1> SUFFICES ASSUME Init PROVE LockInv
  OBVIOUS
<1>1. TypeInv
  BY TypeInit
<1>2. UsersLocked
  BY DEF Init, UsersLocked, Underway
<1>3. QED
  BY <1>1, <1>2 DEF LockInv

\* A step of session c that takes no lock, releases at most those of c, and
\* goes from under the locks to under the locks or away from them.
LEMMA LockMove ==
    ASSUME TypeInv, UsersLocked, NEW c \in Calls,
           \A d \in Calls \ {c} : /\ call'[d] = call[d] /\ pc'[d] = pc[d]
                                  /\ toLock'[d] = toLock[d],
           \A a \in UserAccounts, d \in Calls \ {c} :
              owner[a] = d => owner'[a] = d,
           \/ pc'[c] \in {"idle", "find", "create", "failed"}
           \/ pc'[c] = "lock" /\ toLock'[c] = Involved(call'[c])
           \/ /\ pc[c] \in {"check", "insert", "publish", "commit"}
              /\ pc'[c] \in {"insert", "publish", "commit"}
              /\ call'[c] = call[c] /\ owner' = owner
    PROVE  UsersLocked'
<1> SUFFICES ASSUME NEW d \in Calls, NEW a \in UserAccounts,
                    a \in Involved(call'[d])
             PROVE  /\ pc'[d] = "lock" => a \in toLock'[d] \/ owner'[a] = d
                    /\ pc'[d] = "check" \/ Underway(d)' => owner'[a] = d
  BY DEF UsersLocked, Involved
<1>1. CASE d # c
  <2>1. a \in Involved(call[d]) /\ pc'[d] = pc[d] /\ toLock'[d] = toLock[d]
    BY <1>1
  <2>2. owner[a] = d => owner'[a] = d
    BY <1>1
  <2>3. QED
    BY <2>1, <2>2 DEF UsersLocked, Underway
<1>2. CASE d = c /\ pc'[c] \in {"idle", "find", "create", "failed"}
  BY <1>2 DEF Underway
<1>3. CASE d = c /\ pc'[c] = "lock" /\ toLock'[c] = Involved(call'[c])
  BY <1>3 DEF Underway
<1>4. CASE /\ d = c /\ pc[c] \in {"check", "insert", "publish", "commit"}
           /\ pc'[c] \in {"insert", "publish", "commit"}
           /\ call'[c] = call[c] /\ owner' = owner
  BY <1>4 DEF UsersLocked, Underway
<1>5. QED
  BY <1>1, <1>2, <1>3, <1>4

LEMMA LockAcquire ==
    ASSUME TypeInv, TypeInv', UsersLocked, NEW c \in Calls, Acquire(c)
    PROVE  UsersLocked'
<1>1. PICK a \in Accounts :
        /\ NextToLock(c, a)
        /\ AccountSeen(c, a) => LockFree(c, a)
        /\ owner' = IF AccountSeen(c, a) THEN [owner EXCEPT ![a] = c]
                                         ELSE owner
        /\ toLock' = [toLock EXCEPT ![c] = @ \ {a}]
        /\ pc' = IF toLock[c] = {a} THEN [pc EXCEPT ![c] = "check"] ELSE pc
  BY DEF Acquire
<1>2. call' = call /\ pc[c] = "lock"
  BY DEF Acquire
<1>3. \A b \in Accounts, d \in Calls : owner[b] = d => owner'[b] = d
  BY <1>1, CallsAssumption DEF LockFree, TypeInv, TypeOK
<1> SUFFICES ASSUME NEW d \in Calls, NEW b \in UserAccounts,
                    b \in Involved(call[d])
             PROVE  /\ pc'[d] = "lock" => b \in toLock'[d] \/ owner'[b] = d
                    /\ pc'[d] = "check" \/ Underway(d)' => owner'[b] = d
  BY <1>2 DEF UsersLocked, Involved
<1>4. b \in Accounts
  BY DEF Accounts
<1>5. CASE d # c
  <2>1. pc'[d] = pc[d] /\ toLock'[d] = toLock[d]
    BY <1>1, <1>5 DEF TypeInv, TypeOK
  <2>2. QED
    BY <1>3, <1>4, <2>1 DEF UsersLocked, Underway
<1>6. CASE d = c /\ b = a
  <2>1. owner'[b] = c
    BY <1>1, <1>4, <1>6 DEF AccountSeen, TypeInv, TypeOK
  <2>2. QED
    BY <1>6, <2>1
<1>7. CASE d = c /\ b # a
  <2>1. b \in toLock[c] \/ owner[b] = c
    BY <1>2, <1>7 DEF UsersLocked
  <2>2. CASE owner[b] = c
    BY <1>3, <1>4, <1>7, <2>2
  <2>3. CASE b \in toLock[c]
    <3>1. toLock[c] # {a} /\ b \in toLock'[c]
      BY <1>1, <1>7, <2>3 DEF TypeInv, TypeOK
    <3>2. pc'[c] = "lock"
      BY <1>1, <1>2, <3>1
    <3>3. QED
      BY <1>7, <3>1, <3>2 DEF Underway
  <2>4. QED
    BY <2>1, <2>2, <2>3
<1>8. QED
  BY <1>5, <1>6, <1>7

LEMMA LockEnd ==
    ASSUME TypeInv, UsersLocked, NEW c \in Calls, End(c)
    PROVE  UsersLocked'
<1>1. /\ pc'[c] = "idle"
      /\ \A d \in Calls \ {c} : /\ call'[d] = call[d] /\ pc'[d] = pc[d]
                                /\ toLock'[d] = toLock[d]
  BY DEF End, TypeInv, TypeOK
<1>2. \A a \in UserAccounts, d \in Calls \ {c} :
        owner[a] = d => owner'[a] = d
  BY DEF End, Accounts
<1>3. QED
  BY <1>1, <1>2, LockMove

LEMMA LockStep == LockInv /\ [Next]_vars => LockInv'
<1> SUFFICES ASSUME TypeInv, UsersLocked, [Next]_vars
             PROVE  TypeInv' /\ UsersLocked'
  BY DEF LockInv
<1>0. TypeInv'
  BY TypeStep
<1>1. ASSUME NEW c \in Calls, NEW r \in Requests, BeginTransfer(c, r)
      PROVE  UsersLocked'
  <2>1. /\ call'[c].kind = "transfer" /\ r.kind = "transfer"
        /\ call'[c].src = r.src /\ call'[c].dst = r.dst
        /\ \A d \in Calls \ {c} : call'[d] = call[d]
    BY <1>1 DEF BeginTransfer, Start, TypeInv, TypeOK
  <2>2. Involved(call'[c]) = Involved(r)
    BY <2>1 DEF Involved
  <2>3. /\ pc'[c] = "lock" /\ toLock'[c] = Involved(r) /\ owner' = owner
        /\ \A d \in Calls \ {c} : pc'[d] = pc[d] /\ toLock'[d] = toLock[d]
    BY <1>1 DEF BeginTransfer, Database, TypeInv, TypeOK
  <2>4. QED
    BY <2>1, <2>2, <2>3, LockMove
<1>2. ASSUME NEW c \in Calls, NEW r \in Requests,
             BeginDeposit(c, r) \/ BeginFx(c, r)
      PROVE  UsersLocked'
  <2>1. \A d \in Calls \ {c} : call'[d] = call[d]
    BY <1>2 DEF BeginDeposit, BeginFx, Start, TypeInv, TypeOK
  <2>2. /\ pc'[c] = "find" /\ owner' = owner /\ toLock' = toLock
        /\ \A d \in Calls \ {c} : pc'[d] = pc[d]
    BY <1>2 DEF BeginDeposit, BeginFx, Database, TypeInv, TypeOK
  <2>3. QED
    BY <2>1, <2>2, LockMove
<1>3. ASSUME UNCHANGED vars \/ \E k \in Keys : ReplyRecorded(k)
      PROVE  UsersLocked'
  <2>1. UNCHANGED <<call, pc, toLock, owner>>
    BY <1>3 DEF vars, ReplyRecorded
  <2>2. QED
    BY <2>1 DEF UsersLocked, Underway
<1>4. ASSUME NEW c \in Calls,
             \/ FindRow(c) \/ CreateRow(c) \/ Timeout(c) \/ Check(c)
             \/ InsertTxn(c) \/ Publish(c)
      PROVE  UsersLocked'
  <2>1. UNCHANGED <<call, owner>>
    BY <1>4 DEF FindRow, CreateRow, Timeout, Check, InsertTxn, Publish,
       Database
  <2>2. \A d \in Calls \ {c} : pc'[d] = pc[d] /\ toLock'[d] = toLock[d]
    BY <1>4 DEF FindRow, CreateRow, Timeout, Check, InsertTxn, Publish,
       FoundRow, TypeInv, TypeOK
  <2>3. \/ pc'[c] \in {"find", "create", "failed"}
        \/ pc'[c] = "lock" /\ toLock'[c] = Involved(call[c])
        \/ /\ pc[c] \in {"check", "insert", "publish"}
           /\ pc'[c] \in {"insert", "publish", "commit"}
    BY <1>4 DEF FindRow, CreateRow, Timeout, Check, InsertTxn, Publish,
       FoundRow, TypeInv, TypeOK
  <2>4. QED
    BY <2>1, <2>2, <2>3, LockMove
<1>5. ASSUME NEW c \in Calls, Acquire(c)
      PROVE  UsersLocked'
  BY <1>0, <1>5, LockAcquire
<1>6. ASSUME NEW c \in Calls, Commit(c) \/ Undo(c)
      PROVE  UsersLocked'
  BY <1>6, LockEnd DEF Commit, Undo
<1>7. QED
  BY <1>0, <1>1, <1>2, <1>3, <1>4, <1>5, <1>6
     DEF Next, Progress, Rollback, Crash, Refuse

LEMMA Locked == Spec => []LockInv
BY LockInit, LockStep, PTL DEF Spec

\* An operation posts to the accounts it locks, and to none else of a user.
LEMMA PostsInvolved ==
    ASSUME TypeInv, NEW c \in Calls, NEW a \in UserAccounts,
           Entries(call[c], a) # 0, call[c].kind # "none"
    PROVE  a \in Involved(call[c])
<1> DEFINE r == call[c]
<1>1. r \in Args
  BY DEF TypeInv, TypeOK
<1>2. r.kind \in {"transfer", "deposit", "fx"}
      /\ r.cur \in Currencies /\ r.tcur \in Currencies
  BY <1>1, ArgsFields
<1>3. a # ClearingId[r.cur] /\ a # ClearingId[r.tcur]
  BY <1>2, ClearingNotUser
<1>4. CASE a # r.src /\ a # r.dst
  BY <1>2, <1>3, <1>4
     DEF Entries, TransferEntries, DepositEntries, FxEntries, Entry
<1>5. CASE r.kind = "deposit" /\ a # r.dst
  BY <1>3, <1>5 DEF Entries, DepositEntries, Entry
<1>6. CASE a = r.dst \/ (a = r.src /\ r.kind # "deposit")
  BY <1>2, <1>6 DEF Involved
<1>7. QED
  BY <1>4, <1>5, <1>6

\* A balance changes only under the lock of its account, held by the session
\* that commits.
THEOREM PostsUnderLock == Spec => PostedUnderLock
<1>1. ASSUME LockInv, [Next]_vars
      PROVE  [\A a \in UserAccounts :
                balance'[a] # balance[a] =>
                  \E c \in Calls : owner[a] = c /\ pc[c] = "commit"]_vars
  <2> SUFFICES ASSUME NEW a \in UserAccounts, balance'[a] # balance[a]
               PROVE  \E c \in Calls : owner[a] = c /\ pc[c] = "commit"
    OBVIOUS
  <2>1. PICK c \in Calls : Commit(c)
    BY <1>1 DEF Next, Progress, Rollback, Crash, Refuse, BeginTransfer,
       BeginDeposit, BeginFx, ReplyRecorded, FindRow, CreateRow, Acquire,
       Check, InsertTxn, Publish, Undo, Timeout, Database, vars
  <2>2. pc[c] = "commit" /\ a \in Accounts
    BY <2>1 DEF Commit, Accounts
  <2>3. call[c] \in Args /\ call[c].kind # "none" /\ balance[a] \in Int
    BY <1>1, <2>2 DEF LockInv, TypeInv, TypeOK, Busy
  <2>4. balance'[a] = balance[a] + Entries(call[c], a)
    BY <2>1, <2>2 DEF Commit
  <2>5. Entries(call[c], a) # 0
    BY <2>3, <2>4
  <2>6. a \in Involved(call[c])
    BY <1>1, <2>3, <2>5, PostsInvolved DEF LockInv
  <2>7. QED
    BY <1>1, <2>2, <2>6 DEF LockInv, UsersLocked, Underway
<1>2. QED
  BY <1>1, Locked, PTL DEF Spec, PostedUnderLock

-----------------------------------------------------------------------------
(* Keys.                                                                   *)

\* A session has inserted its transaction row from the flush to the commit.
TxnHeld ==
    \A c \in Calls : txn[c] # 0 <=> pc[c] \in {"publish", "commit"}

\* A key whose row is inserted is not committed by anybody yet.
KeyFree ==
    \A c \in Calls : txn[c] # 0 => ~Recorded(call[c].key)

\* Two sessions never hold one key.
KeyAlone ==
    \A c, d \in Calls :
        txn[c] # 0 /\ txn[d] # 0 /\ call[c].key = call[d].key
          /\ call[c].key # NoKey => c = d

KeyInv ==
    /\ TypeInv /\ nextTxn > 0
    /\ TxnHeld /\ KeyFree /\ KeyAlone /\ OneTransactionPerKey

LEMMA KeyInit == Init => KeyInv
<1> SUFFICES ASSUME Init PROVE KeyInv
  OBVIOUS
<1>1. TypeInv
  BY TypeInit
<1>2. nextTxn > 0 /\ TxnHeld /\ KeyFree /\ KeyAlone /\ OneTransactionPerKey
  BY DEF Init, TxnHeld, KeyFree, KeyAlone, OneTransactionPerKey
<1>3. QED
  BY <1>1, <1>2 DEF KeyInv

\* A step of session c that inserts and commits no transaction row.
LEMMA KeyMove ==
    ASSUME KeyInv, TypeInv', NEW c \in Calls,
           \A d \in Calls \ {c} : call'[d] = call[d] /\ pc'[d] = pc[d],
           UNCHANGED <<posted, answers, txn>>, nextTxn' >= nextTxn,
           \/ txn[c] = 0 /\ pc'[c] \notin {"publish", "commit"}
           \/ call'[c] = call[c] /\ pc[c] = "publish" /\ pc'[c] = "commit"
    PROVE  KeyInv'
<1>1. nextTxn' > 0
  BY DEF KeyInv, TypeInv, TypeOK
<1>2. TxnHeld'
  BY DEF KeyInv, TxnHeld
<1>3. KeyFree'
  BY DEF KeyInv, KeyFree, Recorded
<1>4. KeyAlone'
  BY DEF KeyInv, KeyAlone
<1>5. OneTransactionPerKey'
  BY DEF KeyInv, OneTransactionPerKey
<1>6. QED
  BY <1>1, <1>2, <1>3, <1>4, <1>5 DEF KeyInv

LEMMA KeyInsert ==
    ASSUME KeyInv, TypeInv', NEW c \in Calls, InsertTxn(c)
    PROVE  KeyInv'
<1>1. /\ UNCHANGED <<call, posted, answers>>
      /\ nextTxn' = nextTxn + 1 /\ pc[c] = "insert" /\ txn[c] = 0
      /\ \A d \in Calls \ {c} : pc'[d] = pc[d]
  BY DEF InsertTxn, KeyInv, TxnHeld, TypeInv, TypeOK
<1>2. nextTxn \in Nat /\ nextTxn > 0
  BY DEF KeyInv, TypeInv, TypeOK
<1>3. CASE Recorded(call[c].key)
  <2>1. txn' = txn /\ pc'[c] = "failed"
    BY <1>3 DEF InsertTxn, KeyInv, TypeInv, TypeOK
  <2>2. QED
    BY <1>1, <1>2, <2>1, KeyMove
<1>4. CASE ~Recorded(call[c].key)
  <2>1. /\ pc'[c] = "publish" /\ txn'[c] # 0
        /\ \A d \in Calls \ {c} : txn'[d] = txn[d]
    BY <1>2, <1>4 DEF InsertTxn, KeyInv, TypeInv, TypeOK
  <2>2. TxnHeld'
    BY <1>1, <2>1 DEF KeyInv, TxnHeld
  <2>3. KeyFree'
    BY <1>1, <1>4, <2>1 DEF KeyInv, KeyFree, Recorded
  <2>4. \A d \in Calls :
          txn[d] # 0 /\ call[c].key # NoKey => call[d].key # call[c].key
    BY DEF InsertTxn, KeyHeld
  <2>5. KeyAlone'
    BY <1>1, <2>1, <2>4 DEF KeyInv, KeyAlone
  <2>6. QED
    BY <1>1, <1>2, <2>2, <2>3, <2>5 DEF KeyInv, OneTransactionPerKey
<1>5. QED
  BY <1>3, <1>4

\* The end of an operation whose transaction row is not committed.
LEMMA KeyEnd ==
    ASSUME KeyInv, NEW c \in Calls, End(c)
    PROVE  /\ nextTxn' > 0 /\ TxnHeld' /\ KeyAlone'
           /\ \A d \in Calls : txn'[d] # 0 =>
                d # c /\ txn[d] # 0 /\ call'[d] = call[d]
<1>1. /\ nextTxn' = nextTxn /\ pc'[c] = "idle" /\ txn'[c] = 0
      /\ \A d \in Calls \ {c} : /\ pc'[d] = pc[d] /\ txn'[d] = txn[d]
                                /\ call'[d] = call[d]
  BY DEF End, KeyInv, TypeInv, TypeOK
<1>2. TxnHeld'
  BY <1>1 DEF KeyInv, TxnHeld
<1>3. \A d \in Calls : txn'[d] # 0 => d # c /\ txn[d] # 0 /\ call'[d] = call[d]
  BY <1>1
<1>4. KeyAlone'
  BY <1>3 DEF KeyInv, KeyAlone
<1>5. QED
  BY <1>1, <1>2, <1>3, <1>4 DEF KeyInv

LEMMA KeyCommit ==
    ASSUME KeyInv, TypeInv', NEW c \in Calls, Commit(c)
    PROVE  KeyInv'
<1> DEFINE t == [id |-> txn[c], key |-> call[c].key, kind |-> call[c].kind]
<1>1. /\ posted' = posted \cup {t}
      /\ answers' = answers \cup Answer(call[c], txn[c])
      /\ End(c) /\ txn[c] # 0
  BY DEF Commit, KeyInv, TxnHeld
<1>2. ~Recorded(call[c].key)
  BY <1>1 DEF KeyInv, KeyFree
<1>3. /\ nextTxn' > 0 /\ TxnHeld' /\ KeyAlone'
      /\ \A d \in Calls : txn'[d] # 0 =>
           d # c /\ txn[d] # 0 /\ call'[d] = call[d]
  BY <1>1, KeyEnd
<1>4. t.key = call[c].key /\ t.id = txn[c]
  OBVIOUS
<1>5. KeyFree'
  <2> SUFFICES ASSUME NEW d \in Calls, txn'[d] # 0, Recorded(call[d].key)'
               PROVE  FALSE
    BY <1>3 DEF KeyFree, Recorded
  <2>1. d # c /\ txn[d] # 0 /\ call'[d] = call[d]
    BY <1>3
  <2>2. PICK u \in posted' : u.key = call[d].key /\ call[d].key # NoKey
    BY <2>1 DEF Recorded
  <2>3. u \notin posted
    BY <2>1, <2>2 DEF KeyInv, KeyFree, Recorded
  <2>4. call[c].key = call[d].key
    BY <1>1, <1>4, <2>2, <2>3
  <2>5. QED
    BY <1>1, <2>1, <2>2, <2>4 DEF KeyInv, KeyAlone
<1>6. OneTransactionPerKey'
  <2>1. \A p \in answers' : \E u \in posted' : <<u.key, u.id>> = p
    BY <1>1, <1>4 DEF KeyInv, OneTransactionPerKey, Answer
  <2>2. ASSUME NEW u \in posted', NEW v \in posted', u.key = v.key,
               u.key # NoKey
        PROVE  u.id = v.id
    <3>1. CASE u \in posted /\ v \in posted
      BY <2>2, <3>1 DEF KeyInv, OneTransactionPerKey
    <3>2. CASE u = t /\ v = t
      BY <3>2
    <3>3. CASE u \in posted /\ v = t
      BY <1>2, <1>4, <2>2, <3>3 DEF Recorded
    <3>4. CASE u = t /\ v \in posted
      BY <1>2, <1>4, <2>2, <3>4 DEF Recorded
    <3>5. QED
      BY <1>1, <3>1, <3>2, <3>3, <3>4
  <2>3. QED
    BY <2>1, <2>2 DEF OneTransactionPerKey
<1>7. QED
  BY <1>3, <1>5, <1>6 DEF KeyInv

LEMMA KeyStep == KeyInv /\ [Next]_vars => KeyInv'
<1> SUFFICES ASSUME KeyInv, [Next]_vars PROVE KeyInv'
  OBVIOUS
<1>0. TypeInv /\ TypeInv' /\ nextTxn \in Nat
  BY TypeStep DEF KeyInv, TypeInv, TypeOK
<1>1. ASSUME NEW c \in Calls, NEW r \in Requests,
             BeginTransfer(c, r) \/ BeginDeposit(c, r) \/ BeginFx(c, r)
      PROVE  KeyInv'
  <2>1. /\ UNCHANGED <<posted, answers, txn, nextTxn>>
        /\ pc[c] = "idle" /\ pc'[c] \in {"lock", "find"}
        /\ \A d \in Calls \ {c} : call'[d] = call[d] /\ pc'[d] = pc[d]
    BY <1>0, <1>1 DEF BeginTransfer, BeginDeposit, BeginFx, Start, Accepted,
       Database, TypeInv, TypeOK
  <2>2. txn[c] = 0
    BY <2>1 DEF KeyInv, TxnHeld
  <2>3. QED
    BY <1>0, <2>1, <2>2, KeyMove
<1>2. CASE UNCHANGED vars
  BY <1>0, <1>2 DEF vars, KeyInv, TxnHeld, KeyFree, KeyAlone,
     OneTransactionPerKey, Recorded
<1>3. ASSUME NEW k \in Keys, ReplyRecorded(k)
      PROVE  KeyInv'
  <2>1. UNCHANGED <<pc, call, txn, nextTxn, posted>>
    BY <1>3 DEF ReplyRecorded
  <2>2. OneTransactionPerKey'
    BY <1>3, <2>1 DEF ReplyRecorded, KeyInv, OneTransactionPerKey
  <2>3. QED
    BY <1>0, <2>1, <2>2
       DEF KeyInv, TxnHeld, KeyFree, KeyAlone, Recorded
<1>4. ASSUME NEW c \in Calls,
             \/ FindRow(c) \/ CreateRow(c) \/ Acquire(c) \/ Timeout(c)
             \/ Check(c)
      PROVE  KeyInv'
  <2>1. /\ UNCHANGED <<call, posted, answers, txn, nextTxn>>
        /\ \A d \in Calls \ {c} : pc'[d] = pc[d]
    BY <1>0, <1>4 DEF FindRow, CreateRow, Acquire, Timeout, Check, FoundRow,
       Database, TypeInv, TypeOK
  <2>2. /\ pc[c] \in {"find", "create", "lock", "insert", "check"}
        /\ pc'[c] \notin {"publish", "commit"}
    BY <1>0, <1>4 DEF FindRow, CreateRow, Acquire, Timeout, Check, FoundRow,
       WaitsFor, TypeInv, TypeOK
  <2>3. txn[c] = 0
    BY <2>2 DEF KeyInv, TxnHeld
  <2>4. QED
    BY <1>0, <2>1, <2>2, <2>3, KeyMove
<1>5. ASSUME NEW c \in Calls, InsertTxn(c)
      PROVE  KeyInv'
  BY <1>0, <1>5, KeyInsert
<1>6. ASSUME NEW c \in Calls, Publish(c)
      PROVE  KeyInv'
  <2>1. /\ UNCHANGED <<call, posted, answers, txn, nextTxn>>
        /\ pc[c] = "publish" /\ pc'[c] = "commit"
        /\ \A d \in Calls \ {c} : pc'[d] = pc[d]
    BY <1>0, <1>6 DEF Publish, TypeInv, TypeOK
  <2>2. QED
    BY <1>0, <2>1, KeyMove
<1>7. ASSUME NEW c \in Calls, Commit(c)
      PROVE  KeyInv'
  BY <1>0, <1>7, KeyCommit
<1>8. ASSUME NEW c \in Calls, Undo(c)
      PROVE  KeyInv'
  <2>1. End(c) /\ posted' = posted /\ answers' = answers
    BY <1>8 DEF Undo
  <2>2. /\ nextTxn' > 0 /\ TxnHeld' /\ KeyAlone'
        /\ \A d \in Calls : txn'[d] # 0 =>
             d # c /\ txn[d] # 0 /\ call'[d] = call[d]
    BY <2>1, KeyEnd
  <2>3. KeyFree'
    BY <2>1, <2>2 DEF KeyInv, KeyFree, Recorded
  <2>4. OneTransactionPerKey'
    BY <2>1 DEF KeyInv, OneTransactionPerKey
  <2>5. QED
    BY <1>0, <2>2, <2>3, <2>4 DEF KeyInv
<1>9. QED
  BY <1>1, <1>2, <1>3, <1>4, <1>5, <1>6, <1>7, <1>8
     DEF Next, Progress, Rollback, Crash, Refuse

LEMMA Keyed == Spec => []KeyInv
BY KeyInit, KeyStep, PTL DEF Spec

\* A key names one transaction, whatever is retried and however often.
THEOREM KeyNamesOne == Spec => []OneTransactionPerKey
<1>1. KeyInv => OneTransactionPerKey
  BY DEF KeyInv
<1>2. QED
  BY <1>1, Keyed, PTL

-----------------------------------------------------------------------------
(* The services implement AtomicLedger: a commit is one atomic operation,  *)
(* every other step leaves balances and spent keys alone.                  *)

\* What the checks have established of an operation: those made before it
\* began, and, once it is underway, those made under its locks.
Checked ==
    \A c \in Calls :
      /\ call[c].kind = "transfer" =>
           /\ call[c].src # call[c].dst
           /\ Underway(c) => /\ CurrencyOf[call[c].src] = call[c].cur
                             /\ CurrencyOf[call[c].dst] = call[c].cur
      /\ call[c].kind = "deposit" => CurrencyOf[call[c].dst] = call[c].cur
      /\ call[c].kind = "fx" =>
           /\ call[c].cur # call[c].tcur
           /\ call[c].got \in Quote[<<call[c].cur, call[c].tcur, call[c].amt>>]
           /\ Underway(c) => /\ CurrencyOf[call[c].src] = call[c].cur
                             /\ CurrencyOf[call[c].dst] = call[c].tcur

CheckedInv == TypeInv /\ Checked

LEMMA CheckedInit == Init => CheckedInv
<1> SUFFICES ASSUME Init PROVE CheckedInv
  OBVIOUS
<1>1. TypeInv
  BY TypeInit
<1>2. Checked
  BY DEF Init, Checked, NoArgs
<1>3. QED
  BY <1>1, <1>2 DEF CheckedInv

\* A step of session c that leaves its arguments alone and is underway
\* afterwards only if it was, or if its check is made by it.
LEMMA CheckedMove ==
    ASSUME TypeInv, Checked, NEW c \in Calls, call' = call,
           \A d \in Calls \ {c} : pc'[d] = pc[d],
           Underway(c)' => Underway(c) \/ Allowed(c)
    PROVE  Checked'
<1> SUFFICES ASSUME NEW d \in Calls
             PROVE  /\ Underway(d)' /\ call[d].kind = "transfer" =>
                         /\ CurrencyOf[call[d].src] = call[d].cur
                         /\ CurrencyOf[call[d].dst] = call[d].cur
                    /\ Underway(d)' /\ call[d].kind = "fx" =>
                         /\ CurrencyOf[call[d].src] = call[d].cur
                         /\ CurrencyOf[call[d].dst] = call[d].tcur
  BY DEF Checked
<1>1. CASE d # c
  <2>1. Underway(d)' => Underway(d)
    BY <1>1 DEF Underway
  <2>2. QED
    BY <2>1 DEF Checked
<1>2. CASE d = c
  BY <1>2 DEF Checked, Allowed, TransferAllowed, FxAllowed
<1>3. QED
  BY <1>1, <1>2

\* A step that gives session c new arguments.
LEMMA CheckedStart ==
    ASSUME TypeInv, Checked, NEW c \in Calls, ~Underway(c)',
           \A d \in Calls \ {c} : pc'[d] = pc[d] /\ call'[d] = call[d],
           call'[c].kind = "transfer" => call'[c].src # call'[c].dst,
           call'[c].kind = "deposit" => CurrencyOf[call'[c].dst] = call'[c].cur,
           call'[c].kind = "fx" =>
             /\ call'[c].cur # call'[c].tcur
             /\ call'[c].got \in
                  Quote[<<call'[c].cur, call'[c].tcur, call'[c].amt>>]
    PROVE  Checked'
<1>1. \A d \in Calls \ {c} : Underway(d)' => Underway(d)
  BY DEF Underway
<1>2. QED
  BY <1>1 DEF Checked

LEMMA CheckedStep == CheckedInv /\ [Next]_vars => CheckedInv'
<1> SUFFICES ASSUME TypeInv, Checked, [Next]_vars
             PROVE  TypeInv' /\ Checked'
  BY DEF CheckedInv
<1>0. TypeInv'
  BY TypeStep
<1>1. ASSUME NEW c \in Calls, NEW r \in Requests, BeginTransfer(c, r)
      PROVE  Checked'
  <2>1. /\ call'[c].kind = "transfer" /\ call'[c].src = r.src
        /\ call'[c].dst = r.dst /\ r.src # r.dst /\ pc'[c] = "lock"
        /\ \A d \in Calls \ {c} : pc'[d] = pc[d] /\ call'[d] = call[d]
    BY <1>1 DEF BeginTransfer, Start, TypeInv, TypeOK
  <2>2. QED
    BY <2>1, CheckedStart DEF Underway
<1>2. ASSUME NEW c \in Calls, NEW r \in Requests, BeginDeposit(c, r)
      PROVE  Checked'
  <2>1. /\ call'[c].kind = "deposit" /\ call'[c].cur = r.cur
        /\ call'[c].dst = r.dst /\ CurrencyOf[r.dst] = r.cur
        /\ pc'[c] = "find"
        /\ \A d \in Calls \ {c} : pc'[d] = pc[d] /\ call'[d] = call[d]
    BY <1>2 DEF BeginDeposit, Start, TypeInv, TypeOK
  <2>2. QED
    BY <2>1, CheckedStart DEF Underway
<1>3. ASSUME NEW c \in Calls, NEW r \in Requests, BeginFx(c, r)
      PROVE  Checked'
  <2>1. PICK q \in Quote[<<r.cur, r.tcur, r.amt>>] : Start(c, r, q)
    BY <1>3 DEF BeginFx
  <2>2. /\ call'[c].kind = "fx" /\ call'[c].cur = r.cur
        /\ call'[c].tcur = r.tcur /\ call'[c].amt = r.amt
        /\ call'[c].got = q /\ r.cur # r.tcur /\ pc'[c] = "find"
        /\ \A d \in Calls \ {c} : pc'[d] = pc[d] /\ call'[d] = call[d]
    BY <1>3, <2>1 DEF BeginFx, Start, TypeInv, TypeOK
  <2>3. QED
    BY <2>1, <2>2, CheckedStart DEF Underway
<1>4. ASSUME UNCHANGED vars \/ \E k \in Keys : ReplyRecorded(k)
      PROVE  Checked'
  BY <1>4 DEF vars, ReplyRecorded, Checked, Underway
<1>5. ASSUME NEW c \in Calls,
             \/ FindRow(c) \/ CreateRow(c) \/ Acquire(c) \/ Timeout(c)
             \/ Check(c) \/ InsertTxn(c) \/ Publish(c)
      PROVE  Checked'
  <2>1. call' = call /\ \A d \in Calls \ {c} : pc'[d] = pc[d]
    BY <1>5 DEF FindRow, CreateRow, Acquire, Timeout, Check, InsertTxn,
       Publish, FoundRow, Database, TypeInv, TypeOK
  <2>2. Underway(c)' => Underway(c) \/ Allowed(c)
    BY <1>5 DEF FindRow, CreateRow, Acquire, Timeout, Check, InsertTxn,
       Publish, FoundRow, Underway, TypeInv, TypeOK
  <2>3. QED
    BY <2>1, <2>2, CheckedMove
<1>6. ASSUME NEW c \in Calls, Commit(c) \/ Undo(c)
      PROVE  Checked'
  <2>1. /\ call'[c].kind = "none" /\ pc'[c] = "idle"
        /\ \A d \in Calls \ {c} : pc'[d] = pc[d] /\ call'[d] = call[d]
    BY <1>6 DEF Commit, Undo, End, NoArgs, TypeInv, TypeOK
  <2>2. QED
    BY <2>1, CheckedStart DEF Underway
<1>7. QED
  BY <1>0, <1>1, <1>2, <1>3, <1>4, <1>5, <1>6
     DEF Next, Progress, Rollback, Crash, Refuse

LEMMA WasChecked == Spec => []CheckedInv
BY CheckedInit, CheckedStep, PTL DEF Spec

-----------------------------------------------------------------------------
(* The commit.                                                             *)

\* Moving m from one account to another adds an entry of -m to the first and
\* one of m to the second, also if the two are the same.
LEMMA MovedEntries ==
    ASSUME NEW bal \in [Accounts -> Int], NEW from, NEW to, NEW m \in Int
    PROVE  /\ Atomic!Moved(bal, from, to, m) \in [Accounts -> Int]
           /\ \A a \in Accounts : Atomic!Moved(bal, from, to, m)[a] =
                bal[a] + Entry(a, from, -m) + Entry(a, to, m)
BY DEF Atomic!Moved, Entry

\* The key of a session that commits is spent by the commit.
LEMMA CommitSpends ==
    ASSUME KeyInv, NEW c \in Calls, Commit(c), NEW r, r = call[c]
    PROVE  Atomic!Spend(r.key)
<1> DEFINE t == [id |-> txn[c], key |-> call[c].key, kind |-> call[c].kind]
           used == {u.key : u \in posted} \ {NoKey}
<1>1. posted' = posted \cup {t} /\ ~Recorded(call[c].key)
  BY DEF Commit, KeyInv, TxnHeld, KeyFree
<1>2. call[c].key \notin used
  BY <1>1 DEF Recorded
<1>3. t.key = call[c].key
  OBVIOUS
<1>4. {u.key : u \in posted'} = {u.key : u \in posted} \cup {call[c].key}
  BY <1>1, <1>3
<1>5. QED
  BY <1>2, <1>4 DEF Atomic!Spend

LEMMA CommitAtomic ==
    ASSUME SafeInv, KeyInv, CheckedInv, NEW c \in Calls, Commit(c)
    PROVE  Atomic!ANext
<1>0. PICK r \in Args : r = call[c]
  BY DEF SafeInv, TypeInv, TypeOK
<1>1. Underway(c) /\ r.kind # "none" /\ balance \in [Accounts -> Int]
  BY <1>0 DEF Commit, Underway, SafeInv, TypeInv, TypeOK, Busy
<1>2. /\ r.kind \in {"transfer", "deposit", "fx"}
      /\ r.src \in Accounts /\ r.dst \in Accounts
      /\ r.amt \in Int /\ r.got \in Int
      /\ r.cur \in Currencies /\ r.tcur \in Currencies
      /\ r.key \in Keys \cup {NoKey}
  BY <1>1, ArgsFields DEF MaybeKey
<1>3. r.amt \in Amounts /\ r.amt > 0
  <2>1. r \in [kind : {"transfer", "deposit", "fx"}, src : Accounts,
               dst : Accounts, amt : Amounts, got : Int, cur : Currencies,
               tcur : Currencies, key : MaybeKey]
    BY <1>1 DEF Args, NoArgs
  <2>2. QED
    BY <1>0, <1>1, <2>1 DEF SafeInv, Positive
<1>4. /\ balance' = [a \in Accounts |-> balance[a] + Entries(r, a)]
      /\ Atomic!Spend(r.key)
  BY <1>0, CommitSpends DEF Commit
<1>5. r.kind \in {"transfer", "fx"} =>
        r.src \in UserAccounts /\ r.amt <= balance[r.src]
  <2>1. r.kind \in {"transfer", "fx"} =>
          balance[r.src] >= r.amt /\ r.src \in UserAccounts
    BY <1>0, <1>1 DEF SafeInv, FundsStayAvailable, DebitsUser,
       Debits
  <2>2. balance[r.src] \in Int
    BY <1>1, <1>2
  <2>3. QED
    BY <1>2, <2>1, <2>2
<1>6. \A k \in Currencies : ClearingId[k] \in Accounts
  BY ClearingNotUser
<1>7. CASE r.kind = "transfer"
  <2>1. /\ r.src # r.dst
        /\ CurrencyOf[r.src] = CurrencyOf[r.dst]
    BY <1>0, <1>1, <1>7 DEF CheckedInv, Checked
  <2>2. balance' = Atomic!Moved(balance, r.src, r.dst, r.amt)
    BY <1>1, <1>2, <1>4, <1>7
       DEF Entries, TransferEntries, Entry, Atomic!Moved
  <2>3. Atomic!Transfer(r.src, r.dst, r.amt, r.key)
    BY <1>3, <1>4, <1>5, <1>7, <2>1, <2>2 DEF Atomic!Transfer
  <2>4. QED
    BY <1>2, <1>3, <1>5, <1>7, <2>3 DEF Atomic!ANext
<1>8. CASE r.kind = "deposit"
  <2>1. ClearingId[r.cur] = Atomic!Clearing(r.dst)
    BY <1>0, <1>8 DEF CheckedInv, Checked, Atomic!Clearing
  <2>2. balance' = Atomic!Moved(balance, ClearingId[r.cur], r.dst, r.amt)
    BY <1>1, <1>2, <1>4, <1>6, <1>8
       DEF Entries, DepositEntries, Entry, Atomic!Moved
  <2>3. Atomic!Deposit(r.dst, r.amt, r.key)
    BY <1>3, <1>4, <2>1, <2>2 DEF Atomic!Deposit
  <2>4. QED
    BY <1>2, <1>3, <2>3 DEF Atomic!ANext
<1>9. CASE r.kind = "fx"
  <2> DEFINE s == ClearingId[r.cur]
             t == ClearingId[r.tcur]
             half == Atomic!Moved(balance, r.src, s, r.amt)
  <2>1. /\ CurrencyOf[r.src] = r.cur /\ CurrencyOf[r.dst] = r.tcur
        /\ r.cur # r.tcur /\ r.got \in Quote[<<r.cur, r.tcur, r.amt>>]
    BY <1>0, <1>1, <1>9 DEF CheckedInv, Checked
  <2>2. s = Atomic!Clearing(r.src) /\ t = Atomic!Clearing(r.dst)
    BY <2>1 DEF Atomic!Clearing
  <2>3. s \in Accounts /\ t \in Accounts
    BY <1>2, <1>6
  <2>4. /\ half \in [Accounts -> Int]
        /\ \A a \in Accounts :
             half[a] = balance[a] + Entry(a, r.src, -r.amt) + Entry(a, s, r.amt)
    BY <1>1, <1>2, MovedEntries
  <2>5. balance' = Atomic!Moved(half, t, r.dst, r.got)
    <3> DEFINE whole == Atomic!Moved(half, t, r.dst, r.got)
    <3>1. whole = [a \in Accounts |-> whole[a]]
      BY DEF Atomic!Moved
    <3>2. ASSUME NEW a \in Accounts
          PROVE  whole[a] = balance[a] + Entries(r, a)
      <4>1. whole[a] = half[a] + Entry(a, t, -r.got) + Entry(a, r.dst, r.got)
        BY <1>2, <2>4, MovedEntries
      <4>2. half[a] = balance[a] + Entry(a, r.src, -r.amt) + Entry(a, s, r.amt)
        BY <2>4
      <4>3. Entries(r, a) = Entry(a, r.src, -r.amt) + Entry(a, s, r.amt)
                              + Entry(a, t, -r.got) + Entry(a, r.dst, r.got)
        BY <1>9 DEF Entries, FxEntries
      <4>4. \A x, n : n \in Int => Entry(a, x, n) \in Int
        BY DEF Entry
      <4>5. balance[a] \in Int
        BY <1>1
      <4> HIDE DEF whole, half, s, t
      <4>6. QED
        BY <1>2, <4>1, <4>2, <4>3, <4>4, <4>5
    <3>3. QED
      BY <1>4, <3>1, <3>2
  <2>6. Atomic!Exchange(r.src, r.dst, r.amt, r.got, r.key)
    BY <1>3, <1>4, <1>5, <1>9, <2>1, <2>2, <2>5 DEF Atomic!Exchange
  <2>7. QED
    BY <1>2, <1>3, <1>5, <1>9, <2>1, <2>6 DEF Atomic!ANext
<1>10. QED
  BY <1>2, <1>7, <1>8, <1>9

-----------------------------------------------------------------------------
LEMMA RefinesInit == Init => Atomic!AInit
BY DEF Init, Atomic!AInit

LEMMA RefinesStep ==
    SafeInv /\ KeyInv /\ CheckedInv /\ [Next]_vars
      => [Atomic!ANext]_(Atomic!avars)
<1> SUFFICES ASSUME SafeInv, KeyInv, CheckedInv, [Next]_vars
             PROVE  Atomic!ANext \/ UNCHANGED Atomic!avars
  OBVIOUS
<1>1. CASE \E c \in Calls : Commit(c)
  BY <1>1, CommitAtomic
<1>2. CASE ~\E c \in Calls : Commit(c)
  <2>1. UNCHANGED <<balance, posted>>
    BY <1>2 DEF Next, Progress, Rollback, Crash, Refuse, BeginTransfer,
       BeginDeposit, BeginFx, ReplyRecorded, FindRow, CreateRow, Acquire,
       Check, InsertTxn, Publish, Undo, Timeout, Database, vars
  <2>2. QED
    BY <2>1 DEF Atomic!avars
<1>3. QED
  BY <1>1, <1>2

\* The operations of transfer_service, deposit_service and fx_service, run by
\* any number of sessions that interleave, wait, fail and crash, change
\* balances and spent keys only as the atomic ledger allows: the locks and
\* the unique key make each of them one step.
THEOREM LedgerIsAtomic == Spec => ImplementsAtomicLedger
<1>1. Spec => [](SafeInv /\ KeyInv /\ CheckedInv)
  BY Safe, Keyed, WasChecked, PTL
<1>2. QED
  BY <1>1, RefinesInit, RefinesStep, PTL
     DEF Spec, ImplementsAtomicLedger, Atomic!ASpec

-----------------------------------------------------------------------------
(* Conservation: what the atomic ledger moves stays in its currency.       *)

\* Moving an amount between two accounts of one currency changes no total.
LEMMA MovedConserves ==
    ASSUME IsFiniteSet(Accounts), NEW bal \in [Accounts -> Int],
           NEW from \in Accounts, NEW to \in Accounts, NEW m \in Int,
           CurrencyOf[from] = CurrencyOf[to], NEW k
    PROVE  /\ Atomic!Moved(bal, from, to, m) \in [Accounts -> Int]
           /\ Total(Atomic!Moved(bal, from, to, m), k) = Total(bal, k)
<1> DEFINE S == {a \in Accounts : CurrencyOf[a] = k}
           debit == [a \in Accounts |-> Entry(a, from, -m)]
           credit == [a \in Accounts |-> Entry(a, to, m)]
           half == [a \in Accounts |-> bal[a] + debit[a]]
           moved == Atomic!Moved(bal, from, to, m)
<1>1. IsFiniteSet(S)
  BY FS_Subset
<1>2. /\ moved \in [Accounts -> Int]
      /\ \A a \in S : /\ bal[a] \in Int /\ debit[a] \in Int
                      /\ credit[a] \in Int /\ half[a] \in Int
                      /\ half[a] = bal[a] + debit[a]
                      /\ moved[a] = half[a] + credit[a]
  BY DEF Atomic!Moved, Entry
<1>3. /\ \A a \in S : debit[a] = IF a = from THEN -m ELSE 0
      /\ \A a \in S : credit[a] = IF a = to THEN m ELSE 0
  BY DEF Entry
<1>4. from \in S <=> to \in S
  OBVIOUS
<1>5. -m \in Int
  OBVIOUS
<1> HIDE DEF S, debit, credit, half, moved
<1>6. SumFunctionOnSet(moved, S)
        = SumFunctionOnSet(half, S) + SumFunctionOnSet(credit, S)
  BY <1>1, <1>2, SumPlus
<1>7. SumFunctionOnSet(half, S)
        = SumFunctionOnSet(bal, S) + SumFunctionOnSet(debit, S)
  BY <1>1, <1>2, SumPlus
<1>8. SumFunctionOnSet(debit, S) = IF from \in S THEN -m ELSE 0
  BY <1>1, <1>3, <1>5, SumPoint
<1>9. SumFunctionOnSet(credit, S) = IF to \in S THEN m ELSE 0
  BY <1>1, <1>3, SumPoint
<1>10. SumFunctionOnSet(bal, S) \in Int
  BY <1>1, <1>2, SumInt
<1>11. SumFunctionOnSet(moved, S) = SumFunctionOnSet(bal, S)
  BY <1>4, <1>6, <1>7, <1>8, <1>9, <1>10
<1> QED BY <1>2, <1>11 DEF Total, S, moved

\* A step of the atomic ledger changes no total.
LEMMA AtomicConserves ==
    ASSUME IsFiniteSet(Accounts), balance \in [Accounts -> Int],
           Atomic!ANext, NEW k
    PROVE  Total(balance', k) = Total(balance, k)
<1>1. PICK m \in Amounts, d \in Accounts, n \in Keys \cup {NoKey} :
        \/ Atomic!Deposit(d, m, n)
        \/ \E s \in UserAccounts :
              \/ Atomic!Transfer(s, d, m, n)
              \/ \E q \in Quote[<<CurrencyOf[s], CurrencyOf[d], m>>] :
                    Atomic!Exchange(s, d, m, q, n)
  BY DEF Atomic!ANext
<1>2. \A a \in Accounts : /\ CurrencyOf[a] \in Currencies
                          /\ Atomic!Clearing(a) \in Accounts
                          /\ CurrencyOf[Atomic!Clearing(a)] = CurrencyOf[a]
  BY AccountsAssumption DEF Atomic!Clearing, Accounts, ClearingIds
<1>3. m \in Int
  BY AmountsAssumption
<1>4. CASE Atomic!Deposit(d, m, n)
  BY <1>2, <1>3, <1>4, MovedConserves DEF Atomic!Deposit
<1>5. ASSUME NEW s \in UserAccounts, Atomic!Transfer(s, d, m, n)
      PROVE  Total(balance', k) = Total(balance, k)
  <2>1. s \in Accounts
    BY DEF Accounts
  <2> QED BY <1>3, <1>5, <2>1, MovedConserves DEF Atomic!Transfer
<1>6. ASSUME NEW s \in UserAccounts,
             NEW q \in Quote[<<CurrencyOf[s], CurrencyOf[d], m>>],
             Atomic!Exchange(s, d, m, q, n)
      PROVE  Total(balance', k) = Total(balance, k)
  <2> DEFINE half == Atomic!Moved(balance, s, Atomic!Clearing(s), m)
  <2>1. s \in Accounts
    BY DEF Accounts
  <2>2. q \in Int
    BY <1>2, <2>1, AmountsAssumption
  <2>3. /\ Atomic!Clearing(s) \in Accounts
        /\ CurrencyOf[s] = CurrencyOf[Atomic!Clearing(s)]
        /\ Atomic!Clearing(d) \in Accounts
        /\ CurrencyOf[Atomic!Clearing(d)] = CurrencyOf[d]
    BY <1>2, <2>1
  <2>4. half \in [Accounts -> Int] /\ Total(half, k) = Total(balance, k)
    <3>1. PICK c \in Accounts : c = Atomic!Clearing(s)
      BY <2>3
    <3>2. CurrencyOf[s] = CurrencyOf[c]
      BY <2>3, <3>1
    <3>3. /\ Atomic!Moved(balance, s, c, m) \in [Accounts -> Int]
          /\ Total(Atomic!Moved(balance, s, c, m), k) = Total(balance, k)
      BY <1>3, <2>1, <3>2, MovedConserves, SMTT(60)
    <3> QED BY <3>1, <3>3
  <2>5. balance' = Atomic!Moved(half, Atomic!Clearing(d), d, q)
    BY <1>6 DEF Atomic!Exchange
  <2> HIDE DEF half
  <2>6. Total(Atomic!Moved(half, Atomic!Clearing(d), d, q), k)
          = Total(half, k)
    BY <1>1, <2>2, <2>3, <2>4, MovedConserves
  <2> QED BY <2>4, <2>5, <2>6
<1> QED BY <1>1, <1>4, <1>5, <1>6

\* With finitely many accounts, however many sessions transfer, deposit and
\* exchange, the balances of each currency, its clearing account's included,
\* keep their sum: the services post what the atomic ledger moves.
THEOREM MoneyIsConserved ==
    ASSUME IsFiniteSet(UserAccounts), IsFiniteSet(Currencies)
    PROVE  Spec => []MoneyConserved
<1>1. IsFiniteSet(Accounts)
  <2> DEFINE id == [c \in Currencies |-> ClearingId[c]]
  <2>1. id \in Surjection(Currencies, ClearingIds)
    BY DEF Surjection, ClearingIds
  <2>2. IsFiniteSet(ClearingIds)
    <3> HIDE DEF id
    <3> QED BY <2>1, FS_Surjection
  <2> QED BY <2>2, FS_Union DEF Accounts
<1>2. Init => MoneyConserved
  BY DEF Init, MoneyConserved
<1>3. SafeInv /\ KeyInv /\ CheckedInv /\ MoneyConserved /\ [Next]_vars
        => MoneyConserved'
  <2> SUFFICES ASSUME SafeInv, KeyInv, CheckedInv, MoneyConserved, [Next]_vars
               PROVE  MoneyConserved'
    OBVIOUS
  <2>1. Atomic!ANext \/ UNCHANGED balance
    BY RefinesStep DEF Atomic!avars
  <2>2. balance \in [Accounts -> Int]
    BY DEF SafeInv, TypeInv, TypeOK
  <2>3. ASSUME NEW k PROVE Total(balance', k) = Total(balance, k)
    BY <1>1, <2>1, <2>2, AtomicConserves
  <2>4. \A k \in Currencies : Total(balance', k) = Total(InitialBalance, k)
    BY <2>3 DEF MoneyConserved
  <2> QED BY <2>4 DEF MoneyConserved, Total
<1>4. Spec => [](SafeInv /\ KeyInv /\ CheckedInv)
  BY Safe, Keyed, WasChecked, PTL
<1> QED BY <1>2, <1>3, <1>4, PTL DEF Spec

=============================================================================
