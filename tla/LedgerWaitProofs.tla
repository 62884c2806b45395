--------------------------- MODULE LedgerWaitProofs -------------------------
(***************************************************************************)
(* Further proofs about LedgerService: only the creation of system rows    *)
(* can close a circle of waiting sessions, the system rows an operation    *)
(* posts to stay, and a commit's event has been handled.                   *)
(***************************************************************************)
EXTENDS LedgerServiceProofs

-----------------------------------------------------------------------------
(* A measure that goes down: natural numbers have a least one.             *)

Below == OpToRel(<, Nat)

\* Every set of natural numbers but the empty one has a least element.
LEMMA LeastNatural ==
    ASSUME NEW T, T \subseteq Nat, T # {}
    PROVE  \E x \in T : \A y \in T : x <= y
<1>1. \A m, n \in Nat : m < n => <<m, n>> \in Below
  BY DEF Below, OpToRel
<1>2. IsWellFoundedOn(Below, Nat)
  BY NatLessThanWellFounded DEF Below
<1>3. PICK x \in T : \A y \in T : ~(<<y, x>> \in Below)
  BY <1>2, WFMin
<1>4. \A y \in T : ~(y < x)
  BY <1>1, <1>3, Zenon
<1>5. \A y \in T : x <= y
  BY <1>4
<1>6. QED
  BY <1>5

\* In a finite set with a rank, not every member is outranked by another.
LEMMA SomeHighest ==
    ASSUME NEW S, IsFiniteSet(S), S # {}, NEW f \in [S -> Nat]
    PROVE  \E c \in S : \A d \in S : f[d] <= f[c]
<1> SUFFICES ASSUME \A c \in S : \E d \in S : f[d] > f[c]
             PROVE  FALSE
  OBVIOUS
<1> DEFINE Higher(c) == {e \in S : f[e] > f[c]}
<1> DEFINE T == {Cardinality(Higher(c)) : c \in S}
<1>1. \A c \in S : IsFiniteSet(Higher(c)) /\ Cardinality(Higher(c)) \in Nat
  BY FS_Subset, FS_CardinalityType
<1>2. PICK m \in T : \A n \in T : m <= n
  <2>1. T \subseteq Nat /\ T # {}
    BY <1>1
  <2> HIDE DEF T
  <2>2. QED
    BY <2>1, LeastNatural
<1>3. PICK c \in S : m = Cardinality(Higher(c))
  OBVIOUS
<1>4. PICK d \in S : f[d] > f[c]
  OBVIOUS
<1>5. d \in Higher(c)
  BY <1>4
<1>6. Higher(d) \subseteq Higher(c) \ {d}
  BY <1>4
<1>7. /\ IsFiniteSet(Higher(c) \ {d})
      /\ Cardinality(Higher(c) \ {d}) = Cardinality(Higher(c)) - 1
  BY <1>1, <1>5, FS_RemoveElement
<1>8. Cardinality(Higher(d)) <= Cardinality(Higher(c)) - 1
  BY <1>6, <1>7, FS_Subset
<1>9. m <= Cardinality(Higher(d))
  BY <1>2
<1> HIDE DEF Higher
<1>10. QED
  BY <1>1, <1>3, <1>8, <1>9

-----------------------------------------------------------------------------
(* Circular waits.                                                         *)

\* A session holds no account before it begins to lock.
NothingBefore ==
    \A c \in Calls, a \in Accounts :
        pc[c] \in {"idle", "find", "create"} => owner[a] # c

\* While it locks, what it holds comes before what it has still to lock.
LocksInOrder ==
    \A c \in Calls, a \in Accounts :
        pc[c] = "lock" /\ owner[a] = c => \A b \in toLock[c] : a < b

OrderInv == TypeInv /\ NothingBefore /\ LocksInOrder

LEMMA AccountsNat == Accounts \subseteq Nat
BY AccountsAssumption DEF Accounts, ClearingIds

LEMMA OrderInit == Init => OrderInv
<1> SUFFICES ASSUME Init PROVE OrderInv
  OBVIOUS
<1>1. TypeInv
  BY TypeInit
<1>2. NothingBefore /\ LocksInOrder
  BY CallsAssumption DEF Init, NothingBefore, LocksInOrder
<1>3. QED
  BY <1>1, <1>2 DEF OrderInv

\* A step of session c that takes no lock.
LEMMA OrderMove ==
    ASSUME OrderInv, NEW c \in Calls,
           \A d \in Calls \ {c} : pc'[d] = pc[d] /\ toLock'[d] = toLock[d],
           \A a \in Accounts, d \in Calls : owner'[a] = d => owner[a] = d,
           \/ pc[c] \in {"idle", "find", "create"}
           \/ pc'[c] = "idle" /\ \A a \in Accounts : owner'[a] # c
           \/ pc'[c] \notin {"idle", "find", "create", "lock"}
    PROVE  (NothingBefore /\ LocksInOrder)'
<1>1. NothingBefore'
  BY DEF OrderInv, NothingBefore
<1>2. LocksInOrder'
  BY DEF OrderInv, NothingBefore, LocksInOrder
<1>3. QED
  BY <1>1, <1>2

\* The account locked next is the least of those to lock.
LEMMA OrderAcquire ==
    ASSUME OrderInv, NEW c \in Calls, Acquire(c)
    PROVE  (NothingBefore /\ LocksInOrder)'
<1>1. PICK a \in Accounts :
        /\ NextToLock(c, a)
        /\ owner' = IF AccountSeen(c, a) THEN [owner EXCEPT ![a] = c]
                                         ELSE owner
        /\ toLock' = [toLock EXCEPT ![c] = @ \ {a}]
        /\ pc' = IF toLock[c] = {a} THEN [pc EXCEPT ![c] = "check"] ELSE pc
  BY DEF Acquire
<1>2. /\ pc[c] = "lock" /\ pc'[c] \in {"lock", "check"}
      /\ toLock'[c] = toLock[c] \ {a} /\ toLock[c] \subseteq Accounts
      /\ \A d \in Calls \ {c} : pc'[d] = pc[d] /\ toLock'[d] = toLock[d]
  BY <1>1 DEF Acquire, OrderInv, TypeInv, TypeOK
<1>3. \A b \in Accounts, d \in Calls :
        owner'[b] = d => owner[b] = d \/ (b = a /\ d = c)
  BY <1>1 DEF OrderInv, TypeInv, TypeOK
<1>4. \A b \in toLock'[c] : a < b
  <2>1. \A b \in toLock[c] : a <= b /\ b \in Nat /\ a \in Nat
    BY <1>1, <1>2, AccountsNat DEF NextToLock
  <2>2. QED
    BY <1>2, <2>1
<1>5. NothingBefore'
  BY <1>2, <1>3 DEF OrderInv, NothingBefore
<1>6. LocksInOrder'
  <2> SUFFICES ASSUME NEW d \in Calls, NEW b \in Accounts,
                      pc'[d] = "lock", owner'[b] = d, NEW e \in toLock'[d]
               PROVE  b < e
    BY DEF LocksInOrder
  <2>1. CASE b = a /\ d = c
    BY <1>4, <2>1
  <2>2. CASE owner[b] = d /\ d = c
    BY <1>2, <2>2 DEF OrderInv, LocksInOrder
  <2>3. CASE owner[b] = d /\ d # c
    BY <1>2, <2>3 DEF OrderInv, LocksInOrder
  <2>4. QED
    BY <1>3, <2>1, <2>2, <2>3
<1>7. QED
  BY <1>5, <1>6

LEMMA OrderStep == OrderInv /\ [Next]_vars => OrderInv'
<1> SUFFICES ASSUME OrderInv, [Next]_vars
             PROVE  (NothingBefore /\ LocksInOrder)'
  BY TypeStep DEF OrderInv
<1> USE DEF OrderInv
<1>1. ASSUME NEW c \in Calls, NEW r \in Requests,
             BeginTransfer(c, r) \/ BeginDeposit(c, r) \/ BeginFx(c, r)
      PROVE  (NothingBefore /\ LocksInOrder)'
  <2>1. /\ pc[c] = "idle" /\ owner' = owner
        /\ \A d \in Calls \ {c} : pc'[d] = pc[d] /\ toLock'[d] = toLock[d]
    BY <1>1 DEF BeginTransfer, BeginDeposit, BeginFx, Accepted, Database,
       TypeInv, TypeOK
  <2>2. QED
    BY <2>1, OrderMove
<1>2. ASSUME UNCHANGED vars \/ \E k \in Keys : ReplyRecorded(k)
      PROVE  (NothingBefore /\ LocksInOrder)'
  <2>1. UNCHANGED <<pc, toLock, owner>>
    BY <1>2 DEF vars, ReplyRecorded
  <2>2. QED
    BY <2>1 DEF NothingBefore, LocksInOrder
<1>3. ASSUME NEW c \in Calls,
             \/ FindRow(c) \/ CreateRow(c) \/ Check(c) \/ InsertTxn(c)
             \/ Publish(c) \/ Timeout(c)
      PROVE  (NothingBefore /\ LocksInOrder)'
  <2>1. /\ owner' = owner
        /\ \A d \in Calls \ {c} : pc'[d] = pc[d] /\ toLock'[d] = toLock[d]
    BY <1>3 DEF FindRow, CreateRow, Check, InsertTxn, Publish, Timeout,
       FoundRow, Database, TypeInv, TypeOK
  <2>2. \/ pc[c] \in {"find", "create"}
        \/ pc'[c] \in {"insert", "failed", "publish", "commit"}
    BY <1>3 DEF FindRow, CreateRow, Check, InsertTxn, Publish, Timeout,
       TypeInv, TypeOK
  <2>3. QED
    BY <2>1, <2>2, OrderMove
<1>4. ASSUME NEW c \in Calls, Acquire(c)
      PROVE  (NothingBefore /\ LocksInOrder)'
  BY <1>4, OrderAcquire
<1>5. ASSUME NEW c \in Calls, Commit(c) \/ Undo(c)
      PROVE  (NothingBefore /\ LocksInOrder)'
  <2>1. End(c)
    BY <1>5 DEF Commit, Undo
  <2>2. /\ pc'[c] = "idle"
        /\ \A d \in Calls \ {c} : pc'[d] = pc[d] /\ toLock'[d] = toLock[d]
    BY <2>1 DEF End, TypeInv, TypeOK
  <2>3. \A a \in Accounts, d \in Calls :
          owner'[a] = d => owner[a] = d /\ d # c
    BY <2>1, CallsAssumption DEF End, TypeInv, TypeOK
  <2>4. QED
    BY <2>2, <2>3, OrderMove
<1>6. QED
  BY <1>1, <1>2, <1>3, <1>4, <1>5
     DEF Next, Progress, Rollback, Crash, Refuse

LEMMA Ordered == Spec => []OrderInv
BY OrderInit, OrderStep, PTL DEF Spec

\* In a circle without a creation everybody waits for a row lock, and for a
\* session that waits for a later one in turn.
LEMMA WaitsUpwards ==
    ASSUME OrderInv, TxnHeld, NEW S \in SUBSET Calls,
           \A c \in S : \E d \in S : WaitsFor(c, d),
           \A c \in S : pc[c] # "create"
    PROVE  \A c \in S :
             /\ \E a \in Accounts : NextToLock(c, a)
             /\ \E d \in S, a, b \in Accounts :
                  NextToLock(c, a) /\ NextToLock(d, b) /\ a < b
<1>1. \A c \in S : pc[c] \in {"lock", "insert"}
  BY DEF WaitsFor
<1>2. \A c \in S, d \in S : ~KeyHeld(d, call[c].key)
  BY <1>1 DEF KeyHeld, TxnHeld
<1>3. \A c \in S :
        /\ pc[c] = "lock"
        /\ \E d \in S, a \in Accounts : NextToLock(c, a) /\ owner[a] = d
  BY <1>1, <1>2 DEF WaitsFor
<1> SUFFICES ASSUME NEW c \in S
             PROVE  \E d \in S, a, b \in Accounts :
                      NextToLock(c, a) /\ NextToLock(d, b) /\ a < b
  BY <1>3
<1>4. PICK d \in S, a \in Accounts : NextToLock(c, a) /\ owner[a] = d
  BY <1>3
<1>5. PICK b \in Accounts : NextToLock(d, b)
  BY <1>3
<1>6. a < b
  BY <1>3, <1>4, <1>5 DEF OrderInv, LocksInOrder, NextToLock
<1>7. QED
  BY <1>4, <1>5, <1>6

\* A state in which the locks are in order has no circle of row locks and
\* keys: the account waited for would go up for ever.
LEMMA NoCircle ==
    ASSUME IsFiniteSet(Calls), OrderInv, TxnHeld
    PROVE  DeadlockOnlyOnCreation
<1> SUFFICES ASSUME NEW S \in (SUBSET Calls) \ {{}},
                    \A c \in S : \E d \in S : WaitsFor(c, d),
                    \A c \in S : pc[c] # "create"
             PROVE  FALSE
  BY DEF DeadlockOnlyOnCreation
<1> DEFINE f == [c \in S |-> CHOOSE a \in Accounts : NextToLock(c, a)]
<1>0. \A c \in S :
        /\ \E a \in Accounts : NextToLock(c, a)
        /\ \E d \in S, a, b \in Accounts :
             NextToLock(c, a) /\ NextToLock(d, b) /\ a < b
  BY WaitsUpwards
<1>1. ASSUME NEW c \in S PROVE f[c] \in Accounts /\ NextToLock(c, f[c])
  <2>1. \E a \in Accounts : NextToLock(c, a)
    BY <1>0
  <2>2. f[c] = CHOOSE a \in Accounts : NextToLock(c, a)
    OBVIOUS
  <2> HIDE DEF f
  <2>3. QED
    BY <2>1, <2>2
<1> HIDE DEF f
<1>2. ASSUME NEW c \in S, NEW a \in Accounts, NextToLock(c, a)
      PROVE  a = f[c]
  <2>1. a \in Nat /\ f[c] \in Nat
    BY <1>1, AccountsNat
  <2>2. a <= f[c] /\ f[c] <= a
    BY <1>1, <1>2 DEF NextToLock
  <2>3. QED
    BY <2>1, <2>2
<1>3. f \in [S -> Nat]
  BY <1>1, AccountsNat DEF f
<1>4. ASSUME NEW c \in S PROVE \E d \in S : f[c] < f[d]
  <2>1. PICK d \in S, a \in Accounts, b \in Accounts :
          NextToLock(c, a) /\ NextToLock(d, b) /\ a < b
    BY <1>0
  <2>2. a = f[c] /\ b = f[d]
    BY <1>2, <2>1
  <2>3. QED
    BY <2>1, <2>2
<1>5. IsFiniteSet(S) /\ S # {}
  <2>1. S \in SUBSET Calls /\ S # {}
    OBVIOUS
  <2>2. IsFiniteSet(S)
    BY <2>1, FS_Subset
  <2>3. QED
    BY <2>1, <2>2
<1>6. PICK c \in S : \A d \in S : f[d] <= f[c]
  BY <1>3, <1>5, SomeHighest
<1>7. PICK d \in S : f[c] < f[d]
  BY <1>4
<1>8. f[d] <= f[c] /\ f[c] \in Nat /\ f[d] \in Nat
  BY <1>3, <1>6
<1>9. QED
  BY <1>7, <1>8

\* Sorted row locks and the unique key alone never deadlock, for any finite
\* number of sessions: every circle has a session that creates a system row.
THEOREM OnlyCreationDeadlocks ==
    ASSUME IsFiniteSet(Calls)
    PROVE  Spec => []DeadlockOnlyOnCreation
<1>1. OrderInv /\ KeyInv => DeadlockOnlyOnCreation
  BY NoCircle DEF KeyInv
<1>2. QED
  BY <1>1, Ordered, Keyed, PTL

\* All system rows are there, so no session has one to create.
RowsThere ==
    /\ \A x \in Rows : row[x] = Present
    /\ \A c \in Calls : pc[c] # "create"

LEMMA RowsThereStep ==
    TypeInv /\ RowsThere /\ [Next]_vars => (TypeInv /\ RowsThere)'
<1> SUFFICES ASSUME TypeInv, RowsThere, [Next]_vars PROVE RowsThere'
  BY TypeStep
<1>1. \A x \in Rows : row'[x] = Present
  <2>1. ASSUME NEW c \in Calls, Commit(c) \/ Undo(c)
        PROVE  \A x \in Rows : row'[x] = Present
    BY <2>1, CallsAssumption DEF Commit, Undo, RowsThere
  <2>2. ASSUME NEW c \in Calls, FindRow(c) \/ CreateRow(c) \/ Acquire(c)
                 \/ Check(c) \/ InsertTxn(c) \/ Publish(c) \/ Timeout(c)
        PROVE  row' = row
    BY <2>2 DEF FindRow, CreateRow, Acquire, Check, InsertTxn, Publish,
       Timeout, Database, RowsThere
  <2>3. ASSUME NEW c \in Calls, NEW r \in Requests,
               BeginTransfer(c, r) \/ BeginDeposit(c, r) \/ BeginFx(c, r)
        PROVE  row' = row
    BY <2>3 DEF BeginTransfer, BeginDeposit, BeginFx, Database
  <2>4. ASSUME UNCHANGED vars \/ \E k \in Keys : ReplyRecorded(k)
        PROVE  row' = row
    BY <2>4 DEF vars, ReplyRecorded
  <2>5. row' = row => \A x \in Rows : row'[x] = Present
    BY DEF RowsThere
  <2>6. QED
    BY <2>1, <2>2, <2>3, <2>4, <2>5
       DEF Next, Progress, Rollback, Crash, Refuse
<1>2. \A d \in Calls : pc'[d] # "create"
  <2>1. ASSUME NEW c \in Calls, FindRow(c)
        PROVE  \A d \in Calls : pc'[d] # "create"
    <3>1. RowSeen(c, seek[c])
      BY DEF RowsThere, RowSeen, TypeInv, TypeOK
    <3>2. QED
      BY <2>1, <3>1 DEF FindRow, FoundRow, RowsThere, TypeInv, TypeOK
  <2>2. ASSUME NEW c \in Calls, Commit(c) \/ Undo(c)
        PROVE  \A d \in Calls : pc'[d] # "create"
    BY <2>2 DEF Commit, Undo, End, RowsThere, TypeInv, TypeOK
  <2>3. ASSUME NEW c \in Calls, CreateRow(c) \/ Acquire(c) \/ Check(c)
                 \/ InsertTxn(c) \/ Publish(c) \/ Timeout(c)
        PROVE  \A d \in Calls : pc'[d] # "create"
    BY <2>3 DEF CreateRow, Acquire, Check, InsertTxn, Publish, Timeout,
       RowsThere, TypeInv, TypeOK
  <2>4. ASSUME NEW c \in Calls, NEW r \in Requests,
               BeginTransfer(c, r) \/ BeginDeposit(c, r) \/ BeginFx(c, r)
        PROVE  \A d \in Calls : pc'[d] # "create"
    BY <2>4 DEF BeginTransfer, BeginDeposit, BeginFx, RowsThere, TypeInv,
       TypeOK
  <2>5. ASSUME UNCHANGED vars \/ \E k \in Keys : ReplyRecorded(k)
        PROVE  \A d \in Calls : pc'[d] # "create"
    BY <2>5 DEF vars, ReplyRecorded, RowsThere
  <2>6. QED
    BY <2>1, <2>2, <2>3, <2>4, <2>5
       DEF Next, Progress, Rollback, Crash, Refuse
<1>3. QED
  BY <1>1, <1>2 DEF RowsThere

\* Once the clearing accounts of all currencies exist, no circle of waits
\* forms at all: lock_accounts' order is enough, for any number of sessions.
THEOREM NothingDeadlocks ==
    ASSUME IsFiniteSet(Calls), InitialRows \subseteq {Rows}
    PROVE  Spec => []NoWaitCycle
<1>1. Init => TypeInv /\ RowsThere
  <2> SUFFICES ASSUME Init PROVE TypeInv /\ RowsThere
    OBVIOUS
  <2>1. row = [x \in Rows |-> Present]
    BY DEF Init
  <2>2. \A c \in Calls : pc[c] # "create"
    BY DEF Init
  <2>3. QED
    BY <2>1, <2>2, TypeInit DEF RowsThere
<1>2. Spec => [](TypeInv /\ RowsThere)
  BY <1>1, RowsThereStep, PTL DEF Spec
<1>3. RowsThere /\ DeadlockOnlyOnCreation => NoWaitCycle
  BY DEF RowsThere, DeadlockOnlyOnCreation, NoWaitCycle
<1>4. Spec => []DeadlockOnlyOnCreation
  BY OnlyCreationDeadlocks
<1>5. QED
  BY <1>2, <1>3, <1>4, PTL

-----------------------------------------------------------------------------
(* The system rows.                                                        *)

\* The rows found or created so far, in the order get_or_create asks for them.
RowsSoFar ==
    \A c \in Calls :
        pc[c] \in {"find", "create"} =>
          /\ seek[c] \in {SystemUser, call[c].cur, call[c].tcur}
          /\ seek[c] # SystemUser => RowSeen(c, SystemUser)
          /\ seek[c] \notin {SystemUser, call[c].cur} => RowSeen(c, call[c].cur)

RowInv == TypeInv /\ RowsSoFar /\ ClearingRowsStay

LEMMA RowInit == Init => RowInv
<1> SUFFICES ASSUME Init PROVE RowInv
  OBVIOUS
<1>1. TypeInv
  BY TypeInit
<1>2. RowsSoFar /\ ClearingRowsStay
  BY DEF Init, RowsSoFar, ClearingRowsStay
<1>3. QED
  BY <1>1, <1>2 DEF RowInv

\* The rows of an operation underway are rows, and its currencies are not the
\* system user.
LEMMA CallRows ==
    ASSUME TypeInv, NEW c \in Calls, pc[c] # "idle"
    PROVE  /\ call[c].cur \in Rows \ {SystemUser}
           /\ call[c].tcur \in Rows \ {SystemUser}
<1>1. call[c] \in Args /\ call[c].kind # "none"
  BY DEF TypeInv, TypeOK, Busy
<1>2. QED
  BY <1>1, ArgsFields, AccountsAssumption DEF Rows

\* A step of session c after which the others see what they saw, and c what
\* it needs.
LEMMA RowMove ==
    ASSUME RowInv, NEW c \in Calls,
           \A d \in Calls \ {c} : /\ call'[d] = call[d] /\ pc'[d] = pc[d]
                                  /\ seek'[d] = seek[d],
           \A x \in Rows, d \in Calls \ {c} :
              RowSeen(d, x) => row'[x] \in {Present, d},
           \/ pc'[c] \in {"idle", "failed"}
           \/ pc'[c] = "find" /\ seek'[c] = SystemUser
           \/ pc'[c] = "lock" /\ call'[c].kind = "transfer"
           \/ /\ \A x \in Rows : RowSeen(c, x) => row'[x] \in {Present, c}
              /\ call'[c] = call[c]
              /\ \/ pc[c] = "find" /\ pc'[c] = "create" /\ seek'[c] = seek[c]
                 \/ /\ pc[c] \in {"lock", "check", "insert", "publish"}
                    /\ pc'[c] \in {"lock", "check", "insert", "publish",
                                   "commit"}
    PROVE  (RowsSoFar /\ ClearingRowsStay)'
<1>1. ASSUME NEW d \in Calls \ {c}, pc'[d] # "idle"
      PROVE  \A x \in {SystemUser, call[d].cur, call[d].tcur} :
                RowSeen(d, x) => row'[x] \in {Present, d}
  BY <1>1, CallRows DEF RowInv, Rows
<1>2. pc[c] # "idle" =>
        /\ call[c].cur \in Rows /\ call[c].tcur \in Rows
  BY CallRows DEF RowInv
<1>3. SystemUser \in Rows
  BY DEF Rows
<1>4. ASSUME NEW d \in Calls, pc'[d] \in {"find", "create"}
      PROVE  /\ seek'[d] \in {SystemUser, call'[d].cur, call'[d].tcur}
             /\ seek'[d] # SystemUser => row'[SystemUser] \in {Present, d}
             /\ seek'[d] \notin {SystemUser, call'[d].cur} =>
                  row'[call'[d].cur] \in {Present, d}
  <2>1. CASE d # c
    BY <1>1, <1>4, <2>1 DEF RowInv, RowsSoFar, RowSeen
  <2>2. CASE d = c
    BY <1>2, <1>3, <1>4, <2>2 DEF RowInv, RowsSoFar, RowSeen
  <2>3. QED
    BY <2>1, <2>2
<1>5. ASSUME NEW d \in Calls,
             pc'[d] \in {"lock", "check", "insert", "publish", "commit"},
             call'[d].kind \in {"deposit", "fx"}
      PROVE  /\ row'[SystemUser] \in {Present, d}
             /\ row'[call'[d].cur] \in {Present, d}
             /\ row'[call'[d].tcur] \in {Present, d}
  <2>1. CASE d # c
    BY <1>1, <1>5, <2>1 DEF RowInv, ClearingRowsStay, RowSeen
  <2>2. CASE d = c
    BY <1>2, <1>3, <1>5, <2>2 DEF RowInv, ClearingRowsStay, RowSeen
  <2>3. QED
    BY <2>1, <2>2
<1>6. RowsSoFar'
  BY <1>4 DEF RowsSoFar, RowSeen
<1>7. ClearingRowsStay'
  BY <1>5 DEF ClearingRowsStay, RowSeen
<1>8. QED
  BY <1>6, <1>7

\* The row looked for has been found or created: the next one, or the locks.
LEMMA RowFound ==
    ASSUME RowInv, NEW c \in Calls, pc[c] \in {"find", "create"},
           FoundRow(c), row'[seek[c]] \in {Present, c}, UNCHANGED call,
           \A x \in Rows, d \in Calls :
              RowSeen(d, x) => row'[x] \in {Present, d}
    PROVE  (RowsSoFar /\ ClearingRowsStay)'
<1>0. /\ call[c].cur \in Rows \ {SystemUser}
      /\ call[c].tcur \in Rows \ {SystemUser} /\ SystemUser \in Rows
  BY CallRows DEF RowInv, Rows
<1>1. \A d \in Calls \ {c} : pc'[d] = pc[d] /\ seek'[d] = seek[d]
  BY DEF FoundRow, RowInv, TypeInv, TypeOK
<1>2. ASSUME NEW d \in Calls \ {c}, pc'[d] # "idle"
      PROVE  \A x \in {SystemUser, call[d].cur, call[d].tcur} :
                RowSeen(d, x) => row'[x] \in {Present, d}
  BY <1>1, <1>2, CallRows DEF RowInv, Rows
<1>3. \/ seek[c] = SystemUser /\ pc'[c] = "find" /\ seek'[c] = call[c].cur
      \/ /\ seek[c] = call[c].cur /\ call[c].tcur # call[c].cur
         /\ pc'[c] = "find" /\ seek'[c] = call[c].tcur
      \/ seek[c] = call[c].tcur /\ pc'[c] = "lock"
  BY DEF FoundRow, RowInv, TypeInv, TypeOK
<1>4. /\ seek[c] # SystemUser => row'[SystemUser] \in {Present, c}
      /\ seek[c] \notin {SystemUser, call[c].cur} =>
           row'[call[c].cur] \in {Present, c}
  BY <1>0 DEF RowInv, RowsSoFar
<1>5. pc'[c] = "find" =>
        /\ seek'[c] \in {call[c].cur, call[c].tcur}
        /\ row'[SystemUser] \in {Present, c}
        /\ seek'[c] # call[c].cur => row'[call[c].cur] \in {Present, c}
  <2>1. CASE seek[c] = SystemUser
    BY <1>0, <1>3, <2>1 DEF RowSeen
  <2>2. CASE seek[c] # SystemUser
    BY <1>0, <1>3, <1>4, <2>2 DEF RowSeen
  <2>3. QED
    BY <2>1, <2>2
<1>6. pc'[c] = "lock" =>
        /\ row'[SystemUser] \in {Present, c}
        /\ row'[call[c].cur] \in {Present, c}
        /\ row'[call[c].tcur] \in {Present, c}
  BY <1>0, <1>3, <1>4 DEF RowSeen
<1>7. RowsSoFar'
  <2> SUFFICES ASSUME NEW d \in Calls, pc'[d] \in {"find", "create"}
               PROVE  /\ seek'[d] \in {SystemUser, call[d].cur, call[d].tcur}
                      /\ seek'[d] # SystemUser =>
                           row'[SystemUser] \in {Present, d}
                      /\ seek'[d] \notin {SystemUser, call[d].cur} =>
                           row'[call[d].cur] \in {Present, d}
    BY DEF RowsSoFar, RowSeen
  <2>1. CASE d # c
    BY <1>1, <1>2, <2>1 DEF RowInv, RowsSoFar
  <2>2. CASE d = c
    BY <1>3, <1>5, <2>2
  <2>3. QED
    BY <2>1, <2>2
<1>8. ClearingRowsStay'
  <2> SUFFICES ASSUME NEW d \in Calls,
                 pc'[d] \in {"lock", "check", "insert", "publish", "commit"},
                 call[d].kind \in {"deposit", "fx"}
               PROVE  /\ row'[SystemUser] \in {Present, d}
                      /\ row'[call[d].cur] \in {Present, d}
                      /\ row'[call[d].tcur] \in {Present, d}
    BY DEF ClearingRowsStay, RowSeen
  <2>1. CASE d # c
    BY <1>1, <1>2, <2>1 DEF RowInv, ClearingRowsStay
  <2>2. CASE d = c
    BY <1>3, <1>6, <2>2
  <2>3. QED
    BY <2>1, <2>2
<1>9. QED
  BY <1>7, <1>8

LEMMA RowStep == RowInv /\ [Next]_vars => RowInv'
<1> SUFFICES ASSUME RowInv, [Next]_vars
             PROVE  (RowsSoFar /\ ClearingRowsStay)'
  BY TypeStep DEF RowInv
<1>0. TypeInv
  BY DEF RowInv
<1>1. ASSUME NEW c \in Calls, NEW r \in Requests,
             BeginTransfer(c, r) \/ BeginDeposit(c, r) \/ BeginFx(c, r)
      PROVE  (RowsSoFar /\ ClearingRowsStay)'
  <2>1. /\ row' = row
        /\ \A d \in Calls \ {c} : /\ call'[d] = call[d] /\ pc'[d] = pc[d]
                                  /\ seek'[d] = seek[d]
        /\ \/ pc'[c] = "find" /\ seek'[c] = SystemUser
           \/ pc'[c] = "lock" /\ call'[c].kind = "transfer"
    BY <1>0, <1>1 DEF BeginTransfer, BeginDeposit, BeginFx, Start, Database,
       TypeInv, TypeOK
  <2>2. QED
    BY <2>1, RowMove DEF RowSeen
<1>2. ASSUME UNCHANGED vars \/ \E k \in Keys : ReplyRecorded(k)
      PROVE  (RowsSoFar /\ ClearingRowsStay)'
  <2>1. UNCHANGED <<pc, call, seek, row>>
    BY <1>2 DEF vars, ReplyRecorded
  <2>2. QED
    BY <2>1 DEF RowInv, RowsSoFar, ClearingRowsStay, RowSeen
<1>3. ASSUME NEW c \in Calls, FindRow(c)
      PROVE  (RowsSoFar /\ ClearingRowsStay)'
  <2>1. pc[c] = "find" /\ UNCHANGED <<call, row>>
    BY <1>3 DEF FindRow, Database
  <2>2. CASE RowSeen(c, seek[c])
    <3>1. FoundRow(c)
      BY <1>3, <2>2 DEF FindRow
    <3>2. QED
      BY <2>1, <2>2, <3>1, RowFound DEF RowSeen
  <2>3. CASE ~RowSeen(c, seek[c])
    <3>1. /\ pc'[c] = "create" /\ UNCHANGED seek
          /\ \A d \in Calls \ {c} : pc'[d] = pc[d]
      BY <1>0, <1>3, <2>3 DEF FindRow, TypeInv, TypeOK
    <3>2. QED
      BY <2>1, <3>1, RowMove DEF RowSeen
  <2>4. QED
    BY <2>2, <2>3
<1>4. ASSUME NEW c \in Calls, CreateRow(c)
      PROVE  (RowsSoFar /\ ClearingRowsStay)'
  <2>1. CASE row[seek[c]] = Absent /\ row' = [row EXCEPT ![seek[c]] = c]
             /\ FoundRow(c)
    <3>1. row'[seek[c]] \in {Present, c}
      BY <1>0, <2>1 DEF TypeInv, TypeOK
    <3>2. \A x \in Rows, d \in Calls :
            RowSeen(d, x) => row'[x] \in {Present, d}
      BY <1>0, <2>1, CallsAssumption DEF RowSeen, Absent, Present, TypeInv,
         TypeOK
    <3>3. QED
      BY <1>4, <2>1, <3>1, <3>2, RowFound DEF CreateRow
  <2>2. CASE pc' = [pc EXCEPT ![c] = "failed"] /\ UNCHANGED <<row, seek>>
    <3>1. /\ pc'[c] = "failed" /\ UNCHANGED <<row, seek, call>>
          /\ \A d \in Calls \ {c} : pc'[d] = pc[d]
      BY <1>0, <1>4, <2>2 DEF CreateRow, TypeInv, TypeOK
    <3>2. QED
      BY <3>1, RowMove DEF RowSeen
  <2>3. QED
    BY <1>4, <2>1, <2>2 DEF CreateRow
<1>5. ASSUME NEW c \in Calls,
             \/ Acquire(c) \/ Check(c) \/ InsertTxn(c) \/ Publish(c)
             \/ Timeout(c)
      PROVE  (RowsSoFar /\ ClearingRowsStay)'
  <2>1. /\ UNCHANGED <<call, seek, row>>
        /\ \A d \in Calls \ {c} : pc'[d] = pc[d]
    BY <1>0, <1>5 DEF Acquire, Check, InsertTxn, Publish, Timeout, Database,
       TypeInv, TypeOK
  <2>2. \/ pc'[c] = "failed"
        \/ /\ pc[c] \in {"lock", "check", "insert", "publish"}
           /\ pc'[c] \in {"lock", "check", "insert", "publish", "commit"}
    BY <1>0, <1>5 DEF Acquire, Check, InsertTxn, Publish, Timeout, TypeInv,
       TypeOK
  <2>3. QED
    BY <2>1, <2>2, RowMove DEF RowSeen
<1>6. ASSUME NEW c \in Calls, Commit(c) \/ Undo(c)
      PROVE  (RowsSoFar /\ ClearingRowsStay)'
  <2>1. End(c)
    BY <1>6 DEF Commit, Undo
  <2>2. /\ pc'[c] = "idle"
        /\ \A d \in Calls \ {c} : /\ call'[d] = call[d] /\ pc'[d] = pc[d]
                                  /\ seek'[d] = seek[d]
    BY <1>0, <2>1 DEF End, TypeInv, TypeOK
  <2>3. \A x \in Rows, d \in Calls \ {c} :
          RowSeen(d, x) => row'[x] \in {Present, d}
    BY <1>0, <1>6, CallsAssumption DEF Commit, Undo, RowSeen, TypeInv, TypeOK
  <2>4. QED
    BY <2>2, <2>3, RowMove
<1>7. QED
  BY <1>1, <1>2, <1>3, <1>4, <1>5, <1>6
     DEF Next, Progress, Rollback, Crash, Refuse

\* No rollback of another session takes a system row away from an operation
\* that is about to post to its account, for any number of sessions.
THEOREM SystemRowsStay == Spec => []ClearingRowsStay
<1>1. Spec => []RowInv
  BY RowInit, RowStep, PTL DEF Spec
<1>2. RowInv => ClearingRowsStay
  BY DEF RowInv
<1>3. QED
  BY <1>1, <1>2, PTL

-----------------------------------------------------------------------------
(* The events.                                                             *)

\* The ids given out so far are those of open and of committed transactions,
\* and each was given once.
IdsGivenOnce ==
    /\ \A c \in Calls : txn[c] < nextTxn
    /\ \A t \in posted : t.id < nextTxn
    /\ \A n \in notified : n < nextTxn
    /\ \A c, d \in Calls : txn[c] # 0 /\ txn[c] = txn[d] => c = d
    /\ \A c \in Calls, t \in posted : txn[c] # 0 => t.id # txn[c]

\* The event of an open transaction is handled by its own session only.
OpenAnnounced ==
    \A c \in Calls :
        /\ pc[c] = "publish" => txn[c] \notin notified
        /\ pc[c] = "commit" =>
             (txn[c] \in notified <=> call[c].kind # "fx")

EventInv == KeyInv /\ IdsGivenOnce /\ OpenAnnounced /\ CommittedAnnounced

LEMMA EventInit == Init => EventInv
<1> SUFFICES ASSUME Init PROVE EventInv
  OBVIOUS
<1>1. KeyInv
  BY KeyInit
<1>2. IdsGivenOnce
  BY DEF Init, IdsGivenOnce
<1>3. OpenAnnounced /\ CommittedAnnounced
  BY DEF Init, OpenAnnounced, CommittedAnnounced
<1>4. QED
  BY <1>1, <1>2, <1>3 DEF EventInv

\* A step of session c that inserts, announces and commits nothing.
LEMMA EventMove ==
    ASSUME EventInv, NEW c \in Calls,
           \A d \in Calls \ {c} : call'[d] = call[d] /\ pc'[d] = pc[d],
           pc'[c] \notin {"publish", "commit"},
           UNCHANGED <<posted, notified, txn>>,
           nextTxn' \in Nat, nextTxn' >= nextTxn
    PROVE  (IdsGivenOnce /\ OpenAnnounced /\ CommittedAnnounced)'
<1>0. /\ nextTxn \in Nat /\ notified \subseteq Nat
      /\ \A d \in Calls : txn[d] \in Nat
      /\ \A t \in posted : t.id \in Nat
  BY DEF EventInv, KeyInv, TypeInv, TypeOK
<1>1. IdsGivenOnce'
  BY <1>0 DEF EventInv, IdsGivenOnce
<1>2. OpenAnnounced'
  BY DEF EventInv, OpenAnnounced
<1>3. CommittedAnnounced'
  BY DEF EventInv, CommittedAnnounced
<1>4. QED
  BY <1>1, <1>2, <1>3

LEMMA EventInsert ==
    ASSUME EventInv, NEW c \in Calls, InsertTxn(c)
    PROVE  (IdsGivenOnce /\ OpenAnnounced /\ CommittedAnnounced)'
<1>0. /\ nextTxn \in Nat /\ nextTxn > 0 /\ notified \subseteq Nat
      /\ txn \in [Calls -> Nat]
      /\ \A t \in posted : t.id \in Nat
  BY DEF EventInv, KeyInv, TypeInv, TypeOK
<1>1. /\ UNCHANGED <<call, posted, notified>> /\ nextTxn' = nextTxn + 1
      /\ \A d \in Calls \ {c} : call'[d] = call[d] /\ pc'[d] = pc[d]
  BY DEF InsertTxn, EventInv, KeyInv, TypeInv, TypeOK
<1>2. CASE Recorded(call[c].key)
  <2>1. txn' = txn /\ pc'[c] = "failed"
    BY <1>2 DEF InsertTxn, EventInv, KeyInv, TypeInv, TypeOK
  <2>2. QED
    BY <1>0, <1>1, <2>1, EventMove
<1>3. CASE ~Recorded(call[c].key)
  <2>1. /\ pc'[c] = "publish" /\ txn' = [txn EXCEPT ![c] = nextTxn]
    BY <1>3 DEF InsertTxn, EventInv, KeyInv, TypeInv, TypeOK
  <2>2. txn'[c] = nextTxn /\ \A d \in Calls \ {c} : txn'[d] = txn[d]
    BY <1>0, <2>1
  <2>3. IdsGivenOnce'
    BY <1>0, <1>1, <2>2 DEF EventInv, IdsGivenOnce
  <2>4. OpenAnnounced'
    BY <1>0, <1>1, <2>1, <2>2 DEF EventInv, OpenAnnounced, IdsGivenOnce
  <2>5. CommittedAnnounced'
    BY <1>1 DEF EventInv, CommittedAnnounced
  <2>6. QED
    BY <2>3, <2>4, <2>5
<1>4. QED
  BY <1>2, <1>3

LEMMA EventPublish ==
    ASSUME EventInv, NEW c \in Calls, Publish(c)
    PROVE  (IdsGivenOnce /\ OpenAnnounced /\ CommittedAnnounced)'
<1>0. /\ nextTxn \in Nat /\ notified \subseteq Nat
      /\ txn \in [Calls -> Nat]
      /\ \A t \in posted : t.id \in Nat
  BY DEF EventInv, KeyInv, TypeInv, TypeOK
<1>1. /\ UNCHANGED <<call, posted, txn, nextTxn>>
      /\ pc[c] = "publish" /\ pc'[c] = "commit"
      /\ notified' = notified \cup Events(c)
      /\ \A d \in Calls \ {c} : pc'[d] = pc[d]
  BY DEF Publish, EventInv, KeyInv, TypeInv, TypeOK
<1>2. call[c].kind \in {"transfer", "deposit", "fx"}
  <2>1. call[c] \in Args /\ call[c].kind # "none"
    BY <1>1 DEF EventInv, KeyInv, TypeInv, TypeOK, Busy
  <2>2. QED
    BY <2>1, ArgsFields
<1>3. Events(c) = IF call[c].kind # "fx" THEN {txn[c]} ELSE {}
  BY <1>2 DEF Events
<1>4. txn[c] # 0 /\ txn[c] \notin notified
  BY <1>1 DEF EventInv, KeyInv, TxnHeld, OpenAnnounced
<1>5. IdsGivenOnce'
  BY <1>0, <1>1, <1>3 DEF EventInv, IdsGivenOnce
<1>6. OpenAnnounced'
  <2> SUFFICES ASSUME NEW d \in Calls
               PROVE  /\ pc'[d] = "publish" => txn[d] \notin notified'
                      /\ pc'[d] = "commit" =>
                           (txn[d] \in notified' <=> call[d].kind # "fx")
    BY <1>1 DEF OpenAnnounced
  <2>1. CASE d = c
    BY <1>1, <1>3, <1>4, <2>1
  <2>2. CASE d # c /\ pc[d] \in {"publish", "commit"}
    <3>1. txn[d] # txn[c]
      BY <1>4, <2>2 DEF EventInv, IdsGivenOnce
    <3>2. txn[d] \in notified' <=> txn[d] \in notified
      BY <1>1, <1>3, <3>1
    <3>3. QED
      BY <1>1, <2>2, <3>2 DEF EventInv, OpenAnnounced
  <2>3. CASE d # c /\ pc[d] \notin {"publish", "commit"}
    BY <1>1, <2>3
  <2>4. QED
    BY <2>1, <2>2, <2>3
<1>7. CommittedAnnounced'
  <2>1. \A t \in posted : t.id # txn[c]
    BY <1>4 DEF EventInv, IdsGivenOnce
  <2>2. QED
    BY <1>1, <1>3, <2>1 DEF EventInv, CommittedAnnounced
<1>8. QED
  BY <1>5, <1>6, <1>7

\* The end of an operation that commits its transaction row or drops it.
LEMMA EventEnd ==
    ASSUME EventInv, NEW c \in Calls, End(c),
           \/ posted' = posted
           \/ /\ pc[c] = "commit"
              /\ posted' = posted \cup
                   {[id |-> txn[c], key |-> call[c].key,
                     kind |-> call[c].kind]}
    PROVE  (IdsGivenOnce /\ OpenAnnounced /\ CommittedAnnounced)'
<1>0. /\ nextTxn \in Nat /\ nextTxn > 0 /\ notified \subseteq Nat
      /\ txn \in [Calls -> Nat]
      /\ \A t \in posted : t.id \in Nat
  BY DEF EventInv, KeyInv, TypeInv, TypeOK
<1>1. /\ UNCHANGED <<nextTxn, notified>>
      /\ pc'[c] = "idle" /\ txn'[c] = 0
      /\ \A d \in Calls \ {c} : /\ call'[d] = call[d] /\ pc'[d] = pc[d]
                                /\ txn'[d] = txn[d]
  BY DEF End, EventInv, KeyInv, TypeInv, TypeOK
<1>2. ASSUME NEW t \in posted'
      PROVE  \/ t \in posted
             \/ pc[c] = "commit" /\ t.id = txn[c] /\ t.kind = call[c].kind
  OBVIOUS
<1>3. pc[c] = "commit" => txn[c] # 0
  BY DEF EventInv, KeyInv, TxnHeld
<1>4. IdsGivenOnce'
  <2>1. /\ \A d \in Calls : txn'[d] < nextTxn'
        /\ \A n \in notified' : n < nextTxn'
        /\ \A d, e \in Calls : txn'[d] # 0 /\ txn'[d] = txn'[e] => d = e
    BY <1>0, <1>1 DEF EventInv, IdsGivenOnce
  <2>2. \A t \in posted' : t.id < nextTxn'
    BY <1>1, <1>2 DEF EventInv, IdsGivenOnce
  <2>3. ASSUME NEW d \in Calls, NEW t \in posted', txn'[d] # 0
        PROVE  t.id # txn'[d]
    <3>1. d # c /\ txn'[d] = txn[d]
      BY <1>1, <2>3
    <3>2. QED
      BY <1>2, <1>3, <2>3, <3>1 DEF EventInv, IdsGivenOnce
  <2>4. QED
    BY <2>1, <2>2, <2>3 DEF IdsGivenOnce
<1>5. OpenAnnounced'
  BY <1>1 DEF EventInv, OpenAnnounced
<1>6. CommittedAnnounced'
  <2> SUFFICES ASSUME NEW t \in posted'
               PROVE  t.id \in notified <=> t.kind # "fx"
    BY <1>1 DEF CommittedAnnounced
  <2>1. CASE t \in posted
    BY <2>1 DEF EventInv, CommittedAnnounced
  <2>2. CASE pc[c] = "commit" /\ t.id = txn[c] /\ t.kind = call[c].kind
    BY <2>2 DEF EventInv, OpenAnnounced
  <2>3. QED
    BY <1>2, <2>1, <2>2
<1>7. QED
  BY <1>4, <1>5, <1>6

LEMMA EventStep == EventInv /\ [Next]_vars => EventInv'
<1> SUFFICES ASSUME EventInv, [Next]_vars
             PROVE  (IdsGivenOnce /\ OpenAnnounced /\ CommittedAnnounced)'
  BY KeyStep DEF EventInv
<1>0. TypeInv /\ nextTxn \in Nat
  BY DEF EventInv, KeyInv, TypeInv, TypeOK
<1>1. ASSUME NEW c \in Calls, NEW r \in Requests,
             BeginTransfer(c, r) \/ BeginDeposit(c, r) \/ BeginFx(c, r)
      PROVE  (IdsGivenOnce /\ OpenAnnounced /\ CommittedAnnounced)'
  <2>1. /\ UNCHANGED <<posted, notified, txn, nextTxn>>
        /\ pc'[c] \in {"lock", "find"}
        /\ \A d \in Calls \ {c} : call'[d] = call[d] /\ pc'[d] = pc[d]
    BY <1>0, <1>1 DEF BeginTransfer, BeginDeposit, BeginFx, Start, Database,
       TypeInv, TypeOK
  <2>2. QED
    BY <1>0, <2>1, EventMove
<1>2. ASSUME UNCHANGED vars \/ \E k \in Keys : ReplyRecorded(k)
      PROVE  (IdsGivenOnce /\ OpenAnnounced /\ CommittedAnnounced)'
  <2>1. UNCHANGED <<pc, call, posted, notified, txn, nextTxn>>
    BY <1>2 DEF vars, ReplyRecorded
  <2>2. QED
    BY <2>1 DEF EventInv, IdsGivenOnce, OpenAnnounced, CommittedAnnounced
<1>3. ASSUME NEW c \in Calls,
             \/ FindRow(c) \/ CreateRow(c) \/ Acquire(c) \/ Timeout(c)
             \/ Check(c)
      PROVE  (IdsGivenOnce /\ OpenAnnounced /\ CommittedAnnounced)'
  <2>1. /\ UNCHANGED <<call, posted, notified, txn, nextTxn>>
        /\ \A d \in Calls \ {c} : pc'[d] = pc[d]
        /\ pc'[c] \notin {"publish", "commit"}
    BY <1>0, <1>3 DEF FindRow, CreateRow, Acquire, Timeout, Check, FoundRow,
       Database, TypeInv, TypeOK
  <2>2. QED
    BY <1>0, <2>1, EventMove
<1>4. ASSUME NEW c \in Calls, Commit(c)
      PROVE  (IdsGivenOnce /\ OpenAnnounced /\ CommittedAnnounced)'
  <2>1. /\ pc[c] = "commit" /\ End(c)
        /\ posted' = posted \cup
             {[id |-> txn[c], key |-> call[c].key, kind |-> call[c].kind]}
    BY <1>4 DEF Commit
  <2>2. QED
    BY <2>1, EventEnd
<1>5. ASSUME NEW c \in Calls, Undo(c)
      PROVE  (IdsGivenOnce /\ OpenAnnounced /\ CommittedAnnounced)'
  BY <1>5, EventEnd DEF Undo
<1>6. QED
  BY <1>1, <1>2, <1>3, <1>4, <1>5, EventInsert, EventPublish
     DEF Next, Progress, Rollback, Crash, Refuse

\* A committed transfer or deposit has had its completion event handled and
\* an exchange none, for any number of sessions.
THEOREM CommitsAreAnnounced == Spec => []CommittedAnnounced
<1>1. Spec => []EventInv
  BY EventInit, EventStep, PTL DEF Spec
<1>2. EventInv => CommittedAnnounced
  BY DEF EventInv
<1>3. QED
  BY <1>1, <1>2, PTL
=============================================================================
