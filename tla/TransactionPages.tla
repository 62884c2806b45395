--------------------------- MODULE TransactionPages -------------------------
(***************************************************************************)
(* GET /accounts/<id>/transactions, asked page by page while transactions  *)
(* of the account commit.  get_account_transactions orders them by         *)
(* created_at, newest first, and takes a page by LIMIT and OFFSET; the     *)
(* total that tells the client whether a page follows is counted by a      *)
(* second SELECT.                                                          *)
(*                                                                         *)
(* A transaction is listed once entries of the account refer to it, which  *)
(* is at its commit.  created_at is read from a clock when the row is      *)
(* flushed: by another process and for a deposit long before the entries   *)
(* exist, so transactions turn up anywhere in the list.                    *)
(***************************************************************************)
EXTENDS Integers, FiniteSets, FiniteSetsExt

CONSTANTS
    Txns,       \* transactions of the account
    Stamps,     \* values of created_at
    PageSizes   \* values of per_page, after the limit of the route

ASSUME PageAssumption ==
    IsFiniteSet(Txns) /\ Stamps \subseteq Nat /\ PageSizes \subseteq Nat \ {0}

VARIABLES
    state,      \* of each transaction: "none", "open", "listed", "gone"
    created,    \* its created_at, 0 before
    at,         \* the client: "idle", "items" or "count" of a page, "done"
    page,       \* the page it asks for
    perPage,    \* the size of the pages it asks for
    present,    \* what was listed when its first page was read
    shown,      \* how often it was shown each transaction
    arrived     \* history: commits since its first page was read

vars == <<state, created, at, page, perPage, present, shown, arrived>>
client == <<at, page, perPage, present, shown>>

ListedEarly == {t \in Txns : state[t] \in {"open", "listed"}}
Listed == {t \in Txns : state[t] = "listed"}

Init ==
    /\ state = [t \in Txns |-> "none"]
    /\ created = [t \in Txns |-> 0]
    /\ at = "idle" /\ page = 1 /\ perPage \in PageSizes
    /\ present = {}
    /\ shown = [t \in Txns |-> 0]
    /\ arrived = 0

-----------------------------------------------------------------------------
(* The transactions of other sessions.                                     *)

\* The row is flushed: an operation begins, or a deposit is initiated.
Flush(t, now) ==
    /\ state[t] = "none"
    /\ state' = [state EXCEPT ![t] = "open"]
    /\ created' = [created EXCEPT ![t] = now]
    /\ UNCHANGED <<client, arrived>>

Walking == at = "count" \/ (at = "items" /\ page > 1)

CommitEntries(t) ==
    /\ state[t] = "open"
    /\ state' = [state EXCEPT ![t] = "listed"]
    /\ arrived' = IF Walking THEN arrived + 1 ELSE arrived
    /\ UNCHANGED <<created, client>>

\* It is rolled back, or the deposit fails: no entries.
Abandon(t) ==
    /\ state[t] = "open"
    /\ state' = [state EXCEPT ![t] = "gone"]
    /\ UNCHANGED <<created, client, arrived>>

-----------------------------------------------------------------------------
(* The client and the two SELECTs of each page.                            *)

\* ORDER BY created_at DESC: any order of those with the same created_at.
OrdersAny == {o \in [1..Cardinality(Listed) -> Listed] :
                \A i, j \in DOMAIN o : i < j => o[i] # o[j]}
Orders == {o \in [1..Cardinality(Listed) -> Listed] :
             \A i, j \in DOMAIN o :
                i < j => o[i] # o[j] /\ created[o[i]] >= created[o[j]]}

\* LIMIT per_page OFFSET (page - 1) * per_page
OffsetFromNext(p) == p * perPage
Offset(p) == (p - 1) * perPage

OnPage(o, p) == {o[i] : i \in Offset(p) + 1 .. Min({Offset(p) + perPage,
                                                    Cardinality(Listed)})}

PagesFull == Cardinality(Listed) \div perPage
Pages == (Cardinality(Listed) + perPage - 1) \div perPage

StartWalk ==
    /\ at \in {"idle", "done"}
    /\ at' = "items" /\ page' = 1 /\ perPage' \in PageSizes
    /\ present' = {}
    /\ shown' = [t \in Txns |-> 0]
    /\ arrived' = 0
    /\ UNCHANGED <<state, created>>

SelectItems ==
    /\ at = "items"
    /\ \E o \in Orders :
         shown' = [t \in Txns |->
                     IF t \in OnPage(o, page) THEN shown[t] + 1 ELSE shown[t]]
    /\ present' = IF page = 1 THEN Listed ELSE present
    /\ at' = "count"
    /\ UNCHANGED <<state, created, page, perPage, arrived>>

\* The client goes on until the page it has is the last of "pages".
SelectCount ==
    /\ at = "count"
    /\ IF page < Pages THEN at' = "items" /\ page' = page + 1
                       ELSE at' = "done" /\ UNCHANGED page
    /\ UNCHANGED <<state, created, perPage, present, shown, arrived>>

\* The request fails or the client stops.
GiveUp ==
    /\ at \in {"items", "count"}
    /\ at' = "idle"
    /\ UNCHANGED <<state, created, page, perPage, present, shown, arrived>>

Next ==
    \/ \E t \in Txns :
          \/ \E now \in Stamps : Flush(t, now)
          \/ CommitEntries(t) \/ Abandon(t)
    \/ StartWalk \/ SelectItems \/ SelectCount \/ GiveUp

Spec == Init /\ [][Next]_vars

-----------------------------------------------------------------------------
(* Properties.                                                             *)

\* The values of the variables; what is shown is committed.
TypeOK ==
    /\ state \in [Txns -> {"none", "open", "listed", "gone"}]
    /\ created \in [Txns -> Stamps \cup {0}]
    /\ at \in {"idle", "items", "count", "done"}
    /\ page = 1 \/ page \in 1..Cardinality(Txns)
    /\ perPage \in PageSizes
    /\ shown \in [Txns -> 0..Cardinality(Txns)]
    /\ \A t \in Txns :
          t \in present \/ shown[t] > 0 => state[t] = "listed"
    /\ arrived \in 0..Cardinality(Txns)

\* Alone at its created_at among the listed.
Untied(t) == \A u \in Listed \ {t} : created[u] # created[t]

\* A client that has walked to the last page has seen every transaction that
\* was listed when it began, whatever committed meanwhile and wherever in the
\* list: commits only move it to later pages, and the total is counted after
\* the page is read, so a page is never the last one by an old count.  Equal
\* times apart: nothing orders those (get_account_transactions).
NothingMissed ==
    at = "done" => \A t \in present : Untied(t) => shown[t] > 0

Shown == {t \in Txns : shown[t] > 0}
Repeats == SumFunctionOnSet([t \in Txns |-> shown[t] - 1], Shown)

\* Equal times or not, a row is missed only where another was shown once too
\* often: the pages of a walk hold as many rows as were listed at its start,
\* whatever order ORDER BY created_at gives each of them.  A client that saw
\* no row twice has seen them all.
MissedAreRepeats == at = "done" => Cardinality(present \ Shown) <= Repeats

\* A commit makes one row of a walk appear again at most: with no equal
\* times, rows are repeated no more often than transactions have arrived.
RepeatsAreArrivals == (\A t \in Listed : Untied(t)) => Repeats <= arrived
=============================================================================
