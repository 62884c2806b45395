-------------------------- MODULE TransferRequests -------------------------
(***************************************************************************)
(* POST /transfers with its idempotency layer and its e-mail: the event of *)
(* a transfer is published, and its mail queued, while the route runs and  *)
(* before it commits.  The two components share nothing but that step.     *)
(***************************************************************************)
EXTENDS IdempotentRequests, Notifications

vars == <<requestVars, mailVars>>

ASSUME MailIdsAssumption == MailIds = 1 .. MaxTxn

Init == RequestInit /\ MailInit

\* execute_transfer flushes the entries and publishes TransferCompleted.
RunTransfer(h) == Run(h) /\ EnqueueMail(lastTxn + 1)

\* A step of the idempotency layer, or the commit, or the end without one.
Serve(h) ==
    /\ RequestStep(h) \/ CommitRoute(h) \/ Abort(h)
    /\ UNCHANGED mailVars

Arrive(h, r) == Receive(h, r) /\ UNCHANGED mailVars

Forget(k) == ExpireCache(k) /\ UNCHANGED mailVars

DeleteRecords == CleanUp /\ UNCHANGED mailVars

DeliverMail == MailStep /\ answer' = None /\ UNCHANGED requestState

Next ==
    \/ \E h \in Handlers, r \in Requests : Arrive(h, r)
    \/ \E h \in Handlers : RunTransfer(h) \/ Serve(h)
    \/ \E k \in RequestKeys : Forget(k)
    \/ DeleteRecords
    \/ DeliverMail

Spec == Init /\ [][Next]_vars

FairSpec == Spec /\ MailFairness

-----------------------------------------------------------------------------
(* Properties.                                                             *)

\* The values every variable may take.
TypeOK == RequestTypeOK /\ MailTypeOK

Committed(m) == \E e \in effects : e.txn = m
Running(m) == \E h \in Handlers : at[h] = "commit" /\ underway[h] = m

\* Every committed transfer has its mail queued, and the job comes to rest:
\* sent, or put aside for a retry.  No transfer is committed in silence, and
\* no job is left behind by a worker that died.
CommittedMailSettles ==
    \A m \in MailIds : Committed(m) ~> job[m] \in {"done", "scheduled"}

\* What the mail says: the transfer it is about "has been completed", or is
\* about to be.
MailedIsCompleted ==
    \A m \in MailIds : mails[m] > 0 => Committed(m) \/ Running(m)
=============================================================================
