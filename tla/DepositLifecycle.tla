-------------------------- MODULE DepositLifecycle --------------------------
(***************************************************************************)
(* The two-phase deposit: POST /deposits records a PENDING transaction and *)
(* queues a job; an RQ worker registers it with the payment provider; the  *)
(* provider's timer sends a webhook; a web worker confirms or fails the    *)
(* deposit; a cron command queues again the deposits the provider never    *)
(* acknowledged.  Everything that crosses a process boundary may be lost,  *)
(* and any number of webhooks for a deposit may be under way at once.      *)
(*                                                                         *)
(* The posting itself is LedgerService's subject: here it is one credit,   *)
(* made under the lock of the clearing account that all deposits of the    *)
(* currency share.                                                         *)
(***************************************************************************)
EXTENDS Naturals, FiniteSets

CONSTANTS
    Deposits,       \* the deposits clients ask for
    Workers,        \* RQ worker processes on the deposits queue
    Handlers,       \* web workers that run the webhook route
    None,           \* nobody
    Faults,         \* the kinds of fault that may happen, see FaultKinds
    MaxFaults,      \* bound: how many of them may happen
    MaxQueued       \* bound: further jobs, payments and webhooks of a deposit
                    \* are not counted

\* An operator's /trigger is counted as a fault too.
FaultKinds == {"enqueue", "call", "response", "worker", "recovery",
               "provider", "webhook", "handler", "trigger"}

ASSUME DepositAssumption ==
    /\ None \notin Handlers /\ IsFiniteSet(Handlers)
    /\ Faults \subseteq FaultKinds
    /\ MaxFaults \in Nat
    /\ MaxQueued \in Nat \ {0}

VARIABLES
    status,     \* status of the transaction row, "none" before it exists
    ref,        \* its provider_reference: none, a payment's id, the webhook's
    credits,    \* how often its entries were posted
    route,      \* the POST /deposits request: "none", "committed", "done"
    old,        \* created_at is before the recovery command's cutoff
    jobs,       \* notify_provider jobs in the queue
    worker,     \* what each RQ worker does, and for which deposit
    payments,   \* payments the provider holds in memory
    timers,     \* those whose callback has still to run
    wire,       \* webhooks sent and not yet received
    handler,    \* what each web worker does, and for which webhook
    postLock,   \* the handler holding the lock of the clearing account
    rowLock,    \* the handler holding the lock of each transaction row
    scan,       \* orphans the recovery command has still to queue
    faults,     \* faults so far
    cut,        \* one of them kept an outcome of the provider from being used
    said,       \* outcomes the provider has sent for each deposit
    raced       \* two handlers were between read and commit of the deposit

rowVars == <<status, ref, credits>>
jobVars == <<route, old, jobs, worker, scan>>
providerVars == <<payments, timers, wire, said>>
handlerVars == <<handler, postLock, rowLock, raced>>
faultVars == <<faults, cut>>
vars == <<rowVars, jobVars, providerVars, handlerVars, faultVars>>

Outcomes == {"completed", "failed"}
Final == {"COMPLETED", "FAILED"}
Up(n) == IF n < MaxQueued THEN n + 1 ELSE n
IdleWorker == [at |-> "idle", dep |-> None]
IdleHandler == [at |-> "idle", dep |-> None, event |-> None]

Fault(kind) ==
    /\ kind \in Faults
    /\ faults < MaxFaults
    /\ faults' = faults + 1
    /\ cut' = (cut \/ kind \in {"provider", "webhook", "handler"})

Init ==
    /\ status = [d \in Deposits |-> "none"]
    /\ ref = [d \in Deposits |-> "none"]
    /\ credits = [d \in Deposits |-> 0]
    /\ route = [d \in Deposits |-> "none"]
    /\ old = [d \in Deposits |-> FALSE]
    /\ jobs = [d \in Deposits |-> 0]
    /\ worker = [w \in Workers |-> IdleWorker]
    /\ payments = [d \in Deposits |-> 0]
    /\ timers = [d \in Deposits |-> 0]
    /\ wire = [d \in Deposits |-> [e \in Outcomes |-> 0]]
    /\ handler = [h \in Handlers |-> IdleHandler]
    /\ postLock = None
    /\ rowLock = [d \in Deposits |-> None]
    /\ scan = {}
    /\ faults = 0
    /\ cut = FALSE
    /\ said = [d \in Deposits |-> {}]
    /\ raced = [d \in Deposits |-> FALSE]

-----------------------------------------------------------------------------
(* POST /deposits: the row is committed first, the job queued afterwards.  *)

CreateDeposit(d) ==
    /\ status[d] = "none"
    /\ status' = [status EXCEPT ![d] = "PENDING"]
    /\ route' = [route EXCEPT ![d] = "committed"]
    /\ UNCHANGED <<ref, credits, old, jobs, worker, scan, providerVars,
                   handlerVars, faultVars>>

EnqueueNotify(d) ==
    /\ route[d] = "committed"
    /\ route' = [route EXCEPT ![d] = "done"]
    /\ jobs' = [jobs EXCEPT ![d] = Up(@)]
    /\ UNCHANGED <<old, worker, scan, rowVars, providerVars, handlerVars,
                   faultVars>>

\* Redis refuses (the exception is logged and dropped), or the process dies.
EnqueueLost(d) ==
    /\ route[d] = "committed"
    /\ Fault("enqueue")
    /\ route' = [route EXCEPT ![d] = "done"]
    /\ UNCHANGED <<old, jobs, worker, scan, rowVars, providerVars,
                   handlerVars>>

-----------------------------------------------------------------------------
(* _notify_provider in an RQ worker.                                       *)

TakeJob(w, d) ==
    /\ worker[w].at = "idle"
    /\ jobs[d] > 0
    /\ jobs' = [jobs EXCEPT ![d] = @ - 1]
    /\ worker' = [worker EXCEPT ![w] = [at |-> "call", dep |-> d]]
    /\ UNCHANGED <<route, old, scan, rowVars, providerVars, handlerVars,
                   faultVars>>

\* /create-payment: a new payment and a new timer on every call.
NewPaymentNoTimer(d) ==
    /\ payments' = [payments EXCEPT ![d] = Up(@)]
    /\ UNCHANGED <<timers, wire, said>>
NewPayment(d) ==
    /\ payments' = [payments EXCEPT ![d] = Up(@)]
    /\ timers' = [timers EXCEPT ![d] = Up(@)]
    /\ UNCHANGED <<wire, said>>

CallProvider(w) ==
    /\ worker[w].at = "call"
    /\ NewPayment(worker[w].dep)
    /\ worker' = [worker EXCEPT ![w].at = "answered"]
    /\ UNCHANGED <<route, old, jobs, scan, rowVars, handlerVars, faultVars>>

\* Connection refused, a timeout before the request arrived, or not ok.  The
\* job raises and is not queued again: it was queued without a Retry.
CallFails(w) ==
    /\ worker[w].at = "call"
    /\ Fault("call")
    /\ worker' = [worker EXCEPT ![w] = IdleWorker]
    /\ UNCHANGED <<route, old, jobs, scan, rowVars, providerVars, handlerVars>>

\* The provider registers the payment but its answer does not come in time.
ResponseLost(w) ==
    /\ worker[w].at = "call"
    /\ Fault("response")
    /\ NewPayment(worker[w].dep)
    /\ worker' = [worker EXCEPT ![w] = IdleWorker]
    /\ UNCHANGED <<route, old, jobs, scan, rowVars, handlerVars>>

\* The UPDATE waits for a handler that has flushed the row, then commits.
RecordReference(w) ==
    LET d == worker[w].dep IN
    /\ worker[w].at = "answered"
    /\ rowLock[d] = None
    /\ ref' = [ref EXCEPT ![d] = "payment"]
    /\ worker' = [worker EXCEPT ![w] = IdleWorker]
    /\ UNCHANGED <<status, credits, route, old, jobs, scan, providerVars,
                   handlerVars, faultVars>>

\* The worker dies or its database does: the job fails and is not retried.
WorkerDies(w) ==
    /\ worker[w].at # "idle"
    /\ Fault("worker")
    /\ worker' = [worker EXCEPT ![w] = IdleWorker]
    /\ UNCHANGED <<route, old, jobs, scan, rowVars, providerVars,
                   handlerVars>>

-----------------------------------------------------------------------------
(* The payment provider.                                                   *)

Send(d, e) ==
    /\ wire' = [wire EXCEPT ![d][e] = Up(@)]
    /\ said' = [said EXCEPT ![d] = @ \cup {e}]

TimerFires(d, e) ==
    /\ timers[d] > 0
    /\ timers' = [timers EXCEPT ![d] = @ - 1]
    /\ Send(d, e)
    /\ UNCHANGED <<payments, rowVars, jobVars, handlerVars, faultVars>>

\* An operator posts to /trigger/<payment id>, before or after the timer.
Trigger(d, e) ==
    /\ payments[d] > 0
    /\ Fault("trigger")
    /\ Send(d, e)
    /\ UNCHANGED <<payments, timers, rowVars, jobVars, handlerVars>>

\* The payments are a dict in memory and the timers daemon threads.
ProviderRestarts ==
    /\ \E d \in Deposits : payments[d] > 0
    /\ Fault("provider")
    /\ payments' = [d \in Deposits |-> 0]
    /\ timers' = [d \in Deposits |-> 0]
    /\ UNCHANGED <<wire, said, rowVars, jobVars, handlerVars>>

\* The provider never sends a webhook again, whatever it was answered.
WebhookLost(d, e) ==
    /\ wire[d][e] > 0
    /\ Fault("webhook")
    /\ wire' = [wire EXCEPT ![d][e] = @ - 1]
    /\ UNCHANGED <<payments, timers, said, rowVars, jobVars, handlerVars>>

-----------------------------------------------------------------------------
(* The webhook route: confirm_deposit and fail_deposit.                    *)

Handling(h, d) == handler[h].at # "idle" /\ handler[h].dep = d

StillPendingIgnored(d) == TRUE
StillPending(d) == status[d] = "PENDING"

\* The status is read without a lock; unless it is PENDING the webhook is
\* answered with 422 and nothing changes.
ReceiveWebhook(h, d, e) ==
    /\ handler[h].at = "idle"
    /\ wire[d][e] > 0
    /\ wire' = [wire EXCEPT ![d][e] = @ - 1]
    /\ IF StillPending(d)
         THEN /\ handler' = [handler EXCEPT ![h] =
                   [at |-> IF e = "completed" THEN "lock" ELSE "flush",
                    dep |-> d, event |-> e]]
              /\ raced' = [raced EXCEPT ![d] =
                   @ \/ \E g \in Handlers : Handling(g, d)]
         ELSE UNCHANGED <<handler, raced>>
    /\ UNCHANGED <<payments, timers, said, postLock, rowLock, rowVars,
                   jobVars, faultVars>>

LockAccounts(h) ==
    /\ handler[h].at = "lock"
    /\ postLock = None
    /\ postLock' = h
    /\ handler' = [handler EXCEPT ![h].at = "flush"]
    /\ UNCHANGED <<rowLock, raced, rowVars, jobVars, providerVars, faultVars>>

\* The UPDATE of the row, which waits while another session has updated it.
\* The status read before is not looked at again.
Flush(h) ==
    LET d == handler[h].dep IN
    /\ handler[h].at = "flush"
    /\ rowLock[d] = None
    /\ rowLock' = [rowLock EXCEPT ![d] = h]
    /\ handler' = [handler EXCEPT ![h].at = "commit"]
    /\ UNCHANGED <<postLock, raced, rowVars, jobVars, providerVars, faultVars>>

Release(h) ==
    /\ handler' = [handler EXCEPT ![h] = IdleHandler]
    /\ postLock' = IF postLock = h THEN None ELSE postLock
    /\ rowLock' = [d \in Deposits |->
                     IF rowLock[d] = h THEN None ELSE rowLock[d]]
    /\ UNCHANGED raced

ConfirmUnposted(d) ==
    /\ status' = [status EXCEPT ![d] = "COMPLETED"]
    /\ ref' = [ref EXCEPT ![d] = "webhook"]
    /\ UNCHANGED credits
ConfirmEntryStatus(d) ==
    /\ status' = [status EXCEPT ![d] = "SUCCESS"]
    /\ ref' = [ref EXCEPT ![d] = "webhook"]
    /\ credits' = [credits EXCEPT ![d] = @ + 1]
Confirm(d) ==
    /\ status' = [status EXCEPT ![d] = "COMPLETED"]
    /\ ref' = [ref EXCEPT ![d] = "webhook"]
    /\ credits' = [credits EXCEPT ![d] = @ + 1]

FailCompletes(d) ==
    /\ status' = [status EXCEPT ![d] = "COMPLETED"]
    /\ UNCHANGED <<ref, credits>>
Fail(d) ==
    /\ status' = [status EXCEPT ![d] = "FAILED"]
    /\ UNCHANGED <<ref, credits>>

CommitHandler(h) ==
    /\ handler[h].at = "commit"
    /\ IF handler[h].event = "completed" THEN Confirm(handler[h].dep)
                                         ELSE Fail(handler[h].dep)
    /\ Release(h)
    /\ UNCHANGED <<jobVars, providerVars, faultVars>>

\* Any error, a lock timeout, a crash: the session is rolled back.
AbortHandler(h) ==
    /\ handler[h].at # "idle"
    /\ Fault("handler")
    /\ Release(h)
    /\ UNCHANGED <<rowVars, jobVars, providerVars>>

-----------------------------------------------------------------------------
(* flask recover-orphan-deposits, run from cron: one SELECT, then a loop.  *)

GrowOld(d) ==
    /\ status[d] # "none" /\ ~old[d]
    /\ old' = [old EXCEPT ![d] = TRUE]
    /\ UNCHANGED <<route, jobs, worker, scan, rowVars, providerVars,
                   handlerVars, faultVars>>

OrphanNewborn(d) == status[d] = "PENDING" /\ ref[d] = "none" /\ ~old[d]
Orphan(d) == status[d] = "PENDING" /\ ref[d] = "none" /\ old[d]

RecoverScan ==
    /\ scan = {}
    /\ \E d \in Deposits : Orphan(d)
    /\ scan' = {d \in Deposits : Orphan(d)}
    /\ UNCHANGED <<route, old, jobs, worker, rowVars, providerVars,
                   handlerVars, faultVars>>

RecoverEnqueue(d) ==
    /\ d \in scan
    /\ scan' = scan \ {d}
    /\ jobs' = [jobs EXCEPT ![d] = Up(@)]
    /\ UNCHANGED <<route, old, worker, rowVars, providerVars, handlerVars,
                   faultVars>>

\* An exception from the queue ends the loop: the rest is not queued.
RecoverDies ==
    /\ scan # {}
    /\ Fault("recovery")
    /\ scan' = {}
    /\ UNCHANGED <<route, old, jobs, worker, rowVars, providerVars,
                   handlerVars>>

-----------------------------------------------------------------------------
Next ==
    \/ \E d \in Deposits :
          \/ CreateDeposit(d) \/ EnqueueNotify(d) \/ EnqueueLost(d)
          \/ GrowOld(d) \/ RecoverEnqueue(d)
          \/ \E e \in Outcomes :
                TimerFires(d, e) \/ Trigger(d, e) \/ WebhookLost(d, e)
          \/ \E w \in Workers : TakeJob(w, d)
          \/ \E h \in Handlers, e \in Outcomes : ReceiveWebhook(h, d, e)
    \/ \E w \in Workers :
          \/ CallProvider(w) \/ CallFails(w) \/ ResponseLost(w)
          \/ RecordReference(w) \/ WorkerDies(w)
    \/ \E h \in Handlers :
          LockAccounts(h) \/ Flush(h) \/ CommitHandler(h) \/ AbortHandler(h)
    \/ ProviderRestarts \/ RecoverScan \/ RecoverDies

Spec == Init /\ [][Next]_vars

\* Processes that are up go on: the route queues its job, workers serve the
\* queue, timers fire, a webhook sent arrives unless it is lost, handlers
\* run, and cron runs the recovery command.  A job or a webhook is not passed
\* over for ever by others (both queues are first in, first out), nor a
\* session waiting for a row lock.  Nothing makes an operator trigger.
Fairness ==
    /\ \A d \in Deposits :
          /\ WF_vars(EnqueueNotify(d)) /\ WF_vars(GrowOld(d))
          /\ WF_vars(RecoverEnqueue(d))
          /\ WF_vars(\E e \in Outcomes : TimerFires(d, e))
          /\ SF_vars(\E w \in Workers : TakeJob(w, d))
          /\ \A e \in Outcomes :
                SF_vars(\E h \in Handlers : ReceiveWebhook(h, d, e))
    /\ \A w \in Workers :
          WF_vars(CallProvider(w)) /\ SF_vars(RecordReference(w))
    /\ \A h \in Handlers :
          /\ SF_vars(LockAccounts(h)) /\ SF_vars(Flush(h))
          /\ WF_vars(CommitHandler(h))
    /\ WF_vars(RecoverScan)

FairSpec == Spec /\ Fairness

-----------------------------------------------------------------------------
(* Properties.                                                             *)

\* The values every variable may take.
TypeOK ==
    /\ status \in [Deposits -> {"none", "PENDING"} \cup Final]
    /\ ref \in [Deposits -> {"none", "payment", "webhook"}]
    /\ credits \in [Deposits -> Nat]
    /\ route \in [Deposits -> {"none", "committed", "done"}]
    /\ old \in [Deposits -> BOOLEAN]
    /\ jobs \in [Deposits -> 0..MaxQueued]
    /\ worker \in [Workers -> {IdleWorker} \cup
                     [at : {"call", "answered"}, dep : Deposits]]
    /\ payments \in [Deposits -> 0..MaxQueued]
    /\ timers \in [Deposits -> 0..MaxQueued]
    /\ wire \in [Deposits -> [Outcomes -> 0..MaxQueued]]
    /\ handler \in [Handlers -> {IdleHandler} \cup
                      [at : {"lock", "flush", "commit"}, dep : Deposits,
                       event : Outcomes]]
    /\ postLock \in Handlers \cup {None}
    /\ rowLock \in [Deposits -> Handlers \cup {None}]
    /\ scan \subseteq Deposits
    /\ faults \in 0..MaxFaults /\ cut \in BOOLEAN
    /\ said \in [Deposits -> SUBSET Outcomes]
    /\ raced \in [Deposits -> BOOLEAN]

\* The customer is credited once for a COMPLETED deposit and never for
\* another, however many jobs, payments and webhooks there are for it, as
\* long as no two handlers were at the same deposit at once.
CreditedOnce ==
    \A d \in Deposits :
        ~raced[d] => credits[d] = IF status[d] = "COMPLETED" THEN 1 ELSE 0

\* The same two handlers are what it takes to change a final status.
FinalStaysFinal ==
    [][\A d \in Deposits :
         status[d] \in Final /\ ~raced'[d] => status'[d] = status[d]]_vars

\* A deposit never becomes PENDING again, and each handler that was let in
\* while it was PENDING credits it at most once: the damage of a race is
\* bounded by the number of web workers.
CreditsBounded ==
    \A d \in Deposits :
        credits[d] + Cardinality({h \in Handlers : Handling(h, d)})
          <= Cardinality(Handlers)

\* The outcome recorded is one the provider sent: in no order of losses,
\* restarts and retries does a deposit complete, fail or earn a credit
\* without a webhook that says so.
OutcomeFromProvider ==
    \A d \in Deposits :
        /\ credits[d] > 0 \/ status[d] = "COMPLETED" => "completed" \in said[d]
        /\ status[d] = "FAILED" => "failed" \in said[d]

\* Every deposit is acknowledged by the provider or reaches its end, if the
\* faults stop and cron goes on running the recovery command.
OrphansRecovered ==
    \A d \in Deposits :
        status[d] = "PENDING" ~> ref[d] # "none" \/ status[d] \in Final

\* Every deposit reaches its end, whatever goes wrong between the route and
\* the provider: lost jobs, lost answers, dead workers and a recovery command
\* that dies halfway delay it only.  What can stop it is a provider that
\* forgets the payment, or a webhook that is lost or answered with an error.
EveryDepositEnds ==
    \A d \in Deposits : status[d] = "PENDING" ~> status[d] \in Final \/ cut

\* tests/test_e2e_deposits.py:421: a second confirm of a deposit fails.
SecondConfirmFails == \A d \in Deposits : credits[d] <= 1
=============================================================================
