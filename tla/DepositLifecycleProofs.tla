----------------------- MODULE DepositLifecycleProofs -----------------------
(***************************************************************************)
(* Proofs about DepositLifecycle, for any number of deposits, RQ workers   *)
(* and web workers and any faults.  What the deposits earn depends on the  *)
(* webhook handlers alone; everything else is a source of webhooks.        *)
(***************************************************************************)
EXTENDS DepositLifecycle, FiniteSetTheorems, TLAPS

-----------------------------------------------------------------------------
(* Type correctness.                                                       *)

RowsTyped ==
    /\ status \in [Deposits -> {"none", "PENDING"} \cup Final]
    /\ ref \in [Deposits -> {"none", "payment", "webhook"}]
    /\ credits \in [Deposits -> Nat]

JobsTyped ==
    /\ route \in [Deposits -> {"none", "committed", "done"}]
    /\ old \in [Deposits -> BOOLEAN]
    /\ jobs \in [Deposits -> 0..MaxQueued]
    /\ worker \in [Workers -> {IdleWorker} \cup
                     [at : {"call", "answered"}, dep : Deposits]]
    /\ scan \subseteq Deposits

ProviderTyped ==
    /\ payments \in [Deposits -> 0..MaxQueued]
    /\ timers \in [Deposits -> 0..MaxQueued]
    /\ wire \in [Deposits -> [Outcomes -> 0..MaxQueued]]
    /\ said \in [Deposits -> SUBSET Outcomes]

HandlersTyped ==
    /\ handler \in [Handlers -> {IdleHandler} \cup
                      [at : {"lock", "flush", "commit"}, dep : Deposits,
                       event : Outcomes]]
    /\ postLock \in Handlers \cup {None}
    /\ rowLock \in [Deposits -> Handlers \cup {None}]
    /\ raced \in [Deposits -> BOOLEAN]

FaultsTyped == faults \in 0..MaxFaults /\ cut \in BOOLEAN

Typed == RowsTyped /\ JobsTyped /\ ProviderTyped /\ HandlersTyped /\ FaultsTyped

LEMMA TypedIsTypeOK == Typed <=> TypeOK
  BY DEF TypeOK, Typed, RowsTyped, JobsTyped, ProviderTyped, HandlersTyped,
         FaultsTyped

\* Counting one more stays within the bound.
LEMMA UpTyped == \A n \in 0..MaxQueued : Up(n) \in 0..MaxQueued
  BY DepositAssumption DEF Up

\* A worker that is not idle has a deposit, a handler also its event.
LEMMA WorkerHasDeposit ==
  ASSUME Typed, NEW w \in Workers, worker[w].at # "idle"
  PROVE  worker[w].dep \in Deposits
  BY DEF Typed, JobsTyped, IdleWorker

LEMMA HandlerHasWebhook ==
  ASSUME Typed, NEW h \in Handlers, handler[h].at # "idle"
  PROVE  /\ handler[h].dep \in Deposits
         /\ handler[h].event \in Outcomes
         /\ handler[h] \in [at : {"lock", "flush", "commit"}, dep : Deposits,
                            event : Outcomes]
  BY DEF Typed, HandlersTyped, IdleHandler

LEMMA FaultTyped ==
  ASSUME FaultsTyped, NEW kind, Fault(kind)
  PROVE  FaultsTyped'
<1>1. faults' \in 0..MaxFaults
  BY DepositAssumption DEF FaultsTyped, Fault
<1>2. cut' \in BOOLEAN
  BY DEF Fault
<1>. QED  BY <1>1, <1>2 DEF FaultsTyped

LEMMA NewPaymentTyped ==
  ASSUME ProviderTyped, NEW d \in Deposits, NewPayment(d)
  PROVE  ProviderTyped'
  BY UpTyped DEF ProviderTyped, NewPayment

LEMMA SendTyped ==
  ASSUME ProviderTyped, NEW d \in Deposits, NEW e \in Outcomes, Send(d, e)
  PROVE  wire' \in [Deposits -> [Outcomes -> 0..MaxQueued]]
         /\ said' \in [Deposits -> SUBSET Outcomes]
<1>1. wire[d] \in [Outcomes -> 0..MaxQueued]
  BY DEF ProviderTyped
<1>2. [wire[d] EXCEPT ![e] = Up(@)] \in [Outcomes -> 0..MaxQueued]
  BY <1>1, UpTyped
<1>3. wire' \in [Deposits -> [Outcomes -> 0..MaxQueued]]
  BY <1>2 DEF ProviderTyped, Send
<1>4. said' \in [Deposits -> SUBSET Outcomes]
  BY DEF ProviderTyped, Send
<1>. QED  BY <1>3, <1>4

LEMMA ReleaseTyped ==
  ASSUME HandlersTyped, NEW h \in Handlers, Release(h)
  PROVE  HandlersTyped'
  BY DEF HandlersTyped, Release

\* A webhook taken off the wire, delivered or not.
LEMMA TakenTyped ==
  ASSUME ProviderTyped, NEW d \in Deposits, NEW e \in Outcomes,
         wire[d][e] > 0, wire' = [wire EXCEPT ![d][e] = @ - 1],
         UNCHANGED <<payments, timers, said>>
  PROVE  ProviderTyped'
<1>1. wire[d] \in [Outcomes -> 0..MaxQueued]
  BY DEF ProviderTyped
<1>2. [wire[d] EXCEPT ![e] = @ - 1] \in [Outcomes -> 0..MaxQueued]
  BY <1>1, DepositAssumption
<1>. QED  BY <1>2 DEF ProviderTyped

-----------------------------------------------------------------------------
(* The steps, by the part of the state they change.                        *)

RouteStep ==
    \E d \in Deposits :
        \/ EnqueueNotify(d) \/ EnqueueLost(d) \/ GrowOld(d)
        \/ RecoverEnqueue(d) \/ \E w \in Workers : TakeJob(w, d)

WorkerStep ==
    \E w \in Workers :
        \/ CallProvider(w) \/ CallFails(w) \/ ResponseLost(w)
        \/ RecordReference(w) \/ WorkerDies(w)

ProviderStep ==
    \/ \E d \in Deposits, e \in Outcomes :
         TimerFires(d, e) \/ Trigger(d, e) \/ WebhookLost(d, e)
    \/ ProviderRestarts

HandlerStep ==
    \/ \E h \in Handlers, d \in Deposits, e \in Outcomes :
         ReceiveWebhook(h, d, e)
    \/ \E h \in Handlers :
         LockAccounts(h) \/ Flush(h) \/ CommitHandler(h) \/ AbortHandler(h)

LEMMA NextParts ==
  Next <=> \/ \E d \in Deposits : CreateDeposit(d)
           \/ RouteStep \/ WorkerStep \/ ProviderStep \/ HandlerStep
           \/ RecoverScan \/ RecoverDies
  BY DEF Next, RouteStep, WorkerStep, ProviderStep, HandlerStep

LEMMA InitTyped == Init => Typed
<1>. SUFFICES ASSUME Init PROVE Typed
  OBVIOUS
<1>. USE DepositAssumption DEF Init
<1>1. RowsTyped
  BY DEF RowsTyped
<1>2. JobsTyped
  BY DEF JobsTyped
<1>3. ProviderTyped
  <2>1. [e \in Outcomes |-> 0] \in [Outcomes -> 0..MaxQueued]
    OBVIOUS
  <2>2. wire \in [Deposits -> [Outcomes -> 0..MaxQueued]]
    BY <2>1
  <2>. QED  BY <2>2 DEF ProviderTyped
<1>4. HandlersTyped
  BY DEF HandlersTyped
<1>5. FaultsTyped
  <2>1. faults \in 0..MaxFaults
    OBVIOUS
  <2>2. cut \in BOOLEAN
    OBVIOUS
  <2>. QED  BY <2>1, <2>2 DEF FaultsTyped
<1>. QED  BY <1>1, <1>2, <1>3, <1>4, <1>5 DEF Typed

LEMMA RouteTyped == Typed /\ RouteStep => Typed'
<1>. SUFFICES ASSUME Typed, RouteStep PROVE Typed'
  OBVIOUS
<1>. USE UpTyped
     DEF Typed, rowVars, providerVars, handlerVars, faultVars, RowsTyped,
         JobsTyped, ProviderTyped, HandlersTyped
<1>1. ASSUME NEW d \in Deposits, EnqueueNotify(d) PROVE Typed'
  BY <1>1 DEF EnqueueNotify, FaultsTyped
<1>2. ASSUME NEW d \in Deposits, EnqueueLost(d) PROVE Typed'
  BY <1>2, FaultTyped DEF EnqueueLost
<1>3. ASSUME NEW d \in Deposits, GrowOld(d) PROVE Typed'
  BY <1>3 DEF GrowOld, FaultsTyped
<1>4. ASSUME NEW d \in Deposits, RecoverEnqueue(d) PROVE Typed'
  BY <1>4 DEF RecoverEnqueue, FaultsTyped
<1>5. ASSUME NEW d \in Deposits, NEW w \in Workers, TakeJob(w, d) PROVE Typed'
  BY <1>5, DepositAssumption DEF TakeJob, FaultsTyped
<1>. QED  BY <1>1, <1>2, <1>3, <1>4, <1>5 DEF RouteStep

LEMMA WorkerTyped == Typed /\ WorkerStep => Typed'
<1>. SUFFICES ASSUME Typed, NEW w \in Workers,
                     \/ CallProvider(w) \/ CallFails(w) \/ ResponseLost(w)
                     \/ RecordReference(w) \/ WorkerDies(w)
              PROVE  Typed'
  BY DEF WorkerStep
<1>. USE DEF Typed, rowVars, providerVars, handlerVars, faultVars, RowsTyped,
         JobsTyped, HandlersTyped
<1>0. worker[w].at # "idle"
  BY DEF CallProvider, CallFails, ResponseLost, RecordReference, WorkerDies
<1>1. CASE CallProvider(w)
  <2>1. ProviderTyped'
    BY <1>0, <1>1, WorkerHasDeposit, NewPaymentTyped DEF CallProvider
  <2>2. [worker[w] EXCEPT !.at = "answered"] \in
          [at : {"call", "answered"}, dep : Deposits]
    BY <1>0 DEF IdleWorker
  <2>. QED  BY <1>1, <2>1, <2>2 DEF CallProvider, FaultsTyped
<1>2. CASE CallFails(w)
  BY <1>2, FaultTyped DEF CallFails, ProviderTyped
<1>3. CASE ResponseLost(w)
  BY <1>0, <1>3, WorkerHasDeposit, NewPaymentTyped, FaultTyped
     DEF ResponseLost
<1>4. CASE RecordReference(w)
  BY <1>0, <1>4, WorkerHasDeposit
     DEF RecordReference, FaultsTyped, ProviderTyped
<1>5. CASE WorkerDies(w)
  BY <1>5, FaultTyped DEF WorkerDies, ProviderTyped
<1>. QED  BY <1>1, <1>2, <1>3, <1>4, <1>5

LEMMA ProviderKeepsTypes == Typed /\ ProviderStep => Typed'
<1>. SUFFICES ASSUME Typed, ProviderStep PROVE Typed'
  OBVIOUS
<1>. USE DEF Typed, rowVars, jobVars, handlerVars, faultVars, RowsTyped,
         JobsTyped, HandlersTyped
<1>1. ASSUME NEW d \in Deposits, NEW e \in Outcomes, TimerFires(d, e)
      PROVE  Typed'
  <2>1. ProviderTyped'
    BY <1>1, SendTyped, DepositAssumption DEF TimerFires, ProviderTyped
  <2>. QED  BY <1>1, <2>1 DEF TimerFires, FaultsTyped
<1>2. ASSUME NEW d \in Deposits, NEW e \in Outcomes, Trigger(d, e)
      PROVE  Typed'
  <2>1. ProviderTyped'
    BY <1>2, SendTyped DEF Trigger, ProviderTyped
  <2>. QED  BY <1>2, <2>1, FaultTyped DEF Trigger
<1>3. ASSUME NEW d \in Deposits, NEW e \in Outcomes, WebhookLost(d, e)
      PROVE  Typed'
  <2>1. ProviderTyped'
    BY <1>3, TakenTyped DEF WebhookLost
  <2>. QED  BY <1>3, <2>1, FaultTyped DEF WebhookLost
<1>4. CASE ProviderRestarts
  <2>1. ProviderTyped'
    BY <1>4, DepositAssumption DEF ProviderRestarts, ProviderTyped
  <2>. QED  BY <1>4, <2>1, FaultTyped DEF ProviderRestarts
<1>. QED  BY <1>1, <1>2, <1>3, <1>4 DEF ProviderStep

LEMMA HandlerKeepsTypes == Typed /\ HandlerStep => Typed'
<1>. SUFFICES ASSUME Typed, HandlerStep PROVE Typed'
  OBVIOUS
<1>. USE DEF Typed, rowVars, jobVars, providerVars, faultVars, JobsTyped
<1>1. ASSUME NEW h \in Handlers, NEW d \in Deposits, NEW e \in Outcomes,
             ReceiveWebhook(h, d, e)
      PROVE  Typed'
  <2>1. ProviderTyped'
    BY <1>1, TakenTyped DEF ReceiveWebhook
  <2>2. HandlersTyped'
    <3>1. [at |-> IF e = "completed" THEN "lock" ELSE "flush",
           dep |-> d, event |-> e] \in
            [at : {"lock", "flush", "commit"}, dep : Deposits,
             event : Outcomes]
      OBVIOUS
    <3>2. \A b \in BOOLEAN : [raced EXCEPT ![d] = b] \in [Deposits -> BOOLEAN]
      BY DEF HandlersTyped
    <3>3. raced' \in [Deposits -> BOOLEAN]
      BY <1>1, <3>2 DEF ReceiveWebhook, HandlersTyped
    <3>. QED
      BY <1>1, <3>1, <3>3 DEF ReceiveWebhook, HandlersTyped
  <2>. QED  BY <1>1, <2>1, <2>2 DEF ReceiveWebhook, RowsTyped, FaultsTyped
<1>2. ASSUME NEW h \in Handlers, LockAccounts(h) PROVE Typed'
  <2>1. [handler[h] EXCEPT !.at = "flush"] \in
          [at : {"lock", "flush", "commit"}, dep : Deposits, event : Outcomes]
    BY <1>2, HandlerHasWebhook DEF LockAccounts
  <2>2. HandlersTyped'
    BY <1>2, <2>1 DEF LockAccounts, HandlersTyped
  <2>. QED
    BY <1>2, <2>2 DEF LockAccounts, RowsTyped, ProviderTyped, FaultsTyped
<1>3. ASSUME NEW h \in Handlers, Flush(h) PROVE Typed'
  <2>1. [handler[h] EXCEPT !.at = "commit"] \in
          [at : {"lock", "flush", "commit"}, dep : Deposits, event : Outcomes]
    BY <1>3, HandlerHasWebhook DEF Flush
  <2>2. HandlersTyped'
    BY <1>3, <2>1 DEF Flush, HandlersTyped
  <2>. QED  BY <1>3, <2>2 DEF Flush, RowsTyped, ProviderTyped, FaultsTyped
<1>4. ASSUME NEW h \in Handlers, CommitHandler(h) PROVE Typed'
  <2>1. handler[h].dep \in Deposits
    BY <1>4, HandlerHasWebhook DEF CommitHandler
  <2>2. RowsTyped'
    BY <1>4, <2>1 DEF CommitHandler, Confirm, Fail, RowsTyped, Final
  <2>3. HandlersTyped'
    BY <1>4, ReleaseTyped DEF CommitHandler
  <2>. QED
    BY <1>4, <2>2, <2>3 DEF CommitHandler, ProviderTyped, FaultsTyped
<1>5. ASSUME NEW h \in Handlers, AbortHandler(h) PROVE Typed'
  BY <1>5, ReleaseTyped, FaultTyped
     DEF AbortHandler, RowsTyped, ProviderTyped
<1>. QED  BY <1>1, <1>2, <1>3, <1>4, <1>5 DEF HandlerStep

LEMMA NextTyped == Typed /\ [Next]_vars => Typed'
<1>. SUFFICES ASSUME Typed, [Next]_vars PROVE Typed'
  OBVIOUS
<1>. USE DEF Typed, rowVars, jobVars, providerVars, handlerVars, faultVars,
         RowsTyped, JobsTyped, ProviderTyped, HandlersTyped
<1>1. ASSUME NEW d \in Deposits, CreateDeposit(d) PROVE Typed'
  BY <1>1 DEF CreateDeposit, FaultsTyped
<1>2. CASE RecoverScan
  BY <1>2 DEF RecoverScan, FaultsTyped
<1>3. CASE RecoverDies
  BY <1>3, FaultTyped DEF RecoverDies
<1>4. CASE UNCHANGED vars
  BY <1>4 DEF vars, FaultsTyped
<1>. QED
  BY <1>1, <1>2, <1>3, <1>4, NextParts, RouteTyped, WorkerTyped,
     ProviderKeepsTypes, HandlerKeepsTypes

-----------------------------------------------------------------------------
(* The credits: they depend on the handlers alone.                         *)

CreditVars == <<status, credits, handler, raced>>

\* A handler that goes on waits less, and is at the same webhook.
Advance(h) ==
    /\ handler[h].at # "idle" /\ handler'[h].at # "idle"
    /\ handler'[h].dep = handler[h].dep
    /\ handler'[h].event = handler[h].event
    /\ \A g \in Handlers \ {h} : handler'[g] = handler[g]
    /\ UNCHANGED <<status, credits, raced>>

\* A handler that is rolled back is at nothing.
Leave(h) ==
    /\ handler' = [handler EXCEPT ![h] = IdleHandler]
    /\ UNCHANGED <<status, credits, raced>>

\* What a step can do to the credits.
LEMMA CreditSteps ==
  ASSUME Typed, Next
  PROVE  \/ \E d \in Deposits : CreateDeposit(d)
         \/ \E h \in Handlers, d \in Deposits, e \in Outcomes :
              ReceiveWebhook(h, d, e)
         \/ \E h \in Handlers : Advance(h) \/ CommitHandler(h) \/ Leave(h)
         \/ UNCHANGED CreditVars
<1>. USE DEF CreditVars, rowVars, handlerVars
<1>1. CASE RouteStep
  BY <1>1 DEF RouteStep, EnqueueNotify, EnqueueLost, GrowOld,
              RecoverEnqueue, TakeJob
<1>2. CASE WorkerStep
  BY <1>2 DEF WorkerStep, CallProvider, CallFails, ResponseLost,
              RecordReference, WorkerDies
<1>3. CASE ProviderStep
  BY <1>3 DEF ProviderStep, TimerFires, Trigger, WebhookLost,
              ProviderRestarts
<1>4. ASSUME NEW h \in Handlers, LockAccounts(h) \/ Flush(h)
      PROVE  Advance(h)
  BY <1>4 DEF Typed, HandlersTyped, LockAccounts, Flush, Advance, IdleHandler
<1>5. ASSUME NEW h \in Handlers, AbortHandler(h)
      PROVE  Leave(h)
  BY <1>5 DEF AbortHandler, Release, Leave
<1>6. CASE RecoverScan \/ RecoverDies
  BY <1>6 DEF RecoverScan, RecoverDies
<1>. QED
  BY <1>1, <1>2, <1>3, <1>4, <1>5, <1>6, NextParts DEF HandlerStep

\* Two handlers are at one deposit only after a race.
AloneUnlessRaced ==
    \A h, g \in Handlers, d \in Deposits :
        Handling(h, d) /\ Handling(g, d) /\ ~raced[d] => h = g

\* What the handler read of the status is still so, but for a race.
PendingWhileHandled ==
    \A h \in Handlers, d \in Deposits :
        Handling(h, d) /\ ~raced[d] => status[d] = "PENDING"

\* A deposit that has not ended has earned nothing, race or not.
PendingUncredited ==
    \A d \in Deposits : status[d] \in {"none", "PENDING"} => credits[d] = 0

CreditInv ==
    /\ Typed /\ AloneUnlessRaced /\ PendingWhileHandled
    /\ PendingUncredited /\ CreditedOnce /\ CreditsBounded

At(d) == {h \in Handlers : Handling(h, d)}

\* The handlers are finitely many, so those at a deposit are.
LEMMA AtFinite ==
  ASSUME NEW d
  PROVE  /\ IsFiniteSet(At(d)) /\ Cardinality(At(d)) \in Nat
         /\ Cardinality(At(d)) <= Cardinality(Handlers)
         /\ Cardinality(Handlers) \in Nat
<1>1. At(d) \subseteq Handlers /\ IsFiniteSet(Handlers)
  BY DepositAssumption DEF At
<1>. QED  BY <1>1, FS_Subset, FS_CardinalityType

\* A step of one handler: let in, on its way, at its commit, or rolled back.
LEMMA CreditInvStep ==
  ASSUME CreditInv, Next
  PROVE  /\ (AloneUnlessRaced /\ PendingWhileHandled /\ PendingUncredited)'
         /\ CreditedOnce'
<1>. USE DEF CreditInv, AloneUnlessRaced, PendingWhileHandled,
             PendingUncredited, CreditedOnce
<1>. DEFINE Goal ==
       /\ (AloneUnlessRaced /\ PendingWhileHandled /\ PendingUncredited)'
       /\ CreditedOnce'
<1>1. ASSUME NEW d \in Deposits, CreateDeposit(d)
      PROVE  Goal
  BY <1>1 DEF CreateDeposit, handlerVars, Typed, RowsTyped, Handling
<1>2. ASSUME NEW h \in Handlers, NEW d \in Deposits, NEW e \in Outcomes,
             ReceiveWebhook(h, d, e)
      PROVE  Goal
  <2>0. UNCHANGED <<status, credits>>
    BY <1>2 DEF ReceiveWebhook, rowVars
  <2>1. CASE UNCHANGED <<handler, raced>>
    BY <2>0, <2>1 DEF Handling
  <2>2. CASE StillPending(d)
    <3>1. /\ handler'[h].dep = d
          /\ \A g \in Handlers \ {h} : handler'[g] = handler[g]
          /\ \A c \in Deposits \ {d} : raced'[c] = raced[c]
          /\ handler[h].at = "idle"
      BY <1>2, <2>2 DEF ReceiveWebhook, Typed, HandlersTyped
    <3>2. ~raced'[d] => ~raced[d] /\ \A g \in Handlers : ~Handling(g, d)
      BY <1>2, <2>2 DEF ReceiveWebhook, Typed, HandlersTyped
    <3>3. \A g \in Handlers \ {h}, c \in Deposits :
            Handling(g, c)' <=> Handling(g, c)
      BY <3>1 DEF Handling
    <3>4. \A c \in Deposits : Handling(h, c)' => c = d
      BY <3>1 DEF Handling
    <3>5. status[d] = "PENDING"
      BY <2>2 DEF StillPending
    <3>6. AloneUnlessRaced'
      <4>. SUFFICES ASSUME NEW f \in Handlers, NEW g \in Handlers,
                           NEW c \in Deposits,
                           Handling(f, c)', Handling(g, c)', ~raced'[c]
                    PROVE  f = g
        OBVIOUS
      <4>1. CASE c = d
        BY <3>2, <3>3, <4>1
      <4>2. CASE c # d
        BY <3>1, <3>3, <3>4, <4>2
      <4>. QED  BY <4>1, <4>2
    <3>7. PendingWhileHandled'
      BY <2>0, <3>1, <3>2, <3>3, <3>4, <3>5
    <3>8. CreditedOnce'
      BY <2>0, <3>1, <3>2
    <3>. QED  BY <2>0, <3>6, <3>7, <3>8
  <2>. QED  BY <1>2, <2>1, <2>2 DEF ReceiveWebhook
<1>3. ASSUME NEW h \in Handlers, Advance(h)
      PROVE  Goal
  <2>1. \A g \in Handlers, d \in Deposits : Handling(g, d)' <=> Handling(g, d)
    BY <1>3 DEF Advance, Handling
  <2>. QED  BY <1>3, <2>1 DEF Advance
<1>4. ASSUME NEW h \in Handlers, Leave(h)
      PROVE  Goal
  <2>1. \A g \in Handlers, d \in Deposits : Handling(g, d)' => Handling(g, d)
    BY <1>4 DEF Leave, Handling, IdleHandler, Typed, HandlersTyped
  <2>. QED  BY <1>4, <2>1 DEF Leave
<1>5. ASSUME NEW h \in Handlers, CommitHandler(h)
      PROVE  Goal
  <2>1. PICK d \in Deposits : d = handler[h].dep
    BY <1>5, HandlerHasWebhook DEF CommitHandler
  <2>2. Handling(h, d)
    BY <1>5, <2>1 DEF CommitHandler, Handling
  <2>3. \A g \in Handlers, c \in Deposits :
          Handling(g, c)' => Handling(g, c) /\ g # h
    BY <1>5 DEF CommitHandler, Release, Handling, IdleHandler, Typed,
                HandlersTyped
  <2>4. /\ \A c \in Deposits \ {d} :
             status'[c] = status[c] /\ credits'[c] = credits[c]
        /\ \/ status'[d] = "COMPLETED" /\ credits'[d] = credits[d] + 1
           \/ status'[d] = "FAILED" /\ credits'[d] = credits[d]
        /\ raced' = raced
    BY <1>5, <2>1
       DEF CommitHandler, Confirm, Fail, Release, Typed, RowsTyped
  <2>5. AloneUnlessRaced'
    BY <2>3, <2>4
  <2>6. PendingWhileHandled'
    BY <2>2, <2>3, <2>4
  <2>7. PendingUncredited'
    BY <2>4
  <2>8. CreditedOnce'
    <3>1. ~raced[d] => credits[d] = 0
      BY <2>2
    <3>. QED  BY <2>4, <3>1
  <2>. QED  BY <2>5, <2>6, <2>7, <2>8
<1>6. CASE UNCHANGED CreditVars
  BY <1>6 DEF CreditVars, Handling
<1>. QED  BY <1>1, <1>2, <1>3, <1>4, <1>5, <1>6, CreditSteps

\* Every credit is paid for by a handler that leaves the deposit.
LEMMA BoundedStep ==
  ASSUME CreditInv, Next
  PROVE  CreditsBounded'
<1>. SUFFICES ASSUME NEW d \in Deposits
              PROVE  credits'[d] + Cardinality(At(d)') <= Cardinality(Handlers)
  BY DEF CreditsBounded, At
<1>0. /\ credits[d] + Cardinality(At(d)) <= Cardinality(Handlers)
      /\ credits[d] \in Nat /\ Cardinality(At(d)) \in Nat
      /\ IsFiniteSet(At(d)) /\ Cardinality(Handlers) \in Nat
  BY AtFinite DEF CreditInv, CreditsBounded, At, Typed, RowsTyped
<1>1. ASSUME credits'[d] = credits[d], At(d)' \subseteq At(d)
      PROVE  credits'[d] + Cardinality(At(d)') <= Cardinality(Handlers)
  BY <1>0, <1>1, FS_Subset, FS_CardinalityType
<1>2. ASSUME NEW c \in Deposits, CreateDeposit(c)
      PROVE  credits'[d] = credits[d] /\ At(d)' \subseteq At(d)
  BY <1>2 DEF CreateDeposit, handlerVars, At, Handling
<1>3. ASSUME NEW h \in Handlers, NEW c \in Deposits, NEW e \in Outcomes,
             ReceiveWebhook(h, c, e)
      PROVE  credits'[d] + Cardinality(At(d)') <= Cardinality(Handlers)
  <2>1. credits' = credits
    BY <1>3 DEF ReceiveWebhook, rowVars
  <2>2. CASE c = d /\ StillPending(c)
    <3>1. credits[d] = 0
      BY <2>2 DEF StillPending, CreditInv, PendingUncredited
    <3>2. At(d)' \subseteq Handlers /\ IsFiniteSet(Handlers)
      BY DepositAssumption DEF At
    <3>3. /\ Cardinality(At(d)') <= Cardinality(Handlers)
          /\ Cardinality(At(d)') \in Nat
      BY <3>2, FS_Subset, FS_CardinalityType
    <3>. QED  BY <2>1, <3>1, <3>3, <1>0
  <2>3. CASE c # d \/ ~StillPending(c)
    <3>1. At(d)' \subseteq At(d)
      BY <1>3, <2>3
         DEF ReceiveWebhook, At, Handling, CreditInv, Typed, HandlersTyped
    <3>. QED  BY <1>1, <2>1, <3>1
  <2>. QED  BY <2>2, <2>3
<1>4. ASSUME NEW h \in Handlers, Advance(h) \/ Leave(h)
      PROVE  credits'[d] = credits[d] /\ At(d)' \subseteq At(d)
  BY <1>4 DEF Advance, Leave, At, Handling, IdleHandler, CreditInv, Typed,
              HandlersTyped
<1>5. ASSUME NEW h \in Handlers, CommitHandler(h)
      PROVE  credits'[d] + Cardinality(At(d)') <= Cardinality(Handlers)
  <2>1. At(d)' \subseteq At(d) \ {h}
    BY <1>5 DEF CommitHandler, Release, At, Handling, IdleHandler, CreditInv,
                Typed, HandlersTyped
  <2>2. handler[h].dep \in Deposits
    BY <1>5, HandlerHasWebhook DEF CommitHandler, CreditInv
  <2>3. CASE handler[h].dep = d
    <3>1. h \in At(d)
      BY <1>5, <2>3 DEF CommitHandler, At, Handling
    <3>2. /\ IsFiniteSet(At(d) \ {h})
          /\ Cardinality(At(d) \ {h}) = Cardinality(At(d)) - 1
      BY <1>0, <3>1, FS_RemoveElement
    <3>3. /\ Cardinality(At(d)') <= Cardinality(At(d)) - 1
          /\ Cardinality(At(d)') \in Nat
      BY <2>1, <3>2, FS_Subset, FS_CardinalityType
    <3>4. credits'[d] \in {credits[d], credits[d] + 1}
      BY <1>5, <2>3 DEF CommitHandler, Confirm, Fail, CreditInv, Typed,
                        RowsTyped
    <3>. QED  BY <1>0, <3>3, <3>4
  <2>4. CASE handler[h].dep # d
    <3>1. credits'[d] = credits[d]
      BY <1>5, <2>2, <2>4 DEF CommitHandler, Confirm, Fail, CreditInv, Typed,
                              RowsTyped
    <3>. QED  BY <1>1, <2>1, <3>1
  <2>. QED  BY <2>3, <2>4
<1>6. CASE UNCHANGED CreditVars
  <2>1. credits'[d] = credits[d] /\ At(d)' \subseteq At(d)
    BY <1>6 DEF CreditVars, At, Handling
  <2>. QED  BY <1>1, <2>1
<1>. QED
  BY <1>1, <1>2, <1>3, <1>4, <1>5, <1>6, CreditSteps DEF CreditInv

-----------------------------------------------------------------------------
(* The outcomes: what is under way from the provider was said by it.       *)

SaidVars == <<status, credits, handler, wire, said>>

WireSaid ==
    \A d \in Deposits, e \in Outcomes : wire[d][e] > 0 => e \in said[d]

HandledSaid ==
    \A h \in Handlers :
        handler[h].at # "idle" => handler[h].event \in said[handler[h].dep]

SaidInv == WireSaid /\ HandledSaid /\ OutcomeFromProvider

\* A webhook taken off the wire leaves what is still on it.
LEMMA TakenWasThere ==
  ASSUME Typed, NEW d \in Deposits, NEW e \in Outcomes,
         wire' = [wire EXCEPT ![d][e] = @ - 1], wire[d][e] > 0
  PROVE  \A c \in Deposits, f \in Outcomes : wire'[c][f] > 0 => wire[c][f] > 0
<1>1. wire' = [wire EXCEPT ![d] = [wire[d] EXCEPT ![e] = wire[d][e] - 1]]
  OBVIOUS
<1>. QED  BY <1>1 DEF Typed, ProviderTyped

\* A webhook sent is one the provider has said.
LEMMA SentIsSaid ==
  ASSUME Typed, SaidInv, NEW d \in Deposits, NEW e \in Outcomes, Send(d, e),
         UNCHANGED <<status, credits, handler>>
  PROVE  SaidInv'
<1>1. /\ said'[d] = said[d] \cup {e}
      /\ \A c \in Deposits \ {d} : said'[c] = said[c]
  BY DEF Send, Typed, ProviderTyped
<1>2. \A c \in Deposits, f \in Outcomes :
        wire'[c][f] > 0 => wire[c][f] > 0 \/ (c = d /\ f = e)
  <2>1. wire' = [wire EXCEPT ![d] = [wire[d] EXCEPT ![e] = Up(wire[d][e])]]
    BY DEF Send
  <2>. QED  BY <2>1 DEF Typed, ProviderTyped
<1>3. WireSaid'
  BY <1>1, <1>2 DEF SaidInv, WireSaid
<1>4. HandledSaid'
  BY <1>1, HandlerHasWebhook DEF SaidInv, HandledSaid
<1>5. OutcomeFromProvider'
  BY <1>1 DEF SaidInv, OutcomeFromProvider
<1>. QED  BY <1>3, <1>4, <1>5 DEF SaidInv

\* A step of the provider keeps it so, a restart too.
LEMMA ProviderSays == Typed /\ SaidInv /\ ProviderStep => SaidInv'
<1>. SUFFICES ASSUME Typed, SaidInv, ProviderStep PROVE SaidInv'
  OBVIOUS
<1>1. ASSUME NEW d \in Deposits, NEW e \in Outcomes,
             TimerFires(d, e) \/ Trigger(d, e)
      PROVE  SaidInv'
  BY <1>1, SentIsSaid DEF TimerFires, Trigger, rowVars, handlerVars
<1>2. ASSUME NEW d \in Deposits, NEW e \in Outcomes, WebhookLost(d, e)
      PROVE  SaidInv'
  <2>1. UNCHANGED <<status, credits, handler, said>>
    BY <1>2 DEF WebhookLost, rowVars, handlerVars
  <2>2. \A c \in Deposits, f \in Outcomes :
          wire'[c][f] > 0 => wire[c][f] > 0
    BY <1>2, TakenWasThere DEF WebhookLost
  <2>. QED
    BY <2>1, <2>2 DEF SaidInv, WireSaid, HandledSaid, OutcomeFromProvider
<1>3. CASE ProviderRestarts
  BY <1>3 DEF ProviderRestarts, rowVars, handlerVars, SaidInv, WireSaid,
              HandledSaid, OutcomeFromProvider
<1>. QED  BY <1>1, <1>2, <1>3 DEF ProviderStep

\* A handler acts on what was on the wire.
LEMMA HandlersRepeat == Typed /\ SaidInv /\ HandlerStep => SaidInv'
<1>. SUFFICES ASSUME Typed, SaidInv, HandlerStep PROVE SaidInv'
  OBVIOUS
<1>. USE DEF SaidInv
<1>1. ASSUME NEW h \in Handlers, NEW d \in Deposits, NEW e \in Outcomes,
             ReceiveWebhook(h, d, e)
      PROVE  SaidInv'
  <2>1. UNCHANGED <<status, credits, said>>
    BY <1>1 DEF ReceiveWebhook, rowVars
  <2>2. \A c \in Deposits, f \in Outcomes :
          wire'[c][f] > 0 => wire[c][f] > 0
    BY <1>1, TakenWasThere DEF ReceiveWebhook
  <2>3. e \in said[d]
    BY <1>1 DEF ReceiveWebhook, WireSaid
  <2>4. HandledSaid'
    BY <1>1, <2>1, <2>3
       DEF ReceiveWebhook, HandledSaid, Typed, HandlersTyped
  <2>. QED  BY <2>1, <2>2, <2>4 DEF WireSaid, OutcomeFromProvider
<1>2. ASSUME NEW h \in Handlers,
             LockAccounts(h) \/ Flush(h) \/ AbortHandler(h)
      PROVE  SaidInv'
  <2>1. UNCHANGED <<status, credits, wire, said>>
    BY <1>2 DEF LockAccounts, Flush, AbortHandler, rowVars, providerVars
  <2>2. \A g \in Handlers :
          handler'[g].at # "idle" =>
            /\ handler[g].at # "idle"
            /\ handler'[g].dep = handler[g].dep
            /\ handler'[g].event = handler[g].event
    BY <1>2 DEF LockAccounts, Flush, AbortHandler, Release, IdleHandler,
                Typed, HandlersTyped
  <2>. QED
    BY <2>1, <2>2 DEF WireSaid, HandledSaid, OutcomeFromProvider
<1>3. ASSUME NEW h \in Handlers, CommitHandler(h)
      PROVE  SaidInv'
  <2>1. PICK d \in Deposits : d = handler[h].dep
    BY <1>3, HandlerHasWebhook DEF CommitHandler
  <2>2. UNCHANGED <<wire, said>>
    BY <1>3 DEF CommitHandler, providerVars
  <2>3. \A g \in Handlers :
          handler'[g].at # "idle" => handler'[g] = handler[g]
    BY <1>3 DEF CommitHandler, Release, IdleHandler, Typed, HandlersTyped
  <2>4. handler[h].event \in Outcomes /\ handler[h].event \in said[d]
    BY <1>3, <2>1, HandlerHasWebhook DEF CommitHandler, HandledSaid
  <2>5. /\ \A c \in Deposits \ {d} :
             status'[c] = status[c] /\ credits'[c] = credits[c]
        /\ \/ status'[d] = "COMPLETED" /\ "completed" \in said[d]
           \/ /\ status'[d] = "FAILED" /\ "failed" \in said[d]
              /\ credits'[d] = credits[d]
    BY <1>3, <2>1, <2>4
       DEF CommitHandler, Confirm, Fail, Outcomes, Typed, RowsTyped
  <2>6. OutcomeFromProvider'
    BY <2>2, <2>5 DEF OutcomeFromProvider
  <2>. QED  BY <2>2, <2>3, <2>6 DEF WireSaid, HandledSaid
<1>. QED  BY <1>1, <1>2, <1>3 DEF HandlerStep

\* All other steps leave the outcomes alone, or begin a deposit.
LEMMA SaidInvStep == Typed /\ SaidInv /\ [Next]_vars => SaidInv'
<1>. SUFFICES ASSUME Typed, SaidInv, [Next]_vars PROVE SaidInv'
  OBVIOUS
<1>1. ASSUME UNCHANGED SaidVars PROVE SaidInv'
  BY <1>1 DEF SaidVars, SaidInv, WireSaid, HandledSaid, OutcomeFromProvider
<1>2. ASSUME NEW d \in Deposits, CreateDeposit(d) PROVE SaidInv'
  BY <1>2 DEF CreateDeposit, handlerVars, providerVars, SaidInv, WireSaid,
              HandledSaid, OutcomeFromProvider, Typed, RowsTyped
<1>. USE DEF SaidVars, rowVars, providerVars, handlerVars
<1>3. RouteStep => UNCHANGED SaidVars
  BY DEF RouteStep, EnqueueNotify, EnqueueLost, GrowOld, RecoverEnqueue,
         TakeJob
<1>4. WorkerStep => UNCHANGED SaidVars
  BY DEF WorkerStep, CallProvider, CallFails, ResponseLost, RecordReference,
         WorkerDies, NewPayment
<1>5. RecoverScan \/ RecoverDies \/ UNCHANGED vars => UNCHANGED SaidVars
  BY DEF RecoverScan, RecoverDies, vars
<1>. QED
  BY <1>1, <1>2, <1>3, <1>4, <1>5, NextParts, ProviderSays, HandlersRepeat

-----------------------------------------------------------------------------
(* The theorems.                                                           *)

DepositInv == CreditInv /\ SaidInv

\* It holds at the start.
LEMMA InitDeposit == Init => DepositInv
<1>. SUFFICES ASSUME Init PROVE DepositInv
  OBVIOUS
<1>1. Typed
  BY InitTyped
<1>2. /\ AloneUnlessRaced /\ PendingWhileHandled
      /\ PendingUncredited /\ CreditedOnce
  BY DEF Init, AloneUnlessRaced, PendingWhileHandled, PendingUncredited,
         CreditedOnce, Handling, IdleHandler
<1>3. CreditsBounded
  <2>1. \A d \in Deposits : At(d) = {} /\ credits[d] = 0
    BY DEF Init, At, Handling, IdleHandler
  <2>2. \A d \in Deposits : Cardinality(At(d)) = 0
    BY <2>1, FS_EmptySet
  <2>3. Cardinality(Handlers) \in Nat
    BY DepositAssumption, FS_CardinalityType
  <2>4. \A d \in Deposits :
          credits[d] + Cardinality(At(d)) <= Cardinality(Handlers)
    BY <2>1, <2>2, <2>3
  <2>. QED  BY <2>4 DEF CreditsBounded, At
<1>4. SaidInv
  BY DEF Init, SaidInv, WireSaid, HandledSaid, OutcomeFromProvider,
         IdleHandler
<1>. QED  BY <1>1, <1>2, <1>3, <1>4 DEF DepositInv, CreditInv

\* Every step keeps it.
LEMMA NextDeposit == DepositInv /\ [Next]_vars => DepositInv'
<1>. SUFFICES ASSUME DepositInv, [Next]_vars PROVE DepositInv'
  OBVIOUS
<1>1. Typed' /\ SaidInv'
  BY NextTyped, SaidInvStep DEF DepositInv, CreditInv
<1>2. CASE Next
  BY <1>1, <1>2, CreditInvStep, BoundedStep DEF DepositInv, CreditInv
<1>3. CASE UNCHANGED vars
  BY <1>1, <1>3
     DEF vars, rowVars, handlerVars, DepositInv, CreditInv, AloneUnlessRaced,
         PendingWhileHandled, PendingUncredited, CreditedOnce, CreditsBounded,
         Handling
<1>. QED  BY <1>2, <1>3

\* So it holds always.
LEMMA DepositInvHolds == Spec => []DepositInv
  BY InitDeposit, NextDeposit, PTL DEF Spec

\* Every variable keeps its type, for any instance and any faults.
THEOREM DepositTypes == Spec => []TypeOK
  BY InitTyped, NextTyped, TypedIsTypeOK, PTL DEF Spec

\* Whatever is lost, repeated or restarted between the route, the queue and
\* the provider: a deposit no two handlers were at is credited once if it is
\* COMPLETED and not at all otherwise (confirm_deposit, fail_deposit).
THEOREM OnceCredited == Spec => []CreditedOnce
<1>1. DepositInv => CreditedOnce
  BY DEF DepositInv, CreditInv
<1>. QED  BY <1>1, DepositInvHolds, PTL

\* Even with races, each web worker credits a deposit once at most.
THEOREM CreditsAreBounded == Spec => []CreditsBounded
<1>1. DepositInv => CreditsBounded
  BY DEF DepositInv, CreditInv
<1>. QED  BY <1>1, DepositInvHolds, PTL

\* A deposit completes, fails or earns a credit only on the provider's word.
THEOREM OutcomeIsSaid == Spec => []OutcomeFromProvider
<1>1. DepositInv => OutcomeFromProvider
  BY DEF DepositInv, SaidInv
<1>. QED  BY <1>1, DepositInvHolds, PTL

\* A final status changes only if two handlers were let in while the deposit
\* was PENDING.
THEOREM FinalForGood == Spec => FinalStaysFinal
<1>1. ASSUME DepositInv, [Next]_vars, NEW d \in Deposits,
             status[d] \in Final, ~raced'[d]
      PROVE  status'[d] = status[d]
  <2>. USE <1>1 DEF DepositInv, CreditInv
  <2>1. ASSUME NEW c \in Deposits, CreateDeposit(c)
        PROVE  status'[d] = status[d]
    BY <2>1 DEF CreateDeposit, Typed, RowsTyped, Final
  <2>2. ASSUME NEW h \in Handlers, CommitHandler(h)
        PROVE  status'[d] = status[d]
    <3>1. CASE handler[h].dep = d
      <4>1. Handling(h, d) /\ ~raced[d]
        BY <2>2, <3>1 DEF CommitHandler, Release, Handling
      <4>2. status[d] = "PENDING"
        BY <4>1 DEF PendingWhileHandled
      <4>. QED  BY <4>2 DEF Final
    <3>2. CASE handler[h].dep # d
      BY <2>2, <3>2 DEF CommitHandler, Confirm, Fail, Typed, RowsTyped
    <3>. QED  BY <3>1, <3>2
  <2>3. ASSUME UNCHANGED CreditVars
        PROVE  status'[d] = status[d]
    BY <2>3 DEF CreditVars
  <2>4. CASE UNCHANGED vars
    BY <2>3, <2>4 DEF vars, rowVars
  <2>5. CASE Next
    BY <2>1, <2>2, <2>3, <2>5, CreditSteps
       DEF ReceiveWebhook, rowVars, Advance, Leave
  <2>. QED  BY <2>4, <2>5
<1>2. ASSUME DepositInv, [Next]_vars
      PROVE  [\A d \in Deposits :
                status[d] \in Final /\ ~raced'[d]
                  => status'[d] = status[d]]_vars
  BY <1>1, <1>2
<1>. QED  BY <1>2, DepositInvHolds, PTL DEF Spec, FinalStaysFinal
=============================================================================
