---------------------- MODULE TransferRequestsProofs ------------------------
(***************************************************************************)
(* Proofs about TransferRequests, for any number of workers, keys, bodies  *)
(* and transactions.  A step of the composition is a step of the requests, *)
(* a step of the mails, or both (RunTransfer): each component keeps an     *)
(* inductive invariant of its own, and the theorems join them.             *)
(***************************************************************************)
EXTENDS TransferRequests, TLAPS

-----------------------------------------------------------------------------
(* What a step of the composition is for each component.                   *)

\* The requests see a step of theirs, or one that only clears the answer.
QuietStep == answer' = None /\ UNCHANGED requestState

\* A step of Next is one of the requests or leaves them alone.
LEMMA StepOfRequests == Next => RequestNext \/ QuietStep
  BY DEF Next, Arrive, RunTransfer, Serve, Forget, DeleteRecords,
         DeliverMail, RequestNext, QuietStep

\* A step of Next is one of the mails or leaves them alone: the mail that
\* RunTransfer queues is one of MailIds, as the sequence is below its bound.
LEMMA StepOfMails ==
  ASSUME RequestTypeOK, Next
  PROVE  MailNext \/ UNCHANGED mailVars
<1>1. ASSUME NEW h \in Handlers, RunTransfer(h)
      PROVE  MailNext
  <2>1. lastTxn + 1 \in MailIds
    BY <1>1, MailIdsAssumption, RequestsAssumption
       DEF RunTransfer, Run, RequestTypeOK
  <2>2. PICK m \in MailIds : m = lastTxn + 1
    BY <2>1
  <2>3. EnqueueMail(m)
    BY <1>1, <2>2 DEF RunTransfer, EnqueueMail
  <2>. QED  BY <2>3 DEF MailNext
<1>. QED
  BY <1>1 DEF Next, Arrive, Serve, Forget, DeleteRecords, DeliverMail,
              MailNext

-----------------------------------------------------------------------------
(* The requests: type correctness.                                         *)

\* A request that has begun a transaction knows its id.
TxnGiven ==
    \A h \in Handlers :
        at[h] \in {"commit", "save", "answer"} => underway[h] # 0

RequestsTyped == RequestTypeOK /\ TxnGiven

\* What the route would remember of its request is a response.
LEMMA ResponseTyped ==
  ASSUME RequestsTyped, NEW h \in Handlers, at[h] \in {"save", "answer"}
  PROVE  /\ Response(h) \in Responses
         /\ Response(h) # None
         /\ Response(h).body = Body(h) /\ Response(h).txn = underway[h]
  BY RequestsAssumption
     DEF RequestsTyped, RequestTypeOK, TxnGiven, Response, Body, Requests,
         Responses

\* A response sent again has the type of an answer.
LEMMA ReplayTyped ==
  ASSUME RequestTypeOK, NEW h \in Handlers, at[h] # "idle",
         NEW r \in Responses
  PROVE  Replay(h, r) \in
           [txn : Nat \ {0}, key : RequestKeys, body : Bodies] \cup {None}
  BY DEF RequestTypeOK, Replay, Key, Body, Requests, Responses

\* A step of the requests keeps the types.
LEMMA RequestsTypedStep ==
  ASSUME RequestsTyped, RequestNext
  PROVE  RequestsTyped'
<1>. USE DEF RequestsTyped, RequestTypeOK, TxnGiven
<1>1. ASSUME NEW h \in Handlers, NEW r \in Requests, Receive(h, r)
      PROVE  RequestsTyped'
  BY <1>1 DEF Receive
<1>2. ASSUME NEW h \in Handlers, LookCache(h)
      PROVE  RequestsTyped'
  <2>1. Key(h) \in RequestKeys
    BY <1>2 DEF LookCache, Key, Requests
  <2>2. CASE cached[Key(h)] # None
    BY <1>2, <2>1, <2>2, ReplayTyped DEF LookCache, Finish
  <2>3. CASE cached[Key(h)] = None
    BY <1>2, <2>1, <2>3 DEF LookCache
  <2>. QED  BY <2>2, <2>3
<1>3. ASSUME NEW h \in Handlers, LookRecord(h)
      PROVE  RequestsTyped'
  <2>1. Key(h) \in RequestKeys
    BY <1>3 DEF LookRecord, Key, Requests
  <2>2. CASE recorded[Key(h)] # None
    <3>1. recorded[Key(h)] \in Responses
      BY <2>1, <2>2
    <3>2. Replay(h, recorded[Key(h)]) \in
            [txn : Nat \ {0}, key : RequestKeys, body : Bodies] \cup {None}
      BY <1>3, <3>1, ReplayTyped DEF LookRecord
    <3>3. cached' = [cached EXCEPT ![Key(h)] = recorded[Key(h)]]
      BY <1>3, <2>2 DEF LookRecord
    <3>4. cached' \in [RequestKeys -> Responses \cup {None}]
      BY <2>1, <3>1, <3>3
    <3>5. /\ Finish(h) /\ answer' = Replay(h, recorded[Key(h)])
          /\ UNCHANGED <<recorded, lastTxn, effects, raced, forgotten>>
      BY <1>3, <2>2 DEF LookRecord
    <3>. QED
      BY <3>2, <3>4, <3>5 DEF Finish
  <2>3. CASE recorded[Key(h)] = None
    BY <1>3, <2>1, <2>3 DEF LookRecord
  <2>. QED  BY <2>2, <2>3
<1>4. ASSUME NEW h \in Handlers, Run(h)
      PROVE  RequestsTyped'
  BY <1>4 DEF Run
<1>5. ASSUME NEW h \in Handlers, CommitRoute(h)
      PROVE  RequestsTyped'
  <2>1. [txn |-> underway[h], key |-> Key(h), body |-> Body(h)] \in
          [txn : Nat \ {0}, key : RequestKeys, body : Bodies]
    BY <1>5 DEF CommitRoute, Key, Body, Requests
  <2>. QED  BY <1>5, <2>1 DEF CommitRoute
<1>6. ASSUME NEW h \in Handlers, Save(h)
      PROVE  RequestsTyped'
  <2>1. Response(h) \in Responses
    BY <1>6, ResponseTyped DEF Save
  <2>. QED  BY <1>6, <2>1 DEF Save
<1>7. ASSUME NEW h \in Handlers, Answer(h)
      PROVE  RequestsTyped'
  <2>1. Replay(h, Response(h)) \in
          [txn : Nat \ {0}, key : RequestKeys, body : Bodies] \cup {None}
    BY <1>7, ResponseTyped, ReplayTyped DEF Answer
  <2>. QED  BY <1>7, <2>1 DEF Answer, Finish
<1>8. ASSUME NEW h \in Handlers, Abort(h)
      PROVE  RequestsTyped'
  BY <1>8 DEF Abort, Finish
<1>9. ASSUME NEW h \in Handlers, LoseResponse(h)
      PROVE  RequestsTyped'
  <2>1. Key(h) \in RequestKeys
    BY <1>9 DEF LoseResponse, Key, Requests
  <2>. QED  BY <1>9, <2>1 DEF LoseResponse, Finish
<1>10. ASSUME NEW k \in RequestKeys, ExpireCache(k)
       PROVE  RequestsTyped'
  BY <1>10 DEF ExpireCache
<1>11. CASE CleanUp
  BY <1>11 DEF CleanUp
<1>. QED
  BY <1>1, <1>2, <1>3, <1>4, <1>5, <1>6, <1>7, <1>8, <1>9, <1>10, <1>11
     DEF RequestNext, RequestStep

-----------------------------------------------------------------------------
(* The answers: every response that is held somewhere is of an effect.     *)

Backed(k, r) ==
    r # None => [txn |-> r.txn, key |-> k, body |-> r.body] \in effects

\* The responses in the cache, in the table, and in the hands of a worker
\* whose route has committed.
ResponsesBacked ==
    /\ \A k \in RequestKeys : Backed(k, cached[k]) /\ Backed(k, recorded[k])
    /\ \A h \in Handlers :
         at[h] \in {"save", "answer"} => Backed(Key(h), Response(h))

AnswerInv == RequestsTyped /\ ResponsesBacked /\ AnswersAreEffects

\* A backed response is sent again as the effect that backs it, or refused.
LEMMA ReplayIsEffect ==
  ASSUME NEW h \in Handlers, NEW r, r # None, Backed(Key(h), r),
         answer' = Replay(h, r), effects' = effects
  PROVE  AnswersAreEffects'
  BY DEF Replay, Backed, AnswersAreEffects

\* A step of the requests keeps the responses backed, and what it answers is
\* an effect.
LEMMA AnswerInvStep ==
  ASSUME AnswerInv, RequestNext
  PROVE  (ResponsesBacked /\ AnswersAreEffects)'
<1>. DEFINE Goal == (ResponsesBacked /\ AnswersAreEffects)'
<1>. USE DEF AnswerInv, RequestsTyped, RequestTypeOK, ResponsesBacked, Backed
<1>1. ASSUME NEW h \in Handlers, NEW r \in Requests, Receive(h, r)
      PROVE  Goal
  BY <1>1 DEF Receive, Key, Body, Response, AnswersAreEffects
<1>2. ASSUME NEW h \in Handlers, LookCache(h)
      PROVE  Goal
  <2>1. Key(h) \in RequestKeys
    BY <1>2 DEF LookCache, Key, Requests
  <2>2. CASE cached[Key(h)] # None
    <3>1. AnswersAreEffects'
      BY <1>2, <2>1, <2>2, ReplayIsEffect DEF LookCache
    <3>2. ResponsesBacked'
      BY <1>2, <2>2 DEF LookCache, Finish, Key, Body, Response
    <3>. QED  BY <3>1, <3>2
  <2>3. CASE cached[Key(h)] = None
    BY <1>2, <2>3
       DEF LookCache, Key, Body, Response, AnswersAreEffects
  <2>. QED  BY <2>2, <2>3
<1>3. ASSUME NEW h \in Handlers, LookRecord(h)
      PROVE  Goal
  <2>1. Key(h) \in RequestKeys
    BY <1>3 DEF LookRecord, Key, Requests
  <2>2. CASE recorded[Key(h)] # None
    <3>1. /\ answer' = Replay(h, recorded[Key(h)])
          /\ cached' = [cached EXCEPT ![Key(h)] = recorded[Key(h)]]
          /\ UNCHANGED <<recorded, effects>>
          /\ Finish(h)
      BY <1>3, <2>2 DEF LookRecord
    <3>2. AnswersAreEffects'
      BY <2>1, <2>2, <3>1, ReplayIsEffect
    <3>3. \A k \in RequestKeys :
            Backed(k, cached[k])' /\ Backed(k, recorded[k])'
      BY <2>1, <3>1
    <3>4. \A d \in Handlers :
            at'[d] \in {"save", "answer"} => Backed(Key(d), Response(d))'
      BY <3>1 DEF Finish, Key, Body, Response
    <3>. QED  BY <3>2, <3>3, <3>4
  <2>3. CASE recorded[Key(h)] = None
    BY <1>3, <2>3
       DEF LookRecord, Key, Body, Response, AnswersAreEffects
  <2>. QED  BY <2>2, <2>3
<1>4. ASSUME NEW h \in Handlers, Run(h)
      PROVE  Goal
  BY <1>4 DEF Run, Key, Body, Response, AnswersAreEffects
<1>5. ASSUME NEW h \in Handlers, CommitRoute(h)
      PROVE  Goal
  BY <1>5 DEF CommitRoute, Key, Body, Response, AnswersAreEffects
<1>6. ASSUME NEW h \in Handlers, Save(h)
      PROVE  Goal
  <2>1. Key(h) \in RequestKeys
    BY <1>6 DEF Save, Key, Requests
  <2>2. Backed(Key(h), Response(h))
    BY <1>6 DEF Save
  <2>3. \A k \in RequestKeys :
          Backed(k, cached[k])' /\ Backed(k, recorded[k])'
    BY <1>6, <2>1, <2>2 DEF Save
  <2>4. \A d \in Handlers :
          at'[d] \in {"save", "answer"} => Backed(Key(d), Response(d))'
    BY <1>6, <2>2 DEF Save, Key, Body, Response
  <2>. QED  BY <1>6, <2>3, <2>4 DEF Save, AnswersAreEffects
<1>7. ASSUME NEW h \in Handlers, Answer(h)
      PROVE  Goal
  <2>1. AnswersAreEffects'
    BY <1>7, ResponseTyped, ReplayIsEffect DEF Answer
  <2>2. ResponsesBacked'
    BY <1>7 DEF Answer, Finish, Key, Body, Response
  <2>. QED  BY <2>1, <2>2
<1>8. ASSUME NEW h \in Handlers, Abort(h)
      PROVE  Goal
  BY <1>8 DEF Abort, Finish, Key, Body, Response, AnswersAreEffects
<1>9. ASSUME NEW h \in Handlers, LoseResponse(h)
      PROVE  Goal
  BY <1>9 DEF LoseResponse, Finish, Key, Body, Response, AnswersAreEffects
<1>10. ASSUME NEW k \in RequestKeys, ExpireCache(k)
       PROVE  Goal
  BY <1>10 DEF ExpireCache, Key, Body, Response, AnswersAreEffects
<1>11. CASE CleanUp
  BY <1>11 DEF CleanUp, Key, Body, Response, AnswersAreEffects
<1>. QED
  BY <1>1, <1>2, <1>3, <1>4, <1>5, <1>6, <1>7, <1>8, <1>9, <1>10, <1>11
     DEF RequestNext, RequestStep

-----------------------------------------------------------------------------
(* The effects: what keeps a second request with a key from running.       *)

Missed == {"record", "run", "commit", "save"}

\* Two requests that have both missed with one key have raced.
OverlapsRaced ==
    \A h, d \in Handlers :
        h # d /\ at[h] \in Missed /\ at[d] \in Missed /\ Key(h) = Key(d)
          => Key(h) \in raced

Clear == RequestKeys \ (raced \cup forgotten)

\* Once a request has had its effect, no other one with its key is on its way
\* to an effect, and its response is in the cache or about to be.
EffectKeepsOut ==
    \A k \in Clear, e \in effects :
        e.key = k =>
          /\ \A h \in Handlers :
               at[h] \in {"record", "run", "commit"} => Key(h) # k
          /\ \/ cached[k] # None
             \/ \E h \in Handlers : at[h] = "save" /\ Key(h) = k

OnceInv == RequestsTyped /\ OverlapsRaced /\ EffectKeepsOut /\ RunsOnce

\* A step of the requests keeps it so.
LEMMA OnceInvStep ==
  ASSUME OnceInv, RequestNext
  PROVE  (OverlapsRaced /\ EffectKeepsOut /\ RunsOnce)'
<1>. DEFINE Goal == (OverlapsRaced /\ EffectKeepsOut /\ RunsOnce)'
<1>. USE DEF OnceInv, RequestsTyped, RequestTypeOK, OverlapsRaced,
             EffectKeepsOut, RunsOnce, Repeated, Clear, Missed
<1>1. ASSUME NEW h \in Handlers, NEW r \in Requests, Receive(h, r)
      PROVE  Goal
  BY <1>1 DEF Receive, Key
<1>2. ASSUME NEW h \in Handlers, LookCache(h)
      PROVE  Goal
  <2>1. Key(h) \in RequestKeys
    BY <1>2 DEF LookCache, Key, Requests
  <2>2. CASE cached[Key(h)] # None
    BY <1>2, <2>2 DEF LookCache, Finish, Key
  <2>3. CASE cached[Key(h)] = None
    <3>1. /\ at[h] = "cache" /\ at' = [at EXCEPT ![h] = "record"]
          /\ UNCHANGED <<request, cached, effects, forgotten>>
      BY <1>2, <2>3 DEF LookCache
    <3>2. \A d \in Handlers : Key(d)' = Key(d)
      BY <3>1 DEF Key
    <3>3. raced \subseteq raced'
      BY <1>2, <2>3 DEF LookCache
    <3>4. ASSUME NEW d \in Handlers, d # h, at[d] \in Missed, Key(d) = Key(h)
          PROVE  Key(h) \in raced'
      BY <1>2, <2>3, <3>4 DEF LookCache, Rival
    <3>5. OverlapsRaced'
      BY <3>1, <3>2, <3>3, <3>4
    <3>6. ASSUME NEW k \in Clear', NEW e \in effects', e.key = k
          PROVE  /\ k # Key(h)
                 /\ k \in Clear
      BY <2>1, <2>3, <3>1, <3>3, <3>4, <3>6
    <3>7. EffectKeepsOut'
      BY <3>1, <3>2, <3>6
    <3>8. RunsOnce'
      BY <3>1, <3>3
    <3>. QED  BY <3>5, <3>7, <3>8
  <2>. QED  BY <2>2, <2>3
<1>3. ASSUME NEW h \in Handlers, LookRecord(h)
      PROVE  Goal
  <2>1. Key(h) \in RequestKeys
    BY <1>3 DEF LookRecord, Key, Requests
  <2>2. CASE recorded[Key(h)] # None
    <3>1. /\ at[h] = "record" /\ Finish(h)
          /\ cached' = [cached EXCEPT ![Key(h)] = recorded[Key(h)]]
          /\ UNCHANGED <<effects, raced, forgotten>>
      BY <1>3, <2>2 DEF LookRecord
    <3>2. \A k \in RequestKeys : cached[k] # None => cached'[k] # None
      BY <2>1, <2>2, <3>1
    <3>. QED
      BY <3>1, <3>2 DEF Finish, Key
  <2>3. CASE recorded[Key(h)] = None
    BY <1>3, <2>3 DEF LookRecord, Key
  <2>. QED  BY <2>2, <2>3
<1>4. ASSUME NEW h \in Handlers, Run(h)
      PROVE  Goal
  BY <1>4 DEF Run, Key
<1>5. ASSUME NEW h \in Handlers, CommitRoute(h)
      PROVE  Goal
  <2>1. DEFINE made == [txn |-> underway[h], key |-> Key(h), body |-> Body(h)]
  <2>2. /\ at[h] = "commit" /\ at' = [at EXCEPT ![h] = "save"]
        /\ effects' = effects \cup {made}
        /\ UNCHANGED <<request, cached, raced, forgotten>>
    BY <1>5 DEF CommitRoute
  <2>3. made.key = Key(h)
    OBVIOUS
  <2>4. \A d \in Handlers : Key(d)' = Key(d)
    BY <2>2 DEF Key
  <2>. HIDE DEF made
  <2>5. OverlapsRaced'
    BY <2>2, <2>4
  <2>6. EffectKeepsOut'
    <3>. SUFFICES ASSUME NEW k \in Clear, NEW e \in effects', e.key = k
                  PROVE  /\ \A d \in Handlers :
                              at'[d] \in {"record", "run", "commit"}
                                => Key(d) # k
                         /\ \/ cached[k] # None
                            \/ \E d \in Handlers : at'[d] = "save" /\ Key(d) = k
      BY <2>2, <2>4
    <3>1. CASE e \in effects
      BY <2>2, <3>1
    <3>2. CASE e = made
      BY <2>2, <2>3, <3>2
    <3>. QED  BY <2>2, <3>1, <3>2
  <2>7. RunsOnce'
    <3>1. Key(h) \in Clear => \A e \in effects : e.key # Key(h)
      BY <2>2
    <3>. QED  BY <2>2, <2>3, <3>1
  <2>. QED  BY <2>5, <2>6, <2>7
<1>6. ASSUME NEW h \in Handlers, Save(h)
      PROVE  Goal
  <2>1. Key(h) \in RequestKeys
    BY <1>6 DEF Save, Key, Requests
  <2>2. /\ at[h] = "save" /\ at' = [at EXCEPT ![h] = "answer"]
        /\ cached' = [cached EXCEPT ![Key(h)] = Response(h)]
        /\ UNCHANGED <<request, effects, raced, forgotten>>
    BY <1>6 DEF Save
  <2>3. \A d \in Handlers : Key(d)' = Key(d)
    BY <2>2 DEF Key
  <2>4. /\ cached'[Key(h)] # None
        /\ \A k \in RequestKeys : cached[k] # None => cached'[k] # None
    BY <2>1, <2>2, ResponseTyped
  <2>. QED  BY <2>2, <2>3, <2>4
<1>7. ASSUME NEW h \in Handlers, Answer(h)
      PROVE  Goal
  BY <1>7 DEF Answer, Finish, Key
<1>8. ASSUME NEW h \in Handlers, Abort(h)
      PROVE  Goal
  BY <1>8 DEF Abort, Finish, Key
<1>9. ASSUME NEW h \in Handlers, LoseResponse(h)
      PROVE  Goal
  BY <1>9 DEF LoseResponse, Finish, Key
<1>10. ASSUME NEW k \in RequestKeys, ExpireCache(k)
       PROVE  Goal
  BY <1>10 DEF ExpireCache, Key
<1>11. CASE CleanUp
  BY <1>11 DEF CleanUp, Key
<1>. QED
  BY <1>1, <1>2, <1>3, <1>4, <1>5, <1>6, <1>7, <1>8, <1>9, <1>10, <1>11
     DEF RequestNext, RequestStep

-----------------------------------------------------------------------------
(* The mails: a job is in the queue once, and only before it has started.  *)

QueueWaits ==
    \A i, j \in 1 .. Len(queue) :
        /\ job[queue[i]] = "queued"
        /\ queue[i] = queue[j] => i = j

\* A worker has a job that was taken from the queue, and has it alone.
TasksHeld ==
    \A w, v \in Workers :
        task[w] # 0 =>
          /\ job[task[w]] \in {"started", "sent"}
          /\ task[w] = task[v] => w = v

\* A job that has not been tried has delivered nothing.
UntriedUnsent ==
    \A m \in MailIds : job[m] \in {"none", "queued", "started"} => mails[m] = 0

MailInv ==
    MailTypeOK /\ QueueWaits /\ TasksHeld /\ UntriedUnsent /\ MailedAtMostOnce

\* A step of the mails keeps it so.
LEMMA MailInvStep ==
  ASSUME MailInv, MailNext
  PROVE  MailInv'
<1>. USE DEF MailInv, MailTypeOK, QueueWaits, TasksHeld,
             UntriedUnsent, MailedAtMostOnce, JobStates
<1>1. ASSUME NEW m \in MailIds, EnqueueMail(m)
      PROVE  MailInv'
  <2>1. /\ queue' \in Seq(MailIds)
        /\ Len(queue') = Len(queue) + 1
        /\ queue'[Len(queue) + 1] = m
        /\ \A i \in 1 .. Len(queue) : queue'[i] = queue[i]
    BY <1>1 DEF EnqueueMail
  <2>2. \A i \in 1 .. Len(queue) : queue[i] \in MailIds /\ queue[i] # m
    BY <1>1 DEF EnqueueMail
  <2>3. QueueWaits'
    BY <1>1, <2>1, <2>2 DEF EnqueueMail
  <2>. QED  BY <1>1, <2>1, <2>3 DEF EnqueueMail
<1>2. ASSUME NEW w \in Workers, TakeMail(w)
      PROVE  MailInv'
  <2>1. /\ queue' \in Seq(MailIds)
        /\ Len(queue') = Len(queue) - 1
        /\ \A i \in 1 .. Len(queue') : queue'[i] = queue[i + 1]
        /\ Head(queue) = queue[1] /\ queue[1] \in MailIds
        /\ 1 \in 1 .. Len(queue) /\ Len(queue) \in Nat
    BY <1>2 DEF TakeMail
  <2>2. \A i \in 1 .. Len(queue') :
          /\ i + 1 \in 1 .. Len(queue)
          /\ queue'[i] \in MailIds /\ queue'[i] # queue[1]
    BY <2>1
  <2>3. job[queue[1]] = "queued"
    BY <2>1
  <2>4. QueueWaits'
    BY <1>2, <2>1, <2>2 DEF TakeMail
  <2>. QED  BY <1>2, <2>1, <2>3, <2>4 DEF TakeMail
<1>3. ASSUME NEW w \in Workers, SendMail(w)
      PROVE  MailInv'
  <2>1. task[w] \in MailIds
    BY <1>3 DEF SendMail
  <2>. QED  BY <1>3, <2>1 DEF SendMail
<1>4. ASSUME NEW w \in Workers, FinishMail(w)
      PROVE  MailInv'
  <2>1. task[w] \in MailIds
    BY <1>4 DEF FinishMail
  <2>. QED  BY <1>4, <2>1 DEF FinishMail
<1>5. ASSUME NEW w \in Workers, SendFails(w)
      PROVE  MailInv'
  <2>1. task[w] \in MailIds
    BY <1>5 DEF SendFails
  <2>. QED  BY <1>5, <2>1 DEF SendFails, RetryMail
<1>6. ASSUME NEW w \in Workers, MailerDies(w)
      PROVE  MailInv'
  <2>1. task[w] \in MailIds
    BY <1>6 DEF MailerDies
  <2>. QED  BY <1>6, <2>1 DEF MailerDies
<1>7. ASSUME NEW m \in MailIds, CleanRegistry(m)
      PROVE  MailInv'
  BY <1>7 DEF CleanRegistry, RetryMail
<1>. QED
  BY <1>1, <1>2, <1>3, <1>4, <1>5, <1>6, <1>7
     DEF MailNext, MailStep, MailProgress

-----------------------------------------------------------------------------
(* The theorems.                                                           *)

\* The invariant of the composition: the conjunction of the components'.
Inv == AnswerInv /\ OnceInv /\ MailInv

LEMMA InitInv == Init => Inv
<1>. SUFFICES ASSUME Init PROVE Inv
  OBVIOUS
<1>. USE RequestsAssumption, MailAssumption DEF Init, RequestInit, MailInit
<1>1. RequestsTyped
  BY DEF RequestsTyped, RequestTypeOK, TxnGiven
<1>2. ResponsesBacked /\ AnswersAreEffects
  BY DEF ResponsesBacked, Backed, AnswersAreEffects
<1>3. OverlapsRaced /\ EffectKeepsOut /\ RunsOnce
  BY DEF OverlapsRaced, Missed, EffectKeepsOut, RunsOnce, Repeated
<1>4. MailTypeOK
  BY DEF MailTypeOK, JobStates
<1>5. QueueWaits /\ TasksHeld /\ UntriedUnsent /\ MailedAtMostOnce
  BY DEF QueueWaits, TasksHeld, UntriedUnsent, MailedAtMostOnce
<1>. QED
  BY <1>1, <1>2, <1>3, <1>4, <1>5 DEF Inv, AnswerInv, OnceInv, MailInv

\* A step that clears the answer at most keeps the requests' invariants.
LEMMA QuietInv ==
  ASSUME AnswerInv, OnceInv,
         UNCHANGED requestState, answer' \in {answer, None}
  PROVE  (AnswerInv /\ OnceInv)'
<1>. USE DEF AnswerInv, OnceInv, RequestsTyped, requestState
<1>1. RequestsTyped'
  BY DEF RequestTypeOK, TxnGiven
<1>2. (ResponsesBacked /\ AnswersAreEffects)'
  BY DEF ResponsesBacked, Backed, AnswersAreEffects, Response, Key, Body
<1>3. (OverlapsRaced /\ EffectKeepsOut /\ RunsOnce)'
  BY DEF OverlapsRaced, Missed, EffectKeepsOut, Clear, RunsOnce, Repeated, Key
<1>. QED  BY <1>1, <1>2, <1>3

LEMMA NextInv == Inv /\ [Next]_vars => Inv'
<1>. SUFFICES ASSUME Inv, [Next]_vars PROVE Inv'
  OBVIOUS
<1>. USE DEF Inv
<1>1. CASE Next
  <2>1. (AnswerInv /\ OnceInv)'
    <3>1. CASE RequestNext
      BY <3>1, RequestsTypedStep, AnswerInvStep, OnceInvStep
         DEF AnswerInv, OnceInv
    <3>2. CASE QuietStep
      BY <3>2, QuietInv DEF QuietStep
    <3>. QED  BY <1>1, <3>1, <3>2, StepOfRequests
  <2>2. MailInv'
    <3>1. CASE MailNext
      BY <3>1, MailInvStep
    <3>2. CASE UNCHANGED mailVars
      BY <3>2 DEF MailInv, MailTypeOK, QueueWaits, TasksHeld, UntriedUnsent,
                  MailedAtMostOnce, mailVars
    <3>. QED  BY <1>1, <3>1, <3>2, StepOfMails DEF AnswerInv, RequestsTyped
  <2>. QED  BY <2>1, <2>2
<1>2. CASE UNCHANGED vars
  <2>1. (AnswerInv /\ OnceInv)'
    BY <1>2, QuietInv DEF vars, requestVars
  <2>2. MailInv'
    BY <1>2 DEF vars, mailVars, MailInv, MailTypeOK, QueueWaits, TasksHeld,
                UntriedUnsent, MailedAtMostOnce
  <2>. QED  BY <2>1, <2>2
<1>. QED  BY <1>1, <1>2

LEMMA InvHolds == Spec => []Inv
  BY InitInv, NextInv, PTL DEF Spec

\* Every variable of the requests and of the mails keeps its type.
THEOREM TypesHold == Spec => []TypeOK
<1>1. Inv => TypeOK
  BY DEF Inv, AnswerInv, RequestsTyped, MailInv, TypeOK
<1>. QED  BY <1>1, InvHolds, PTL

\* However many workers serve requests and however often they are retried,
\* die or find the cache empty: an answer names a committed transaction that
\* its own key and body made (require_idempotency_key compares the hashes).
THEOREM AnswersHold == Spec => []AnswersAreEffects
<1>1. Inv => AnswersAreEffects
  BY DEF Inv, AnswerInv
<1>. QED  BY <1>1, InvHolds, PTL

\* A key takes effect twice only if two of its requests overlapped or its
\* response was lost: the two ways round the cache are the only ones.
THEOREM OnceHolds == Spec => []RunsOnce
<1>1. Inv => RunsOnce
  BY DEF Inv, OnceInv
<1>. QED  BY <1>1, InvHolds, PTL

\* No operation is mailed twice, for any number of RQ workers that die or
\* lose the connection to the mail server at any step.
THEOREM MailsHold == Spec => []MailedAtMostOnce
<1>1. Inv => MailedAtMostOnce
  BY DEF Inv, MailInv
<1>. QED  BY <1>1, InvHolds, PTL
=============================================================================
