------------------------ MODULE IdempotentRequests -------------------------
(***************************************************************************)
(* A POST route behind require_idempotency_key: the look-up of an earlier  *)
(* response in the cache and in the idempotency_records table, the run of  *)
(* the route, which commits what it does, and the response remembered      *)
(* afterwards, by gunicorn workers that share Redis and PostgreSQL.        *)
(*                                                                         *)
(* A body stands for its SHA-256 hash and a response for the transaction   *)
(* it names.  The record of a response is added to the session after the   *)
(* route has committed; the session is removed when the request ends and   *)
(* nothing commits it.  The names begin with Request where the composition *)
(* with the notifications (TransferRequests) needs its own.                *)
(***************************************************************************)
EXTENDS Integers

CONSTANTS
    Handlers,       \* workers, one request each at a time
    RequestKeys,    \* values of the Idempotency-Key header
    Bodies,         \* request bodies, by their hash
    None,           \* no response, no request
    MaxTxn          \* bound: transactions that routes may begin

Requests == [key : RequestKeys, body : Bodies]
Responses == [body : Bodies, txn : Nat \ {0}]

ASSUME RequestsAssumption ==
    /\ None \notin Requests \cup Responses
    /\ MaxTxn \in Nat

VARIABLES
    at,         \* where each worker is in its request
    request,    \* the key and the body of the request
    underway,   \* the transaction the route has begun, 0 if none
    cached,     \* idempotency:<key> in Redis
    pending,    \* the record in the session of a worker, never committed
    recorded,   \* the committed rows of idempotency_records
    lastTxn,    \* the id sequence of the transactions table
    effects,    \* committed transactions, with the request that made each
    answer,     \* the answer the last step sent: key, body, transaction
    raced,      \* history: keys two requests of which ran at once
    forgotten   \* history: keys a response of which was lost

requestState == <<at, request, underway, cached, pending, recorded, lastTxn,
                  effects, raced, forgotten>>
requestVars == <<requestState, answer>>

(* Here and below, a definition placed directly before another one of the  *)
(* same parameters is a faulty variant of it: no action uses it, and the   *)
(* property it breaks is named in PROJECT.json.                            *)

RequestInit ==
    /\ at = [h \in Handlers |-> "idle"]
    /\ request = [h \in Handlers |-> None]
    /\ underway = [h \in Handlers |-> 0]
    /\ cached = [k \in RequestKeys |-> None]
    /\ pending = [h \in Handlers |-> None]
    /\ recorded = [k \in RequestKeys |-> None]
    /\ lastTxn = 0
    /\ effects = {}
    /\ answer = None
    /\ raced = {}
    /\ forgotten = {}

Key(h) == request[h].key
Body(h) == request[h].body

\* The request ends, answered or not: the session is removed, and with it
\* whatever it had not committed.
Finish(h) ==
    /\ at' = [at EXCEPT ![h] = "idle"]
    /\ request' = [request EXCEPT ![h] = None]
    /\ underway' = [underway EXCEPT ![h] = 0]
    /\ pending' = [pending EXCEPT ![h] = None]

Receive(h, r) ==
    /\ at[h] = "idle"
    /\ at' = [at EXCEPT ![h] = "cache"]
    /\ request' = [request EXCEPT ![h] = r]
    /\ answer' = None
    /\ UNCHANGED <<underway, cached, pending, recorded, lastTxn, effects,
                   raced, forgotten>>

\* A remembered response is sent again if the body is the same; a key that
\* comes with another body is refused with a 422.
ReplayAny(h, response) ==
    [key |-> Key(h), body |-> Body(h), txn |-> response.txn]
Replay(h, response) ==
    IF response.body = Body(h)
      THEN [key |-> Key(h), body |-> Body(h), txn |-> response.txn]
      ELSE None

\* Another request with the key has missed and has not remembered its answer.
Rival(h, d) ==
    /\ d # h
    /\ at[d] \in {"record", "run", "commit", "save"}
    /\ Key(d) = Key(h)

LookCache(h) ==
    /\ at[h] = "cache"
    /\ IF cached[Key(h)] # None
         THEN /\ answer' = Replay(h, cached[Key(h)])
              /\ Finish(h)
              /\ UNCHANGED raced
         ELSE /\ at' = [at EXCEPT ![h] = "record"]
              /\ raced' = IF \E d \in Handlers : Rival(h, d)
                            THEN raced \cup {Key(h)} ELSE raced
              /\ answer' = None
              /\ UNCHANGED <<request, underway, pending>>
    /\ UNCHANGED <<cached, recorded, lastTxn, effects, forgotten>>

LookRecord(h) ==
    /\ at[h] = "record"
    /\ IF recorded[Key(h)] # None
         THEN /\ cached' = [cached EXCEPT ![Key(h)] = recorded[Key(h)]]
              /\ answer' = Replay(h, recorded[Key(h)])
              /\ Finish(h)
         ELSE /\ at' = [at EXCEPT ![h] = "run"]
              /\ answer' = None
              /\ UNCHANGED <<request, underway, cached, pending>>
    /\ UNCHANGED <<recorded, lastTxn, effects, raced, forgotten>>

\* The route runs up to its commit.  It does not hand the key to the service.
Run(h) ==
    /\ at[h] = "run"
    /\ lastTxn < MaxTxn
    /\ lastTxn' = lastTxn + 1
    /\ underway' = [underway EXCEPT ![h] = lastTxn + 1]
    /\ at' = [at EXCEPT ![h] = "commit"]
    /\ answer' = None
    /\ UNCHANGED <<request, cached, pending, recorded, effects, raced,
                   forgotten>>

CommitRoute(h) ==
    /\ at[h] = "commit"
    /\ effects' = effects \cup
         {[txn |-> underway[h], key |-> Key(h), body |-> Body(h)]}
    /\ at' = [at EXCEPT ![h] = "save"]
    /\ answer' = None
    /\ UNCHANGED <<request, underway, cached, pending, recorded, lastTxn,
                   raced, forgotten>>

ResponseUnflushed(h) == [body |-> Body(h), txn |-> 0]
Response(h) == [body |-> Body(h), txn |-> underway[h]]

\* save_response: the record is added to the session, the response is put
\* into the cache, over one that another request may have put there.
SaveUncached(h) ==
    /\ at[h] = "save"
    /\ pending' = [pending EXCEPT ![h] = Response(h)]
    /\ at' = [at EXCEPT ![h] = "answer"]
    /\ answer' = None
    /\ UNCHANGED <<request, underway, cached, recorded, lastTxn, effects,
                   raced, forgotten>>
Save(h) ==
    /\ at[h] = "save"
    /\ pending' = [pending EXCEPT ![h] = Response(h)]
    /\ cached' = [cached EXCEPT ![Key(h)] = Response(h)]
    /\ at' = [at EXCEPT ![h] = "answer"]
    /\ answer' = None
    /\ UNCHANGED <<request, underway, recorded, lastTxn, effects, raced,
                   forgotten>>

Answer(h) ==
    /\ at[h] = "answer"
    /\ answer' = Replay(h, Response(h))
    /\ Finish(h)
    /\ UNCHANGED <<cached, recorded, lastTxn, effects, raced, forgotten>>

\* The route raises (a refused request, a statement that fails, Redis that
\* does not answer) or the worker dies before the commit: rolled back, and
\* the error is not remembered.
Abort(h) ==
    /\ at[h] \in {"cache", "record", "run", "commit"}
    /\ Finish(h)
    /\ answer' = None
    /\ UNCHANGED <<cached, recorded, lastTxn, effects, raced, forgotten>>

\* Redis does not answer, or the worker dies, after the commit.
LoseResponse(h) ==
    /\ at[h] \in {"save", "answer"}
    /\ forgotten' = IF at[h] = "save" THEN forgotten \cup {Key(h)}
                                      ELSE forgotten
    /\ Finish(h)
    /\ answer' = None
    /\ UNCHANGED <<cached, recorded, lastTxn, effects, raced>>

\* The entry reaches IDEMPOTENCY_KEY_TTL_HOURS, or Redis evicts or loses it.
ExpireCache(k) ==
    /\ cached[k] # None
    /\ cached' = [cached EXCEPT ![k] = None]
    /\ forgotten' = forgotten \cup {k}
    /\ answer' = None
    /\ UNCHANGED <<at, request, underway, pending, recorded, lastTxn,
                   effects, raced>>

\* The command cleanup-idempotency deletes the rows that are old enough.
CleanUp ==
    /\ \E old \in SUBSET RequestKeys :
         recorded' = [k \in RequestKeys |->
                        IF k \in old THEN None ELSE recorded[k]]
    /\ answer' = None
    /\ UNCHANGED <<at, request, underway, cached, pending, lastTxn, effects,
                   raced, forgotten>>

RequestStep(h) ==
    \/ LookCache(h) \/ LookRecord(h) \/ Save(h) \/ Answer(h)
    \/ LoseResponse(h)

RequestNext ==
    \/ \E h \in Handlers, r \in Requests : Receive(h, r)
    \/ \E h \in Handlers :
         RequestStep(h) \/ Run(h) \/ CommitRoute(h) \/ Abort(h)
    \/ \E k \in RequestKeys : ExpireCache(k)
    \/ CleanUp

RequestSpec == RequestInit /\ [][RequestNext]_requestVars

-----------------------------------------------------------------------------
(* Properties.                                                             *)

\* The values every variable may take.
RequestTypeOK ==
    /\ at \in [Handlers -> {"idle", "cache", "record", "run", "commit",
                            "save", "answer"}]
    /\ request \in [Handlers -> Requests \cup {None}]
    /\ \A h \in Handlers : at[h] # "idle" => request[h] \in Requests
    /\ underway \in [Handlers -> Nat]
    /\ cached \in [RequestKeys -> Responses \cup {None}]
    /\ pending \in [Handlers -> Responses \cup {None}]
    /\ recorded \in [RequestKeys -> Responses \cup {None}]
    /\ lastTxn \in Nat
    /\ effects \subseteq [txn : Nat \ {0}, key : RequestKeys, body : Bodies]
    /\ answer \in [txn : Nat \ {0}, key : RequestKeys, body : Bodies]
                    \cup {None}
    /\ raced \subseteq RequestKeys
    /\ forgotten \subseteq RequestKeys

\* Whatever a client is answered, at first or on a retry, names a committed
\* transaction that its key and its body made: no retry is told the outcome
\* of another request (decorators.py compares the hashes, get_existing_response
\* reads one key, errors are not remembered).
AnswersAreEffects == answer # None => answer \in effects

Repeated(k) ==
    \E e, f \in effects : e.key = k /\ f.key = k /\ e.txn # f.txn

\* A request retried under its key takes effect once, unless two requests
\* with the key overlapped (nothing but the cache keeps the second one out)
\* or the response was lost before the retry asked for it.
RunsOnce == \A k \in RequestKeys : Repeated(k) => k \in raced \cup forgotten

\* What the idempotency_service promises of a response that was sent: it is
\* in the idempotency_records table, where a retry finds it once the cache
\* entry is gone.
AnswersAreRecorded ==
    answer # None =>
        recorded[answer.key] = [body |-> answer.body, txn |-> answer.txn]
=============================================================================
