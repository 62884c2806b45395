--------------------------- MODULE Notifications ---------------------------
(***************************************************************************)
(* The e-mail about an operation: notification_service puts a job on the   *)
(* RQ queue "notifications" when the operation's event is published, and   *)
(* workers (worker.py) take the jobs and send the mail.                    *)
(*                                                                         *)
(* A job is enqueued with retries left and intervals above zero.  RQ moves *)
(* a failed job of that kind to its registry of scheduled jobs, from which *)
(* only an RQ scheduler takes it; worker.py starts its worker without one. *)
(* The names begin with Mail where the composition needs its own.          *)
(***************************************************************************)
EXTENDS Integers, Sequences

CONSTANTS
    MailIds,        \* the operations announced, by their transaction id
    Workers         \* RQ workers that listen on the queue

ASSUME MailAssumption == MailIds \subseteq Nat \ {0}

VARIABLES
    job,        \* the state of the job about each operation
    queue,      \* the jobs waiting, in order
    task,       \* the job each worker has, 0 if none
    mails       \* how often the mail about an operation was delivered

mailVars == <<job, queue, task, mails>>

JobStates == {"none", "queued", "started", "sent", "done", "abandoned",
              "scheduled"}

MailInit ==
    /\ job = [m \in MailIds |-> "none"]
    /\ queue = <<>>
    /\ task = [w \in Workers |-> 0]
    /\ mails = [m \in MailIds |-> 0]

\* The handler of TransferCompleted or DepositCompleted, in the publisher's
\* own call; an error of Redis is the publisher's error.
EnqueueMailQuietly(m) ==
    /\ job[m] = "none"
    /\ \/ job' = [job EXCEPT ![m] = "queued"] /\ queue' = Append(queue, m)
       \/ UNCHANGED <<job, queue>>
    /\ UNCHANGED <<task, mails>>
EnqueueMail(m) ==
    /\ job[m] = "none"
    /\ job' = [job EXCEPT ![m] = "queued"]
    /\ queue' = Append(queue, m)
    /\ UNCHANGED <<task, mails>>

TakeMail(w) ==
    /\ task[w] = 0 /\ queue # <<>>
    /\ task' = [task EXCEPT ![w] = Head(queue)]
    /\ queue' = Tail(queue)
    /\ job' = [job EXCEPT ![Head(queue)] = "started"]
    /\ UNCHANGED mails

\* mail.send returns.
SendMail(w) ==
    /\ task[w] # 0 /\ job[task[w]] = "started"
    /\ job' = [job EXCEPT ![task[w]] = "sent"]
    /\ mails' = [mails EXCEPT ![task[w]] = @ + 1]
    /\ UNCHANGED <<queue, task>>

FinishMail(w) ==
    /\ task[w] # 0 /\ job[task[w]] = "sent"
    /\ job' = [job EXCEPT ![task[w]] = "done"]
    /\ task' = [task EXCEPT ![w] = 0]
    /\ UNCHANGED <<queue, mails>>

\* A job with a retry left and an interval before it: scheduled, not queued.
RetryMailAtOnce(m) ==
    /\ job' = [job EXCEPT ![m] = "queued"]
    /\ queue' = Append(queue, m)
RetryMail(m) ==
    /\ job' = [job EXCEPT ![m] = "scheduled"]
    /\ UNCHANGED queue

\* mail.send raises; the server may have accepted the mail all the same.
SendFails(w) ==
    /\ task[w] # 0 /\ job[task[w]] = "started"
    /\ \E got \in {0, 1} : mails' = [mails EXCEPT ![task[w]] = @ + got]
    /\ RetryMail(task[w])
    /\ task' = [task EXCEPT ![w] = 0]

\* The worker process dies and is started again; its job stays in the
\* registry of started jobs until RQ cleans that up.
MailerDies(w) ==
    /\ task[w] # 0
    /\ job' = [job EXCEPT ![task[w]] = "abandoned"]
    /\ task' = [task EXCEPT ![w] = 0]
    /\ UNCHANGED <<queue, mails>>

CleanRegistry(m) ==
    /\ job[m] = "abandoned"
    /\ RetryMail(m)
    /\ UNCHANGED <<task, mails>>

MailProgress(w) ==
    TakeMail(w) \/ SendMail(w) \/ FinishMail(w) \/ SendFails(w)

MailStep ==
    \/ \E w \in Workers : MailProgress(w) \/ MailerDies(w)
    \/ \E m \in MailIds : CleanRegistry(m)

MailNext == (\E m \in MailIds : EnqueueMail(m)) \/ MailStep

MailSpec == MailInit /\ [][MailNext]_mailVars

\* The workers run, or are started again, and clean the registries.
MailFairness ==
    /\ \A w \in Workers : WF_mailVars(MailProgress(w))
    /\ \A m \in MailIds : WF_mailVars(CleanRegistry(m))

-----------------------------------------------------------------------------
(* Properties.                                                             *)

\* The values every variable may take.
MailTypeOK ==
    /\ job \in [MailIds -> JobStates]
    /\ queue \in Seq(MailIds)
    /\ task \in [Workers -> MailIds \cup {0}]
    /\ mails \in [MailIds -> Nat]

\* Nobody gets the mail about an operation twice: not when a worker dies
\* between the delivery and the end of the job, nor when the mail server
\* accepts a mail and the connection breaks.
MailedAtMostOnce == \A m \in MailIds : mails[m] <= 1
=============================================================================
