-------------------------- MODULE WebhookDelivery --------------------------
(***************************************************************************)
(* Deliveries of an event's payment webhooks.  A Bull job posts the        *)
(* payload and, when the answer is worth another try, adds a job with the  *)
(* next attempt; otherwise it writes a dead letter, from which the         *)
(* organizer may start again.  Bull itself tries no job again that threw,  *)
(* and runs once more a job whose process stopped (external).              *)
(***************************************************************************)
EXTENDS Integers, FiniteSets

CONSTANTS
    Deliveries,       \* bound: payments confirmed, in all
    MaxAttempts,      \* maxAttempts
    MaxJobs,          \* bound: jobs there are at once
    MaxReplays,       \* bound: dead letters replayed
    MaxStalls         \* bound: times a process stops

ASSUME WebhookAssumption ==
    /\ MaxAttempts \in Nat \ {0}
    /\ MaxJobs \in Nat /\ MaxReplays \in Nat /\ MaxStalls \in Nat

VARIABLES
    jobs,         \* by number: the job's delivery, attempt and how far it is
    settled,      \* deliveries answered well, dropped, or with a failed job
    deadLetters,  \* the dead letters of a delivery
    queuedOnce,   \* the deliveries queueDelivery was called for
    replays, stalls

webhookVars == <<jobs, settled, deadLetters, queuedOnce, replays, stalls>>

Jobs == 1 .. MaxJobs
NoJob == [at |-> "none"]
Answers == {"ok", "rejected", "retryable"}

Busy(j) == jobs[j] # NoJob
FreeJob(j) == ~Busy(j) /\ \A k \in Jobs : ~Busy(k) => j <= k
Queued(d, n) == [delivery |-> d, attempt |-> n, at |-> "queued", answer |-> "none"]

WebhookInit ==
    /\ jobs = [j \in Jobs |-> NoJob]
    /\ settled = {}
    /\ deadLetters = [d \in Deliveries |-> 0]
    /\ queuedOnce = {}
    /\ replays = 0 /\ stalls = 0

QueueDelivery(d) == \E j \in Jobs :
    /\ d \notin queuedOnce /\ FreeJob(j)
    /\ queuedOnce' = queuedOnce \cup {d}
    /\ jobs' = [jobs EXCEPT ![j] = Queued(d, 1)]
    /\ UNCHANGED <<settled, deadLetters, replays, stalls>>

\* The job is over, and with it the delivery.
Settle(j) ==
    /\ jobs' = [jobs EXCEPT ![j] = NoJob]
    /\ settled' = settled \cup {jobs[j].delivery}
    /\ UNCHANGED <<deadLetters, queuedOnce, replays, stalls>>

\* The event is gone, or has no webhookUrl any more.
Drop(j) ==
    /\ jobs[j].at = "queued"
    /\ Settle(j)

\* The request; every answer is possible, and none.
Post(j) == \E answer \in Answers :
    /\ jobs[j].at = "queued"
    /\ jobs' = [jobs EXCEPT ![j].at = "answered", ![j].answer = answer]
    /\ UNCHANGED <<settled, deadLetters, queuedOnce, replays, stalls>>

\* A statement or the queue fails: the job has failed and Bull leaves it.
Throw(j) ==
    /\ jobs[j].at \in {"queued", "answered"}
    /\ Settle(j)

\* The attempt is on record and there is nothing more to do.
Succeed(j) ==
    /\ jobs[j].at = "answered" /\ jobs[j].answer = "ok"
    /\ Settle(j)

\* Bull completes a job that has added the next one or written a dead letter.
Complete(j) ==
    /\ jobs[j].at = "handed on"
    /\ jobs' = [jobs EXCEPT ![j] = NoJob]
    /\ UNCHANGED <<settled, deadLetters, queuedOnce, replays, stalls>>

Retryable(j) ==
    /\ jobs[j].at = "answered" /\ jobs[j].answer = "retryable"
    /\ jobs[j].attempt < MaxAttempts

\* Mutant: the attempts are not counted.
RetryAsBefore(j) == \E k \in Jobs :
    /\ Retryable(j) /\ FreeJob(k)
    /\ jobs' = [jobs EXCEPT ![j].at = "handed on", ![j].answer = "none",
                            ![k] = Queued(jobs[j].delivery, jobs[j].attempt)]
    /\ UNCHANGED <<settled, deadLetters, queuedOnce, replays, stalls>>

ScheduleWebhookRetry(j) == \E k \in Jobs :
    /\ Retryable(j) /\ FreeJob(k)
    /\ jobs' = [jobs EXCEPT ![j].at = "handed on", ![j].answer = "none",
                            ![k] = Queued(jobs[j].delivery, jobs[j].attempt + 1)]
    /\ UNCHANGED <<settled, deadLetters, queuedOnce, replays, stalls>>

\* Without WEBHOOK_SECRET the job writes its dead letter before any request.
MoveToDeadLetter(j) ==
    /\ \/ jobs[j].at = "queued"
       \/ jobs[j].at = "answered" /\ jobs[j].answer # "ok" /\ ~Retryable(j)
    /\ deadLetters' = [deadLetters EXCEPT ![jobs[j].delivery] = @ + 1]
    /\ jobs' = [jobs EXCEPT ![j].at = "handed on", ![j].answer = "none"]
    /\ UNCHANGED <<settled, queuedOnce, replays, stalls>>

\* The process stops and Bull runs its job again.
Stall(j) ==
    /\ Busy(j) /\ stalls < MaxStalls
    /\ stalls' = stalls + 1
    /\ jobs' = [jobs EXCEPT ![j] = Queued(@.delivery, @.attempt)]
    /\ UNCHANGED <<settled, deadLetters, queuedOnce, replays>>

\* replayDeadLetter adds the job and then deletes the letter, which another
\* replay may have read too, or which a process that stops leaves there.
ReplayDeadLetter(d) == \E j \in Jobs, kept \in BOOLEAN :
    /\ deadLetters[d] > 0 /\ replays < MaxReplays /\ FreeJob(j)
    /\ replays' = replays + 1
    /\ jobs' = [jobs EXCEPT ![j] = Queued(d, 1)]
    /\ deadLetters' = [deadLetters EXCEPT ![d] = IF kept THEN @ ELSE @ - 1]
    /\ UNCHANGED <<settled, queuedOnce, stalls>>

\* What Bull's worker does with a job.
Handle(j) ==
    \/ Drop(j)
    \/ Post(j)
    \/ Throw(j)
    \/ Succeed(j)
    \/ ScheduleWebhookRetry(j)
    \/ MoveToDeadLetter(j)
    \/ Complete(j)

WebhookNext ==
    \/ \E d \in Deliveries : QueueDelivery(d) \/ ReplayDeadLetter(d)
    \/ \E j \in Jobs : Handle(j) \/ Stall(j)

\* Bull hands every waiting job to a worker, retries after their delay too, and
\* a handler's awaits all return: the request by its timeout.
WebhookFairness == \A j \in Jobs : WF_webhookVars(Handle(j))

-----------------------------------------------------------------------------
HasJob(d) == \E j \in Jobs : Busy(j) /\ jobs[j].delivery = d

(***************************************************************************)
(* Whatever endpoints answer and however often a process stops or a letter *)
(* is replayed, the tries for a delivery end, and it is then on record as  *)
(* delivered, as given up for an event without a webhook, as a failed job  *)
(* or as a dead letter (webhook-delivery.job.ts, handle).                  *)
(***************************************************************************)
DeliveriesEnd == \A d \in Deliveries :
    HasJob(d) ~> /\ ~HasJob(d)
                 /\ d \in settled \/ deadLetters[d] > 0
=============================================================================
