---------------------------- MODULE EscrowRefunds ----------------------------
(***************************************************************************)
(* Refunds out of the Stellar escrow account of one event of the backend:  *)
(* a buyer's own refund, the refunds of a cancelled event (the queue job,  *)
(* an administrator's call, the policy-based variant), and the merge that  *)
(* closes the account.  mergeEscrowToOrganizer is left out: it passes the  *)
(* organizer's user id for a Stellar address, which the SDK refuses, so    *)
(* every call of it ends in an error before anything is sent or saved.     *)
(*                                                                         *)
(* As in Payments a handler is a sequence of awaits with no lock and no    *)
(* database transaction, and a process's record says where it is and what  *)
(* it remembers.  Every payment is of one unit, and a refund returns it.   *)
(***************************************************************************)
EXTENDS Integers, FiniteSets

CONSTANTS
    Payments,    \* the payment rows of the event
    NoPayment,   \* no payment in hand
    Owner,       \* the user of each payment
    Requests,    \* bound: HTTP requests in flight at a time
    AdminCalls,  \* bound: which refunds of an event administrators ask for
    Worker,      \* the queue worker that runs the cancel-event jobs
    Retries,     \* how often a refund that timed out is sent again
    MaxJobs,     \* bound: cancel-event jobs waiting when one more is asked for
    MaxCrashes   \* bound: restarts of the server

\* Bull runs a job that a restart interrupted again, once.
ASSUME RefundsAssumption ==
    /\ IsFiniteSet(Payments)
    /\ NoPayment \notin Payments
    /\ Worker \notin Requests
    /\ AdminCalls \subseteq {"all", "auto"}
    /\ Retries \in Nat
    /\ MaxJobs \in Nat
    /\ MaxCrashes \in 0 .. 1

VARIABLES
    cancelled,   \* the event's status: published or cancelled
    key,         \* whether the event row has the escrow's public key
    secret,      \* whether it has the encrypted secret
    account,     \* the escrow account on the ledger
    funds,       \* its balance
    paid,        \* the payments whose buyer has paid into it
    sent,        \* how often the ledger has sent each payment back
    rows,        \* the payments table
    tickets,     \* the status of each payment's ticket
    jobs,        \* the cancel-event jobs in the queue
    proc,        \* where each request, and the worker, is
    crashes      \* restarts so far

event  == <<cancelled, key, secret, jobs>>
ledger == <<account, funds, paid, sent>>
vars   == <<event, ledger, rows, tickets, proc, crashes>>

Procs == Requests \cup {Worker}

Row == [status : {"pending", "confirmed", "failed", "refunded"},
        hash : BOOLEAN]

Kinds == {"cancel", "confirm", "issue", "single", "all", "auto"}

Pcs == {"cancel", "enqueue", "verify", "issue", "creds", "list", "next",
        "check", "send", "load", "write", "void", "merge", "record"}

Idle == [pc |-> "idle"]

Busy ==
    [pc : Pcs, kind : Kinds,
     todo : SUBSET Payments,    \* listed and not yet dealt with
     listed : SUBSET Payments,  \* read as confirmed by this handler
     hashed : SUBSET Payments,  \* those of them with a transaction hash
     ok : BOOLEAN,              \* every refund so far succeeded
     pay : Payments \cup {NoPayment},
     hash : BOOLEAN,            \* the entity in hand has a transaction hash
     status : {"none", "confirmed", "failed", "refunded"},
     dirty : SUBSET {"status", "hash"},
     tries : 0 .. Retries]

Begin(kind, pc) ==
    [pc |-> pc, kind |-> kind, todo |-> {}, listed |-> {}, hashed |-> {},
     ok |-> TRUE, pay |-> NoPayment, hash |-> FALSE, status |-> "none",
     dirty |-> {}, tries |-> 0]

Goto(x, s) == proc' = [proc EXCEPT ![x] = s]

At(x, pc) == proc[x].pc = pc

Confirmed == {p \in Payments : rows[p].status = "confirmed"}

HasEscrow == key /\ secret

Init ==
    /\ cancelled = FALSE
    /\ key = TRUE
    /\ secret = TRUE
    /\ account = "open"
    /\ funds = 0
    /\ paid = {}
    /\ sent = [p \in Payments |-> 0]
    /\ rows = [p \in Payments |-> [status |-> "pending", hash |-> FALSE]]
    /\ tickets = [p \in Payments |-> "none"]
    /\ jobs = 0
    /\ proc = [x \in Procs |-> Idle]
    /\ crashes = 0
-----------------------------------------------------------------------------
(* repository.save(payment): TypeORM reads the row and then updates the    *)
(* columns in which the entity differs.                                    *)

Save(s, status) == [s EXCEPT !.pc = "load", !.status = status, !.tries = 0]

Differing(row, s) ==
    (IF row.status = s.status THEN {} ELSE {"status"})
    \cup (IF row.hash = s.hash THEN {} ELSE {"hash"})

SaveLoad(x) ==
    /\ At(x, "load")
    /\ LET s == proc[x]
           row == rows[s.pay]
       IN  Goto(x, [s EXCEPT
               !.pc = "write",
               !.dirty = Differing(row, s)])
    /\ UNCHANGED <<event, ledger, rows, tickets, crashes>>

\* The loop goes on with the next payment; a refund of its own is over.
NextPayment(s) ==
    [Begin(s.kind, "next") EXCEPT !.todo = s.todo, !.listed = s.listed,
                                  !.hashed = s.hashed, !.ok = s.ok]

Continue(s) ==
    IF s.kind \in {"all", "auto"} THEN NextPayment(s) ELSE Idle

\* Mutant: a failed refund does not spoil the result of the loop.
AfterAnySave(s) ==
    IF s.status = "refunded" THEN [s EXCEPT !.pc = "void", !.dirty = {}]
    ELSE Continue(s)

AfterSave(s) ==
    IF s.status = "refunded" THEN [s EXCEPT !.pc = "void", !.dirty = {}]
    ELSE Continue([s EXCEPT !.ok = FALSE])

Updated(row, s) ==
    [status |-> IF "status" \in s.dirty THEN s.status ELSE row.status,
     hash |-> IF "hash" \in s.dirty THEN s.hash ELSE row.hash]

SaveWrite(x) ==
    /\ At(x, "write")
    /\ LET s == proc[x]
       IN  /\ rows' = [rows EXCEPT ![s.pay] = Updated(@, s)]
           /\ Goto(x, AfterSave(s))
    /\ UNCHANGED <<event, ledger, tickets, crashes>>
-----------------------------------------------------------------------------
(* Buying: what Payments models in detail.                                 *)

\* A buyer pays the amount of an open intent into the escrow account.
Deposit(p) ==
    /\ p \notin paid
    /\ rows[p].status = "pending"
    /\ account = "open"
    /\ paid' = paid \cup {p}
    /\ funds' = funds + 1
    /\ UNCHANGED <<event, account, sent, rows, tickets, proc, crashes>>

\* confirmPayment does not look at the event's status, and may have the event
\* from the cache, with a public key that the row has lost.
ConfirmPayment(r, p) ==
    /\ proc[r] = Idle
    /\ p \in paid
    /\ rows[p] = [status |-> "pending", hash |-> FALSE]
    /\ Goto(r, [Begin("confirm", "verify") EXCEPT !.pay = p, !.hash = TRUE])
    /\ UNCHANGED <<event, ledger, rows, tickets, crashes>>

VerifyDestination(r) ==
    /\ At(r, "verify")
    /\ \/ Goto(r, Save(proc[r], "confirmed"))
       \/ Goto(r, Idle)
    /\ UNCHANGED <<event, ledger, rows, tickets, crashes>>

\* Neither does issueTicket look at the event's status.
IssueTicket(r, p) ==
    /\ proc[r] = Idle
    /\ rows[p] = [status |-> "confirmed", hash |-> TRUE]
    /\ Goto(r, [Begin("issue", "issue") EXCEPT !.pay = p])
    /\ UNCHANGED <<event, ledger, rows, tickets, crashes>>

InsertTicket(r) ==
    /\ At(r, "issue")
    /\ LET p == proc[r].pay
       IN  tickets' = [tickets EXCEPT ![p] = IF @ = "none" THEN "valid" ELSE @]
    /\ Goto(r, Idle)
    /\ UNCHANGED <<event, ledger, rows, crashes>>
-----------------------------------------------------------------------------
(* cancelEvent: the status is saved, then the job is queued.  The event    *)
(* may come from the cache, so a cancelled one may look published; the     *)
(* save writes its public key back too, but never the secret, which is not *)
(* selected.                                                               *)

CancelEvent(r) ==
    /\ proc[r] = Idle
    /\ jobs < MaxJobs
    /\ Goto(r, Begin("cancel", "cancel"))
    /\ UNCHANGED <<event, ledger, rows, tickets, crashes>>

SaveCancelled(r) ==
    /\ At(r, "cancel")
    /\ cancelled' = TRUE
    /\ key' = TRUE
    /\ Goto(r, [proc[r] EXCEPT !.pc = "enqueue"])
    /\ UNCHANGED <<secret, jobs, ledger, rows, tickets, crashes>>

QueueJob(r) ==
    /\ At(r, "enqueue")
    /\ jobs' = jobs + 1
    /\ Goto(r, Idle)
    /\ UNCHANGED <<cancelled, key, secret, ledger, rows, tickets, crashes>>
-----------------------------------------------------------------------------
(* refundSinglePayment, refundAllForEvent, processAutomaticRefund.         *)

\* Whatever the payment's status.
RefundSinglePayment(r, p) ==
    /\ proc[r] = Idle
    /\ Goto(r, [Begin("single", "creds") EXCEPT !.pay = p,
                                                !.hash = rows[p].hash])
    /\ UNCHANGED <<event, ledger, rows, tickets, crashes>>

ReadCredentials(r) ==
    /\ At(r, "creds")
    /\ Goto(r, IF HasEscrow THEN [proc[r] EXCEPT !.pc = "check"]
               ELSE Idle)
    /\ UNCHANGED <<event, ledger, rows, tickets, crashes>>

\* An administrator's call, with either policy.
RefundEvent(r, kind) ==
    /\ proc[r] = Idle
    /\ cancelled /\ HasEscrow
    /\ Goto(r, Begin(kind, "list"))
    /\ UNCHANGED <<event, ledger, rows, tickets, crashes>>

\* The worker takes a job; without an escrow account the job fails.
RunJob ==
    /\ proc[Worker] = Idle
    /\ jobs > 0
    /\ jobs' = jobs - 1
    /\ Goto(Worker, IF cancelled /\ HasEscrow THEN Begin("all", "list")
                    ELSE Idle)
    /\ UNCHANGED <<cancelled, key, secret, ledger, rows, tickets, crashes>>

ListConfirmed(x) ==
    /\ At(x, "list")
    /\ Goto(x, IF Confirmed = {} THEN Idle
               ELSE [proc[x] EXCEPT !.pc = "next", !.todo = Confirmed,
                                    !.listed = Confirmed,
                                    !.hashed = {p \in Confirmed :
                                                   rows[p].hash}])
    /\ UNCHANGED <<event, ledger, rows, tickets, crashes>>

\* Mutant: the loop stops at the first refund that fails.
PickUnlessFailed(x) ==
    /\ At(x, "next")
    /\ LET s == proc[x]
       IN  \/ \E p \in s.todo :
                 /\ s.ok
                 /\ Goto(x, [s EXCEPT !.pc = "check", !.pay = p,
                                      !.hash = p \in s.hashed,
                                      !.todo = @ \ {p}])
           \/ /\ s.todo = {} \/ ~ s.ok
              /\ \/ s.kind = "all" /\ s.ok
                    /\ Goto(x, [s EXCEPT !.pc = "merge"])
                 \/ Goto(x, Idle)
    /\ UNCHANGED <<event, ledger, rows, tickets, crashes>>

\* The payments one after the other, each as it was listed.  If all of them
\* were refunded, refundAllForEvent merges the account, provided it knows the
\* platform's key.
PickPayment(x) ==
    /\ At(x, "next")
    /\ LET s == proc[x]
       IN  \/ \E p \in s.todo :
                 Goto(x, [s EXCEPT !.pc = "check", !.pay = p,
                                   !.hash = p \in s.hashed,
                                   !.todo = @ \ {p}])
           \/ /\ s.todo = {}
              /\ \/ /\ s.kind = "all" /\ s.ok
                    /\ Goto(x, [s EXCEPT !.pc = "merge"])
                 \/ Goto(x, Idle)
    /\ UNCHANGED <<event, ledger, rows, tickets, crashes>>

\* processSingleRefund marks the payment FAILED whatever went wrong;
\* processAutomaticPaymentRefund leaves it alone.
GiveUp(s) ==
    IF s.kind = "auto" THEN NextPayment(s)
    ELSE Save(s, "failed")

\* The refund policy, the amount, the buyer's public key.
CheckEligibility(x) ==
    /\ At(x, "check")
    /\ \/ Goto(x, [proc[x] EXCEPT !.pc = "send"])
       \/ Goto(x, GiveUp(proc[x]))
    /\ UNCHANGED <<event, ledger, rows, tickets, crashes>>
-----------------------------------------------------------------------------
(* The ledger.  A transaction is applied, or rejected (no such account, no *)
(* funds, a sequence number that another transaction has used), or nobody  *)
(* hears of it, applied or not; it lives shorter than the delay of a retry.*)

Transfer(p) ==
    /\ account = "open"
    /\ funds > 0
    /\ funds' = funds - 1
    /\ sent' = [sent EXCEPT ![p] = @ + 1]
    /\ UNCHANGED <<account, paid>>

SendAnswered(x) ==
    /\ At(x, "send")
    /\ Transfer(proc[x].pay)
    /\ Goto(x, Save(proc[x], "refunded"))
    /\ UNCHANGED <<event, rows, tickets, crashes>>

SendRejected(x) ==
    /\ At(x, "send")
    /\ Goto(x, GiveUp(proc[x]))
    /\ UNCHANGED <<event, ledger, rows, tickets, crashes>>

\* Mutant: the transaction is taken to be on its way.
TimeoutIsSuccess(x) ==
    /\ At(x, "send")
    /\ Transfer(proc[x].pay) \/ UNCHANGED ledger
    /\ LET s == proc[x]
       IN  Goto(x, IF s.kind # "auto" /\ s.tries < Retries
                   THEN [s EXCEPT !.tries = @ + 1]
                   ELSE Save(s, "refunded"))
    /\ UNCHANGED <<event, rows, tickets, crashes>>

\* A refund that timed out is built and sent again, a policy-based one not.
SendTimesOut(x) ==
    /\ At(x, "send")
    /\ Transfer(proc[x].pay) \/ UNCHANGED ledger
    /\ LET s == proc[x]
       IN  Goto(x, IF s.kind # "auto" /\ s.tries < Retries
                   THEN [s EXCEPT !.tries = @ + 1]
                   ELSE GiveUp(s))
    /\ UNCHANGED <<event, rows, tickets, crashes>>

Send(x) == SendAnswered(x) \/ SendRejected(x) \/ SendTimesOut(x)

\* The tickets are marked: the one with the payment's hash, or all that its
\* owner has for the event.
Voided(s) ==
    {p \in Payments : /\ tickets[p] # "none"
                      /\ IF s.kind = "auto" THEN Owner[p] = Owner[s.pay]
                         ELSE s.hash /\ p = s.pay}

\* Mutant: the tickets of the event, whoever owns them.
VoidAllTickets(x) ==
    /\ At(x, "void")
    /\ LET s == proc[x]
       IN  /\ tickets' = [p \in Payments |->
                  IF tickets[p] # "none" THEN "refunded" ELSE tickets[p]]
           /\ \/ Goto(x, Continue(s))
              \/ Goto(x, GiveUp(s))
    /\ UNCHANGED <<event, ledger, rows, crashes>>

\* The audit record and the e-mail follow; an error there is an error of the
\* refund.
VoidTickets(x) ==
    /\ At(x, "void")
    /\ LET s == proc[x]
       IN  /\ tickets' = [p \in Payments |->
                  IF p \in Voided(s) THEN "refunded" ELSE tickets[p]]
           /\ \/ Goto(x, Continue(s))
              \/ Goto(x, GiveUp(s))
    /\ UNCHANGED <<event, ledger, rows, crashes>>
-----------------------------------------------------------------------------
(* Closing the account: the balance goes to the platform, and the          *)
(* credentials are erased.                                                 *)

Close ==
    /\ account = "open"
    /\ account' = "closed"
    /\ funds' = 0
    /\ UNCHANGED <<paid, sent>>

\* Mutant: any end of the submission is recorded.
MergeRecordedAnyway(x) ==
    /\ At(x, "merge")
    /\ Close \/ UNCHANGED ledger
    /\ Goto(x, [proc[x] EXCEPT !.pc = "record"])
    /\ UNCHANGED <<event, rows, tickets, crashes>>

MergeAccount(x) ==
    /\ At(x, "merge")
    /\ \/ Close /\ Goto(x, [proc[x] EXCEPT !.pc = "record"])
       \/ (Close \/ UNCHANGED ledger) /\ Goto(x, Idle)
    /\ UNCHANGED <<event, rows, tickets, crashes>>

RecordMerge(x) ==
    /\ At(x, "record")
    /\ key' = FALSE
    /\ secret' = FALSE
    /\ Goto(x, Idle)
    /\ UNCHANGED <<cancelled, jobs, ledger, rows, tickets, crashes>>
-----------------------------------------------------------------------------
\* The server restarts; the queue is not in its memory, and the job that was
\* running is run again.
Crash ==
    /\ crashes < MaxCrashes
    /\ crashes' = crashes + 1
    /\ proc' = [x \in Procs |-> Idle]
    /\ jobs' = IF proc[Worker] = Idle THEN jobs ELSE jobs + 1
    /\ UNCHANGED <<cancelled, key, secret, ledger, rows, tickets>>

\* What the worker and an administrator's call have in common.
RefundStep(x) ==
    \/ ListConfirmed(x) \/ PickPayment(x) \/ CheckEligibility(x) \/ Send(x)
    \/ SaveLoad(x) \/ SaveWrite(x) \/ VoidTickets(x)
    \/ MergeAccount(x) \/ RecordMerge(x)

RequestStep(r) ==
    \/ \E p \in Payments :
          \/ ConfirmPayment(r, p) \/ IssueTicket(r, p)
          \/ RefundSinglePayment(r, p)
    \/ VerifyDestination(r) \/ InsertTicket(r)
    \/ CancelEvent(r) \/ SaveCancelled(r) \/ QueueJob(r)
    \/ ReadCredentials(r)
    \/ \E kind \in AdminCalls : RefundEvent(r, kind)
    \/ RefundStep(r)

WorkerStep == RunJob \/ RefundStep(Worker)

Next ==
    \/ \E r \in Requests : RequestStep(r)
    \/ WorkerStep
    \/ \E p \in Payments : Deposit(p)
    \/ Crash

\* The queue keeps handing its jobs to the worker.
Spec == Init /\ [][Next]_vars /\ WF_vars(WorkerStep)
-----------------------------------------------------------------------------
TypeOK ==
    /\ cancelled \in BOOLEAN
    /\ key \in BOOLEAN
    /\ secret \in BOOLEAN
    /\ account \in {"open", "closed"}
    /\ funds \in Nat
    /\ paid \subseteq Payments
    /\ sent \in [Payments -> Nat]
    /\ rows \in [Payments -> Row]
    /\ tickets \in [Payments -> {"none", "valid", "refunded"}]
    /\ jobs \in Nat
    /\ proc \in [Procs -> {Idle} \cup Busy]
    /\ crashes \in 0 .. MaxCrashes

\* A payment recorded as refunded has been sent back by the ledger, whatever
\* requests, jobs, retries, stale saves and restarts came together.
RefundedIsPaidBack ==
    \A p \in Payments : rows[p].status = "refunded" => sent[p] > 0

\* The merge at the end of refundAllForEvent never takes the money of a
\* payment that it listed and has not sent back: one failed refund among many
\* is enough to leave the account open.
SweptAfterRefunds ==
    \A x \in Procs :
        At(x, "merge") => \A p \in proc[x].listed : sent[p] > 0

\* The escrow's secret is erased only when its account is closed, so
\* no money is left behind in an account without a key.
CredentialsOutliveAccount == ~ secret => account = "closed"

\* A ticket is marked refunded only if its owner was sent a payment of this
\* event back.
VoidedOwnersArePaid ==
    \A p \in Payments :
        tickets[p] = "refunded" =>
            \E q \in Payments : Owner[q] = Owner[p] /\ sent[q] > 0

\* Once the refunds of a cancelled event are queued, every confirmed payment
\* is dealt with, even if the refunds of others fail and a restart interrupts
\* the job, unless the account is merged first.
QueuedRefundsSettle ==
    \A p \in Payments :
        (jobs > 0 /\ rows[p].status = "confirmed" /\ HasEscrow)
            ~> (rows[p].status # "confirmed" \/ ~ HasEscrow)
=============================================================================
