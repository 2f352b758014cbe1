------------------------------ MODULE Payments ------------------------------
(***************************************************************************)
(* Payment intents of the backend, for one published event: creating an    *)
(* intent, confirming it against the Stellar ledger, the cron job that     *)
(* expires it, and issuing the ticket it pays for.                         *)
(*                                                                         *)
(* A handler is a sequence of awaits, and between two of them any other    *)
(* handler may run: each process has a record that says which await it is  *)
(* at and what it remembers from the earlier ones.  Nothing is locked and  *)
(* no handler runs in a database transaction.                              *)
(***************************************************************************)
EXTENDS Integers, FiniteSets

CONSTANTS
    Users,          \* the accounts that pay
    Intents,        \* bound: payment rows ever inserted
    Txs,            \* bound: Stellar transactions ever submitted
    Requests,       \* bound: HTTP requests in flight at a time
    Job,            \* the process of the expiry cron job
    NoUser, NoTx,   \* null
    MaxAttendees,   \* the event's capacity
    MaxCrashes      \* bound: restarts of the server

ASSUME PaymentsAssumption ==
    /\ NoUser \notin Users
    /\ NoTx \notin Txs
    /\ Job \notin Requests
    /\ IsFiniteSet(Requests) /\ Requests # {}
    /\ MaxAttendees \in Nat
    /\ MaxCrashes \in Nat

VARIABLES
    rows,      \* the payments table
    stale,     \* the intents whose expiresAt has passed
    ledger,    \* what the Stellar network knows of each transaction
    tickets,   \* the status of the ticket stored for each transaction hash
    proc,      \* where each request, and the job, is
    todo,      \* the intents the job has read and not yet saved
    crashes    \* restarts so far

vars == <<rows, stale, ledger, tickets, proc, todo, crashes>>

Procs == Requests \cup {Job}

PaymentStatus == {"pending", "confirmed", "failed"}

Row == [status : PaymentStatus \cup {"absent"}, user : Users \cup {NoUser},
        hash : Txs \cup {NoTx}]

NoRow == [status |-> "absent", user |-> NoUser, hash |-> NoTx]

\* A transaction carries a memo, and pays the escrow the amount of the intent
\* it names in the right asset, or does not.
NotSent == [sent |-> FALSE]
Sent == [sent : {TRUE}, memo : Intents, ok : BOOLEAN]

TicketStatus == {"none", "valid", "used"}

Idle == [pc |-> "idle"]

\* A row about to be saved: the fields the entity has, and, once TypeORM has
\* read the row to compare, those that differ from it.
Saving ==
    [pc : {"load", "write"}, intent : Intents,
     status : {"confirmed", "failed"}, hash : Txs \cup {NoTx},
     dirty : SUBSET {"status", "hash"}, then : {"idle", "insert"}]

\* The job inserts nothing after its saves.
Sweeping == {s \in Saving : s.then = "idle"}

Process ==
    {Idle}
    \cup [pc : {"lookup", "insert"}, user : Users]
    \cup [pc : {"find"}, user : Users, tx : Txs]
    \cup Saving
    \cup [pc : {"count", "seek", "issue", "reload"}, tx : Txs]
    \cup [pc : {"rewrite"}, tx : Txs, dirty : BOOLEAN]

Valid == {t \in Txs : tickets[t] = "valid"}

Unused == {p \in Intents : rows[p].status = "absent"}

Creators ==
    {r \in Requests : \/ proc[r].pc \in {"lookup", "insert"}
                      \/ proc[r] \in Saving /\ proc[r].then = "insert"}

Goto(x, s) == proc' = [proc EXCEPT ![x] = s]

Init ==
    /\ rows = [p \in Intents |-> NoRow]
    /\ stale = {}
    /\ ledger = [t \in Txs |-> NotSent]
    /\ tickets = [t \in Txs |-> "none"]
    /\ proc = [x \in Procs |-> Idle]
    /\ todo = {}
    /\ crashes = 0
-----------------------------------------------------------------------------
(* repository.save(payment): TypeORM reads the row, compares it with the   *)
(* entity and updates the columns that differ.                             *)

Save(p, status, hash, then) ==
    [pc |-> "load", intent |-> p, status |-> status, hash |-> hash,
     dirty |-> {}, then |-> then]

Differing(row, s) ==
    (IF row.status = s.status THEN {} ELSE {"status"})
    \cup (IF row.hash = s.hash THEN {} ELSE {"hash"})

SaveLoad(x) ==
    /\ proc[x].pc = "load"
    /\ LET s == proc[x]
       IN  Goto(x, [s EXCEPT !.pc = "write",
                             !.dirty = Differing(rows[s.intent], s)])
    /\ UNCHANGED <<rows, stale, ledger, tickets, todo, crashes>>

\* @Unique(['transactionHash']): the update fails and nothing is written.
Clashes(s) ==
    /\ "hash" \in s.dirty
    /\ s.hash # NoTx
    /\ \E q \in Intents \ {s.intent} : rows[q].hash = s.hash

Updated(row, s) ==
    [row EXCEPT !.status = IF "status" \in s.dirty THEN s.status ELSE @,
                !.hash = IF "hash" \in s.dirty THEN s.hash ELSE @]

SaveWrite(x) ==
    /\ proc[x].pc = "write"
    /\ LET s == proc[x]
           p == s.intent
       IN  IF Clashes(s)
           THEN Goto(x, Idle) /\ UNCHANGED rows
           ELSE /\ rows' = [rows EXCEPT ![p] = Updated(rows[p], s)]
                /\ Goto(x, IF s.then = "insert"
                           THEN [pc |-> "insert", user |-> rows[p].user]
                           ELSE Idle)
    /\ UNCHANGED <<stale, ledger, tickets, todo, crashes>>
-----------------------------------------------------------------------------
(* createPaymentIntent                                                     *)

\* The capacity check counts the valid tickets.
CreateIntent(r, u) ==
    /\ proc[r] = Idle
    /\ Cardinality(Valid) < MaxAttendees
    /\ Cardinality(Creators) < Cardinality(Unused)
    /\ Goto(r, [pc |-> "lookup", user |-> u])
    /\ UNCHANGED <<rows, stale, ledger, tickets, todo, crashes>>

\* Mutant: the intent that is found is failed whether or not it has expired.
FailOpenIntent(r) ==
    /\ proc[r].pc = "lookup"
    /\ LET u == proc[r].user
           open == {p \in Intents : rows[p].status = "pending"
                                    /\ rows[p].user = u}
       IN  \/ open = {} /\ Goto(r, [pc |-> "insert", user |-> u])
           \/ \E p \in open : Goto(r, Save(p, "failed", NoTx, "insert"))
    /\ UNCHANGED <<rows, stale, ledger, tickets, todo, crashes>>

\* An intent that is still open is returned again; an expired one is failed
\* and replaced.  findOne picks any of several.
FindOpenIntent(r) ==
    /\ proc[r].pc = "lookup"
    /\ LET u == proc[r].user
           open == {p \in Intents : rows[p].status = "pending"
                                    /\ rows[p].user = u}
       IN  \/ open = {} /\ Goto(r, [pc |-> "insert", user |-> u])
           \/ \E p \in open :
                 Goto(r, IF p \in stale THEN Save(p, "failed", NoTx, "insert")
                         ELSE Idle)
    /\ UNCHANGED <<rows, stale, ledger, tickets, todo, crashes>>

InsertIntent(r) ==
    /\ proc[r].pc = "insert"
    /\ \E p \in Unused :
          rows' = [rows EXCEPT ![p] = [status |-> "pending",
                                       user |-> proc[r].user,
                                       hash |-> NoTx]]
    /\ Goto(r, Idle)
    /\ UNCHANGED <<stale, ledger, tickets, todo, crashes>>
-----------------------------------------------------------------------------
(* confirmPayment                                                          *)

\* The transaction is on the ledger and no payment has its hash.
ConfirmPayment(r, u, t) ==
    /\ proc[r] = Idle
    /\ ledger[t].sent
    /\ \A p \in Intents : rows[p].hash # t
    /\ Goto(r, [pc |-> "find", user |-> u, tx |-> t])
    /\ UNCHANGED <<rows, stale, ledger, tickets, todo, crashes>>

\* Mutant: the amount, asset and destination are not looked at.
FindAnyPaidIntent(r) ==
    /\ proc[r].pc = "find"
    /\ LET t == proc[r].tx
           p == ledger[t].memo
       IN  Goto(r, IF \/ rows[p].status # "pending"
                      \/ rows[p].user # proc[r].user
                   THEN Idle
                   ELSE IF p \in stale THEN Save(p, "failed", NoTx, "idle")
                   ELSE Save(p, "confirmed", t, "idle"))
    /\ UNCHANGED <<rows, stale, ledger, tickets, todo, crashes>>

\* Mutant: expiresAt is not looked at.
FindExpiredIntent(r) ==
    /\ proc[r].pc = "find"
    /\ LET t == proc[r].tx
           p == ledger[t].memo
       IN  Goto(r, IF \/ rows[p].status # "pending"
                      \/ rows[p].user # proc[r].user
                      \/ ~ ledger[t].ok
                   THEN Idle
                   ELSE Save(p, "confirmed", t, "idle"))
    /\ UNCHANGED <<rows, stale, ledger, tickets, todo, crashes>>

\* The pending intent the memo names: it must be the caller's; an expired one
\* is failed; the payment must match it.
FindIntent(r) ==
    /\ proc[r].pc = "find"
    /\ LET t == proc[r].tx
           p == ledger[t].memo
       IN  Goto(r, IF \/ rows[p].status # "pending"
                      \/ rows[p].user # proc[r].user
                   THEN Idle
                   ELSE IF p \in stale THEN Save(p, "failed", NoTx, "idle")
                   ELSE IF ~ ledger[t].ok THEN Idle
                   ELSE Save(p, "confirmed", t, "idle"))
    /\ UNCHANGED <<rows, stale, ledger, tickets, todo, crashes>>
-----------------------------------------------------------------------------
(* The expiry job: it reads the expired intents and then saves them one by *)
(* one as it read them.                                                    *)

\* Mutant: the job waits until no request is in flight.
SweepStartWhenQuiet ==
    /\ \A x \in Procs : proc[x] = Idle
    /\ todo = {}
    /\ todo' = {p \in stale : rows[p].status = "pending"}
    /\ todo' # {}
    /\ UNCHANGED <<rows, stale, ledger, tickets, proc, crashes>>

SweepStart ==
    /\ proc[Job] = Idle /\ todo = {}
    /\ todo' = {p \in stale : rows[p].status = "pending"}
    /\ todo' # {}
    /\ UNCHANGED <<rows, stale, ledger, tickets, proc, crashes>>

SweepNext ==
    /\ proc[Job] = Idle
    /\ \E p \in todo :
          /\ todo' = todo \ {p}
          /\ Goto(Job, Save(p, "failed", NoTx, "idle"))
    /\ UNCHANGED <<rows, stale, ledger, tickets, crashes>>
-----------------------------------------------------------------------------
(* issueTicket                                                             *)

IssueTicket(r, p) ==
    /\ proc[r] = Idle
    /\ rows[p].status = "confirmed"
    /\ rows[p].hash # NoTx
    /\ ledger[rows[p].hash].memo = p
    /\ Goto(r, [pc |-> "count", tx |-> rows[p].hash])
    /\ UNCHANGED <<rows, stale, ledger, tickets, todo, crashes>>

\* Mutant: the seats are not counted.
CountNoSeats(r) ==
    /\ proc[r].pc = "count"
    /\ Goto(r, [proc[r] EXCEPT !.pc = "seek"])
    /\ UNCHANGED <<rows, stale, ledger, tickets, todo, crashes>>

CountSeats(r) ==
    /\ proc[r].pc = "count"
    /\ Goto(r, IF Cardinality(Valid) < MaxAttendees
               THEN [proc[r] EXCEPT !.pc = "seek"] ELSE Idle)
    /\ UNCHANGED <<rows, stale, ledger, tickets, todo, crashes>>

SeekTicket(r) ==
    /\ proc[r].pc = "seek"
    /\ Goto(r, IF tickets[proc[r].tx] = "none"
               THEN [proc[r] EXCEPT !.pc = "issue"] ELSE Idle)
    /\ UNCHANGED <<rows, stale, ledger, tickets, todo, crashes>>

\* transactionHash is unique in the tickets table too: a second insert fails.
\* The ticket is saved again when its PDF has been made.
InsertTicket(r) ==
    /\ proc[r].pc = "issue"
    /\ LET t == proc[r].tx
       IN  IF tickets[t] = "none"
           THEN /\ tickets' = [tickets EXCEPT ![t] = "valid"]
                /\ \/ Goto(r, [pc |-> "reload", tx |-> t])
                   \/ Goto(r, Idle)
           ELSE Goto(r, Idle) /\ UNCHANGED tickets
    /\ UNCHANGED <<rows, stale, ledger, todo, crashes>>

ResaveLoad(r) ==
    /\ proc[r].pc = "reload"
    /\ LET t == proc[r].tx
       IN  Goto(r, [pc |-> "rewrite", tx |-> t,
                    dirty |-> tickets[t] # "valid"])
    /\ UNCHANGED <<rows, stale, ledger, tickets, todo, crashes>>

ResaveWrite(r) ==
    /\ proc[r].pc = "rewrite"
    /\ tickets' = [tickets EXCEPT ![proc[r].tx] =
                      IF proc[r].dirty THEN "valid" ELSE @]
    /\ Goto(r, Idle)
    /\ UNCHANGED <<rows, stale, ledger, todo, crashes>>

\* verifyQrCheckIn: one conditional update from valid to used.
CheckIn(t) ==
    /\ tickets[t] = "valid"
    /\ tickets' = [tickets EXCEPT ![t] = "used"]
    /\ UNCHANGED <<rows, stale, ledger, proc, todo, crashes>>
-----------------------------------------------------------------------------
(* The environment.                                                        *)

\* A transaction with the memo of an intent lands on the ledger.
Pay(t, p, ok) ==
    /\ ~ ledger[t].sent
    /\ rows[p].status # "absent"
    /\ ledger' = [ledger EXCEPT ![t] = [sent |-> TRUE, memo |-> p, ok |-> ok]]
    /\ UNCHANGED <<rows, stale, tickets, proc, todo, crashes>>

\* The thirty minutes of an intent are over.
Expire(p) ==
    /\ rows[p].status # "absent"
    /\ p \notin stale
    /\ stale' = stale \cup {p}
    /\ UNCHANGED <<rows, ledger, tickets, proc, todo, crashes>>

\* The server restarts and forgets what it was doing.
Crash ==
    /\ crashes < MaxCrashes
    /\ crashes' = crashes + 1
    /\ proc' = [x \in Procs |-> Idle]
    /\ todo' = {}
    /\ UNCHANGED <<rows, stale, ledger, tickets>>
-----------------------------------------------------------------------------
RequestStep(r) ==
    \/ \E u \in Users : \/ CreateIntent(r, u)
                        \/ \E t \in Txs : ConfirmPayment(r, u, t)
    \/ FindOpenIntent(r) \/ InsertIntent(r)
    \/ FindIntent(r)
    \/ \E p \in Intents : IssueTicket(r, p)
    \/ CountSeats(r) \/ SeekTicket(r) \/ InsertTicket(r)
    \/ ResaveLoad(r) \/ ResaveWrite(r)

SaveStep(x) == SaveLoad(x) \/ SaveWrite(x)

SweepStep == SweepStart \/ SweepNext \/ SaveStep(Job)

Environment ==
    \/ \E t \in Txs, p \in Intents, ok \in BOOLEAN : Pay(t, p, ok)
    \/ \E p \in Intents : Expire(p)
    \/ \E t \in Txs : CheckIn(t)
    \/ Crash

Next ==
    \/ \E r \in Requests : RequestStep(r) \/ SaveStep(r)
    \/ SweepStep
    \/ Environment

\* The cron keeps starting the job and the event loop keeps resuming it.
Spec == Init /\ [][Next]_vars /\ WF_vars(SweepStep)
-----------------------------------------------------------------------------
TypeOK ==
    /\ rows \in [Intents -> Row]
    /\ stale \subseteq Intents
    /\ ledger \in [Txs -> {NotSent} \cup Sent]
    /\ tickets \in [Txs -> TicketStatus]
    /\ proc \in [Procs -> Process]
    /\ proc[Job] \in {Idle} \cup Sweeping
    /\ todo \subseteq Intents
    /\ crashes \in 0 .. MaxCrashes
    /\ \A p \in Intents : rows[p].status # "absent" => rows[p].user \in Users

\* A transaction hash stored with a payment, whatever its status has become
\* and whoever else was saving the row, is the hash of a transaction on the
\* ledger that names this payment and pays its amount; a pending payment,
\* which stale entities still save with a null hash, has none.
HashesProvePayment ==
    \A p \in Intents :
        LET t == rows[p].hash
        IN  t # NoTx => /\ rows[p].status # "pending"
                        /\ ledger[t].sent /\ ledger[t].memo = p
                        /\ ledger[t].ok

\* No ticket without a payment: the hash it is stored under is that of a
\* matching transaction, even if the payment was failed in the meantime.
TicketsArePaid ==
    \A t \in Txs :
        tickets[t] # "none" =>
            /\ ledger[t].sent /\ ledger[t].ok
            /\ rows[ledger[t].memo].status # "absent"

\* issueTicket counts the seats and inserts the ticket later, so it can
\* oversell; but by no more than the requests that can be in between, the
\* late second save of a ticket that was already scanned included.
OversellIsBounded ==
    Cardinality(Valid) <= MaxAttendees + Cardinality(Requests) - 1

\* Only an expired intent is ever failed, also by a save of a stale entity.
OnlyExpiredIntentsFail ==
    [][\A p \in Intents :
          rows'[p].status = "failed" /\ rows[p].status # "failed"
              => p \in stale]_vars

\* An expired intent that is not confirmed, and that no request has already
\* decided to confirm, never will be.
Lapsed(p) ==
    /\ p \in stale
    /\ rows[p].status # "confirmed"
    /\ \A x \in Procs :
          proc[x] \in Saving => \/ proc[x].intent # p
                                \/ proc[x].status # "confirmed"

ExpiryIsFinal == [][\A p \in Intents : Lapsed(p) => Lapsed(p)']_vars

\* An expired intent does not stay pending: the job closes it, even though
\* restarts may interrupt the job.
ExpiredIntentsClose ==
    \A p \in Intents :
        (p \in stale /\ rows[p].status = "pending")
            ~> (rows[p].status # "pending")
=============================================================================
