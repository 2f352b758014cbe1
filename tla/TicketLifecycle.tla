-------------------------- MODULE TicketLifecycle --------------------------
(***************************************************************************)
(* What happens to the issued tickets of one event of the backend: they    *)
(* are scanned in two ways, transferred, listed and resold, given away, and *)
(* expired by a cron job.  A handler reads the ticket, waits, and saves    *)
(* the entity it read.                                                     *)
(*                                                                         *)
(* One action runs from one await to the next.  Reads of rows that do not  *)
(* change (the event, the users) are merged with the step before them.     *)
(***************************************************************************)
EXTENDS Integers, FiniteSets, EntityStore

CONSTANTS
    Users,
    Tickets,        \* the tickets of the event
    FirstOwner,     \* who they were issued to
    Gifts,          \* bound: gifts ever wrapped
    Requests,       \* bound: HTTP requests ever made
    GiftJob,        \* the gift delivery cron job
    ExpiryJob,      \* the ticket expiry cron job
    NoUser, Never,  \* null
    Start,          \* when the event starts and, here, ends
    MaxCrashes      \* bound: restarts of the server

ASSUME TicketsAssumption ==
    /\ FirstOwner \in Users /\ NoUser \notin Users
    /\ {GiftJob, ExpiryJob} \cap Requests = {} /\ GiftJob # ExpiryJob
    /\ Start \in Nat \ {0} /\ Never \notin Int
    /\ MaxCrashes \in Nat

VARIABLES
    tickets,    \* the tickets table
    gifts,      \* the ticket_gifts table
    proc,       \* where each request and job is, and the entities it holds
    todo,       \* the gifts the delivery job has read and not yet handled
    now,        \* the clock
    crashes,    \* restarts so far
    old,        \* the tickets written since a process read them
    history     \* what was done with each ticket, as the code never counts it

vars == <<tickets, gifts, proc, todo, now, crashes, old, history>>

Procs == Requests \cup {GiftJob, ExpiryJob}

\* last is the recipient in the last entry of transferHistory.
Ticket == [owner : Users, status : {"valid", "used", "expired"},
           listed : BOOLEAN, last : Users \cup {NoUser}]

InFlight == {"wrapped", "scheduled"}
Dates == 1 .. Start - 1

Gift == [status : InFlight \cup {"delivered", "unwrapped", "cancelled"},
         date : Dates \cup {Never}, ticket : Tickets, from : Users, to : Users]
NoGift == [status |-> "absent"]

\* admitted: scans that let somebody in.  listings and sold: resales opened
\* and completed.  lost: saves by a handler whose copy of the ticket was old.
\* owners: everybody the table ever named as the owner.
History == [admitted : Nat, listings : Nat, sold : Nat, lost : Nat,
            owners : SUBSET Users]

New  == [pc |-> "new"]
Done == [pc |-> "done"]
Idle == [pc |-> "idle"]

\* A ticket as it was issued, and perhaps listed for resale since.
Issued(listed) ==
    [owner |-> FirstOwner, status |-> "valid", listed |-> listed, last |-> NoUser]
Unscanned(listed) ==
    [admitted |-> 0, listings |-> IF listed THEN 1 ELSE 0, sold |-> 0,
     lost |-> 0, owners |-> {FirstOwner}]

Init ==
    /\ \E listed \in [Tickets -> BOOLEAN] :
          /\ tickets = [t \in Tickets |-> Issued(listed[t])]
          /\ history = [t \in Tickets |-> Unscanned(listed[t])]
    /\ gifts = [g \in Gifts |-> NoGift]
    /\ proc = [x \in Procs |-> IF x \in Requests THEN New ELSE Idle]
    /\ todo = {}
    /\ now = 0
    /\ crashes = 0
    /\ old = [x \in Procs |-> {}]

\* The request is yet to come.
Fresh(r) == proc[r] = New

Goto(x, s) == proc' = [proc EXCEPT ![x] = s]

\* A request is over; a job waits for its next run.
Rest(x) == IF x \in Requests THEN Done ELSE Idle
Resting == {New, Done, Idle}

\* Process x has no entities any more.
Finish(x) == Goto(x, Rest(x)) /\ old' = [old EXCEPT ![x] = {}]

\* The tables are only read.
OnlyReads == UNCHANGED <<tickets, gifts, now, crashes, history>>

\* A process that saves an entity and then goes on with `then`.
Save(t, entity, then) ==
    [pc |-> "load", ticket |-> t, entity |-> entity, dirty |-> {},
     then |-> then, gift |-> NoGift, date |-> Never, outer |-> NoGift]
-----------------------------------------------------------------------------
(* Saving a ticket.                                                        *)

SaveLoad(x) ==
    /\ proc[x].pc = "load"
    /\ LET s == proc[x]
       IN  Goto(x, [s EXCEPT !.pc = "write",
                             !.dirty = Differing(tickets[s.ticket], s.entity)])
    /\ OnlyReads /\ UNCHANGED <<todo, old>>

\* Mark what is saved for a scan, a listing, a sale.
Recorded(h, purpose, isOld, row) ==
    [h EXCEPT !.admitted = @ + (IF purpose = "admit" THEN 1 ELSE 0),
              !.listings = @ + (IF purpose = "list" THEN 1 ELSE 0),
              !.sold     = @ + (IF purpose = "sell" THEN 1 ELSE 0),
              !.lost     = @ + (IF isOld THEN 1 ELSE 0),
              !.owners   = @ \cup {row.owner}]

\* Process x writes the tickets S: everybody else's copies are old now.
Outdated(x, S) ==
    [y \in Procs |-> IF y = x \/ proc[y] \in Resting THEN old[y] ELSE old[y] \cup S]

\* A gift entity on its way into the table.
SaveGift(g, status, date) ==
    [pc |-> "giftload", gift |-> g, status |-> status, date |-> date,
     dirty |-> {}]

\* After record_ownership_transfer has saved, transferTicket saves its own
\* copy, and deliverGift then marks the gift.
Continue(x, s) ==
    CASE s.then = "record" ->
            [Save(s.ticket, [s.outer EXCEPT !.last = s.entity.last], "deliver")
                EXCEPT !.gift = s.gift, !.date = s.date]
      [] s.then = "deliver" -> SaveGift(s.gift, "delivered", s.date)
      [] OTHER -> Rest(x)

SaveWrite(x) ==
    /\ proc[x].pc = "write"
    /\ LET s == proc[x]
           t == s.ticket
           row == Updated(tickets[t], s.entity, s.dirty)
           next == Continue(x, s)
       IN  /\ tickets' = [tickets EXCEPT ![t] = row]
           /\ history' = [history EXCEPT ![t] =
                             Recorded(@, s.then, t \in old[x], row)]
           /\ Goto(x, next)
           /\ old' = [Outdated(x, {t}) EXCEPT
                         ![x] = IF next.pc = "load" THEN @ ELSE {}]
    /\ UNCHANGED <<gifts, todo, now, crashes>>
-----------------------------------------------------------------------------
(* Scanning.                                                               *)

\* Mutant: a used ticket is not told from a valid one.
VerifyAnyTicket(r, t) ==
    /\ Fresh(r)
    /\ tickets[t].status # "expired"
    /\ Goto(r, Save(t, [tickets[t] EXCEPT !.status = "used"], "admit"))
    /\ OnlyReads /\ UNCHANGED <<todo, old>>

\* verifyTicket.
VerifyTicket(r, t) ==
    /\ Fresh(r)
    /\ tickets[t].status = "valid"
    /\ Goto(r, Save(t, [tickets[t] EXCEPT !.status = "used"], "admit"))
    /\ OnlyReads /\ UNCHANGED <<todo, old>>

\* verifyQrCheckIn: the checks, and then one conditional update.
ReadForCheckIn(r, t) ==
    /\ Fresh(r)
    /\ tickets[t].status = "valid"
    /\ Goto(r, [pc |-> "checkin", ticket |-> t, owner |-> tickets[t].owner])
    /\ OnlyReads /\ UNCHANGED <<todo, old>>

CheckIn(r) ==
    /\ proc[r].pc = "checkin"
    /\ LET t == proc[r].ticket
           hit == tickets[t].status = "valid" /\ tickets[t].owner = proc[r].owner
           row == [tickets[t] EXCEPT !.status = "used"]
       IN  IF hit
           THEN /\ tickets' = [tickets EXCEPT ![t] = row]
                /\ history' = [history EXCEPT ![t] =
                                  Recorded(@, "admit", FALSE, row)]
                /\ old' = [Outdated(r, {t}) EXCEPT ![r] = {}]
           ELSE UNCHANGED <<tickets, history>> /\ old' = [old EXCEPT ![r] = {}]
    /\ Goto(r, Done)
    /\ UNCHANGED <<gifts, todo, now, crashes>>
-----------------------------------------------------------------------------
(* Transfers between users.                                                *)

\* transferTicket, for the gift g with the given date.  A refusal is an
\* error for the gift; the job goes on with the next one.
Transfer(x) ==
    /\ proc[x].pc = "transfer"
    /\ LET s == proc[x]
           g == gifts[s.gift]
           row == tickets[g.ticket]
       IN  IF row.owner = g.from /\ row.status = "valid"
           THEN Goto(x, [pc |-> "reread", ticket |-> g.ticket,
                         outer |-> [row EXCEPT !.owner = g.to],
                         gift |-> s.gift, date |-> s.date])
           ELSE Goto(x, Rest(x))
    /\ old' = [old EXCEPT ![x] = {}]
    /\ OnlyReads /\ UNCHANGED todo

\* record_ownership_transfer reads the ticket once more and saves that copy,
\* which has the old owner.
RecordTransfer(x) ==
    /\ proc[x].pc = "reread"
    /\ LET s == proc[x]
           to == gifts[s.gift].to
       IN  Goto(x, [Save(s.ticket, [tickets[s.ticket] EXCEPT !.last = to], "record")
                       EXCEPT !.outer = s.outer, !.gift = s.gift,
                              !.date = s.date])
    /\ OnlyReads /\ UNCHANGED <<todo, old>>

\* validate_batch_recipients, for one ticket of the batch.
ValidateBatch(r, t, to) ==
    /\ Fresh(r)
    /\ tickets[t].status = "valid"
    /\ to # tickets[t].owner
    /\ Goto(r, [pc |-> "batch", ticket |-> t, to |-> to])
    /\ OnlyReads /\ UNCHANGED <<todo, old>>

\* batch_transfer_tickets reads the ticket again and checks nothing.
BatchTransfer(r) ==
    /\ proc[r].pc = "batch"
    /\ LET s == proc[r]
       IN  Goto(r, Save(s.ticket, [tickets[s.ticket] EXCEPT !.owner = s.to,
                                                           !.last = s.to],
                        "done"))
    /\ old' = [old EXCEPT ![r] = {}]
    /\ OnlyReads /\ UNCHANGED todo

\* confirmTransfer: the recipient is the last one recorded, the transaction
\* between them is on the ledger, and the status is not looked at.
ConfirmTransfer(r, t) ==
    /\ Fresh(r)
    /\ tickets[t].last # NoUser
    /\ Goto(r, Save(t, [tickets[t] EXCEPT !.owner = tickets[t].last], "done"))
    /\ OnlyReads /\ UNCHANGED <<todo, old>>
-----------------------------------------------------------------------------
(* Resale.                                                                 *)

\* listTicketForResale, called by the owner with an admissible price.
ListForResale(r, t) ==
    /\ Fresh(r)
    /\ tickets[t].status = "valid" /\ ~ tickets[t].listed
    /\ Goto(r, Save(t, [tickets[t] EXCEPT !.listed = TRUE], "list"))
    /\ OnlyReads /\ UNCHANGED <<todo, old>>

\* cancelResaleListing.
CancelListing(r, t) ==
    /\ Fresh(r)
    /\ tickets[t].listed
    /\ Goto(r, Save(t, [tickets[t] EXCEPT !.listed = FALSE], "done"))
    /\ OnlyReads /\ UNCHANGED <<todo, old>>

\* Mutant: the entity is saved with its listing.
BuyAndKeepListed(r, t, buyer) ==
    /\ Fresh(r)
    /\ tickets[t].listed
    /\ buyer # tickets[t].owner
    /\ Goto(r, Save(t, [tickets[t] EXCEPT !.owner = buyer], "sell"))
    /\ OnlyReads /\ UNCHANGED <<todo, old>>

\* buyResaleTicket.  A payment of the price to the seller is on the ledger
\* (nothing ties the hash to one sale), price ceiling and fraud heuristics let
\* it through; they are a choice not to take this step.
BuyResale(r, t, buyer) ==
    /\ Fresh(r)
    /\ tickets[t].listed
    /\ buyer # tickets[t].owner
    /\ Goto(r, Save(t, [tickets[t] EXCEPT !.owner = buyer, !.listed = FALSE],
                    "sell"))
    /\ OnlyReads /\ UNCHANGED <<todo, old>>
-----------------------------------------------------------------------------
(* Gifts.                                                                  *)

\* validateSchedule: an absent or past date means none; one after the start of
\* the event is refused.
Scheduled(date) == IF date = Never \/ date <= now THEN Never ELSE date

\* wrapTicketGift: the checks of the ticket.
Wrap(r, t, to, date) ==
    /\ Fresh(r)
    /\ tickets[t].status = "valid" /\ ~ tickets[t].listed
    /\ to # tickets[t].owner
    /\ Goto(r, [pc |-> "seek", ticket |-> t, from |-> tickets[t].owner,
                to |-> to, date |-> Scheduled(date)])
    /\ OnlyReads /\ UNCHANGED <<todo, old>>

\* No other gift of the ticket may be in flight.
SeekGift(r) ==
    /\ proc[r].pc = "seek"
    /\ IF \E g \in Gifts : /\ gifts[g].status \in InFlight
                           /\ gifts[g].ticket = proc[r].ticket
       THEN Finish(r)
       ELSE Goto(r, [proc[r] EXCEPT !.pc = "insert"]) /\ UNCHANGED old
    /\ OnlyReads /\ UNCHANGED todo

\* The gift is inserted, and delivered at once when it has no date.
InsertGift(r, g) ==
    /\ proc[r].pc = "insert"
    /\ gifts[g] = NoGift
    /\ LET s == proc[r]
           atOnce == s.date = Never
       IN  /\ gifts' = [gifts EXCEPT ![g] =
                 [status |-> IF atOnce THEN "wrapped" ELSE "scheduled",
                  date |-> s.date, ticket |-> s.ticket,
                  from |-> s.from, to |-> s.to]]
           /\ IF atOnce
              THEN /\ Goto(r, [pc |-> "transfer", gift |-> g, date |-> Never])
                   /\ UNCHANGED old
              ELSE Finish(r)
    /\ UNCHANGED <<tickets, todo, now, crashes, history>>

\* scheduleGiftDelivery: a date that has passed (Never stands for those before
\* the clock began) is stored as none.
Reschedule(r, g, date) ==
    /\ Fresh(r)
    /\ gifts[g].status \in InFlight
    /\ Goto(r, SaveGift(g, "scheduled", Scheduled(date)))
    /\ OnlyReads /\ UNCHANGED <<todo, old>>

CancelGift(r, g) ==
    /\ Fresh(r)
    /\ gifts[g].status \in InFlight
    /\ Goto(r, SaveGift(g, "cancelled", gifts[g].date))
    /\ OnlyReads /\ UNCHANGED <<todo, old>>

\* unwrapGiftAnimation, the first time.
Unwrap(r, g) ==
    /\ Fresh(r)
    /\ gifts[g].status = "delivered"
    /\ Goto(r, SaveGift(g, "unwrapped", gifts[g].date))
    /\ OnlyReads /\ UNCHANGED <<todo, old>>

GiftLoad(x) ==
    /\ proc[x].pc = "giftload"
    /\ LET s == proc[x]
           row == gifts[s.gift]
           entity == [row EXCEPT !.status = s.status, !.date = s.date]
       IN  Goto(x, [s EXCEPT !.pc = "giftwrite",
                             !.dirty = Differing(row, entity)])
    /\ OnlyReads /\ UNCHANGED <<todo, old>>

GiftWrite(x) ==
    /\ proc[x].pc = "giftwrite"
    /\ LET s == proc[x]
           entity == [gifts[s.gift] EXCEPT !.status = s.status, !.date = s.date]
       IN  gifts' = [gifts EXCEPT ![s.gift] = Updated(@, entity, s.dirty)]
    /\ Finish(x)
    /\ UNCHANGED <<tickets, todo, now, crashes, history>>

\* The gift delivery job reads what is due ...
IsDue(g) == /\ gifts[g].status = "scheduled"
            /\ gifts[g].date # Never
            /\ gifts[g].date <= now

\* Mutant: a gift is due only after its date.
GiftSweepLater ==
    /\ proc[GiftJob] = Idle /\ todo = {}
    /\ todo' = {[gift |-> g, date |-> gifts[g].date] :
                  g \in {h \in Gifts : IsDue(h) /\ gifts[h].date < now}}
    /\ todo' # {}
    /\ OnlyReads /\ UNCHANGED <<proc, old>>

GiftSweep ==
    /\ proc[GiftJob] = Idle /\ todo = {}
    /\ todo' = {[gift |-> g, date |-> gifts[g].date] : g \in {h \in Gifts : IsDue(h)}}
    /\ todo' # {}
    /\ OnlyReads /\ UNCHANGED <<proc, old>>

\* Mutant: a gift that is due is marked delivered without its ticket.
GiftSweepMarks ==
    /\ proc[GiftJob] = Idle
    /\ \E e \in todo :
          /\ todo' = todo \ {e}
          /\ Goto(GiftJob, SaveGift(e.gift, "delivered", e.date))
    /\ OnlyReads /\ UNCHANGED old

\* ... and delivers the gifts as it read them, the earliest first.
GiftSweepNext ==
    /\ proc[GiftJob] = Idle
    /\ \E e \in todo :
          /\ \A f \in todo : e.date <= f.date
          /\ todo' = todo \ {e}
          /\ Goto(GiftJob, [pc |-> "transfer", gift |-> e.gift, date |-> e.date])
    /\ OnlyReads /\ UNCHANGED old
-----------------------------------------------------------------------------
(* The ticket expiry job reads every valid ticket of an event that is over *)
(* and saves them all in one transaction.                                  *)

Over == now >= Start

\* Mutant: the job passes over the listed tickets.
ExpirableUnlisted ==
    {t \in Tickets : Over /\ tickets[t].status = "valid" /\ ~ tickets[t].listed}

Expirable == {t \in Tickets : Over /\ tickets[t].status = "valid"}

ExpiryRead ==
    /\ proc[ExpiryJob] = Idle
    /\ Expirable # {}
    /\ Goto(ExpiryJob,
            [pc |-> "batchload",
             batch |-> [t \in Expirable |-> [tickets[t] EXCEPT !.status = "expired"]]])
    /\ OnlyReads /\ UNCHANGED <<todo, old>>

ExpiryLoad ==
    /\ proc[ExpiryJob].pc = "batchload"
    /\ LET b == proc[ExpiryJob].batch
       IN  Goto(ExpiryJob, [pc |-> "batchwrite", batch |-> b,
                            dirty |-> [t \in DOMAIN b |-> Differing(tickets[t], b[t])]])
    /\ OnlyReads /\ UNCHANGED <<todo, old>>

ExpiryWrite ==
    /\ proc[ExpiryJob].pc = "batchwrite"
    /\ LET s == proc[ExpiryJob]
           B == DOMAIN s.batch
           row(t) == Updated(tickets[t], s.batch[t], s.dirty[t])
       IN  /\ tickets' = [t \in Tickets |-> IF t \in B THEN row(t) ELSE tickets[t]]
           /\ history' = [t \in Tickets |->
                 IF t \in B
                 THEN Recorded(history[t], "expire", t \in old[ExpiryJob], row(t))
                 ELSE history[t]]
           /\ old' = [Outdated(ExpiryJob, B) EXCEPT ![ExpiryJob] = {}]
    /\ Goto(ExpiryJob, Idle)
    /\ UNCHANGED <<gifts, todo, now, crashes>>
-----------------------------------------------------------------------------
(* The environment.                                                        *)

Tick ==
    /\ now < Start
    /\ now' = now + 1
    /\ UNCHANGED <<tickets, gifts, proc, todo, crashes, old, history>>

\* The server restarts: the tables stay.
Crash ==
    /\ crashes < MaxCrashes
    /\ crashes' = crashes + 1
    /\ proc' = [x \in Procs |-> IF proc[x] = New THEN New ELSE Rest(x)]
    /\ todo' = {}
    /\ old' = [x \in Procs |-> {}]
    /\ UNCHANGED <<tickets, gifts, now, history>>
-----------------------------------------------------------------------------
TicketRequest(r, t) ==
    \/ VerifyTicket(r, t) \/ ReadForCheckIn(r, t)
    \/ ConfirmTransfer(r, t) \/ ListForResale(r, t) \/ CancelListing(r, t)
    \/ \E u \in Users : BuyResale(r, t, u) \/ ValidateBatch(r, t, u)
    \/ \E u \in Users, d \in Dates \cup {Never} : Wrap(r, t, u, d)

GiftRequest(r, g) ==
    \/ CancelGift(r, g) \/ Unwrap(r, g) \/ InsertGift(r, g)
    \/ \E d \in Dates \cup {Never} : Reschedule(r, g, d)

\* What a handler does after its first await.
Resume(x) ==
    \/ SaveLoad(x) \/ SaveWrite(x)
    \/ CheckIn(x) \/ BatchTransfer(x) \/ SeekGift(x)
    \/ Transfer(x) \/ RecordTransfer(x) \/ GiftLoad(x) \/ GiftWrite(x)

GiftJobStep == GiftSweep \/ GiftSweepNext \/ Resume(GiftJob)
ExpiryJobStep == ExpiryRead \/ ExpiryLoad \/ ExpiryWrite

Next ==
    \/ \E r \in Requests : \/ Resume(r)
                           \/ \E t \in Tickets : TicketRequest(r, t)
                           \/ \E g \in Gifts : GiftRequest(r, g)
    \/ GiftJobStep
    \/ ExpiryJobStep
    \/ Tick
    \/ Crash

Spec == Init /\ [][Next]_vars

\* The cron jobs run again, and their database calls come back.
FairSpec == Spec /\ WF_vars(GiftJobStep) /\ WF_vars(ExpiryJobStep)
-----------------------------------------------------------------------------
TicketsTypeOK ==
    /\ tickets \in [Tickets -> Ticket]
    /\ gifts \in [Gifts -> Gift \cup {NoGift}]
    /\ DOMAIN proc = Procs
    /\ todo \subseteq [gift : Gifts, date : Dates]
    /\ now \in 0 .. Start
    /\ crashes \in 0 .. MaxCrashes
    /\ old \in [Procs -> SUBSET Tickets]
    /\ history \in [Tickets -> History]

\* A ticket admits one person, and one more for each update that was lost: of
\* two scans that both find the ticket valid, the second saves an old copy,
\* and a purchase that saves an old copy makes a used ticket valid again
\* (verifyTicket, tickets.service.ts; buyResaleTicket, resale.service.ts).
AdmissionsBounded ==
    \A t \in Tickets :
        history[t].admitted + (IF tickets[t].status = "valid" THEN 1 ELSE 0)
            <= 1 + history[t].lost

\* A listing is sold once, and once more for each lost update: of two buyers
\* who both find it listed, the second saves an old copy.
SalesBounded ==
    \A t \in Tickets :
        history[t].sold + (IF tickets[t].listed THEN 1 ELSE 0)
            <= history[t].listings + history[t].lost

\* The recipient of a gift that counts as delivered has been the owner of the
\* ticket, whatever restarts and races came between the transfer and the mark.
DeliveredGiftsArrived ==
    \A g \in Gifts :
        gifts[g].status \in {"delivered", "unwrapped"} =>
            gifts[g].to \in history[gifts[g].ticket].owners

\* The expiry job leaves no ticket of a finished event valid for ever.
TicketsExpire ==
    \A t \in Tickets :
        (Over /\ tickets[t].status = "valid") ~> (tickets[t].status # "valid")

\* A gift that is due while its sender still has the valid ticket does not stay
\* so: it is delivered, cancelled or rescheduled, or the ticket changes.
Deliverable(g) == /\ IsDue(g)
                  /\ tickets[gifts[g].ticket].owner = gifts[g].from
                  /\ tickets[gifts[g].ticket].status = "valid"
GiftsLeave == \A g \in Gifts : Deliverable(g) ~> ~ Deliverable(g)
=============================================================================
