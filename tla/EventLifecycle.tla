--------------------------- MODULE EventLifecycle ---------------------------
(***************************************************************************)
(* One event of the backend, from its creation to its archive, under        *)
(* concurrent requests of its organizer: the row in the events table, the  *)
(* copy in Redis that getEventById prefers to the row, and the escrow      *)
(* account that publishing generates, funds and stores.                    *)
(*                                                                         *)
(* Most handlers take the event from getEventById, change their copy and   *)
(* save all of it.  One action runs from one await to the next.            *)
(***************************************************************************)
EXTENDS Integers, FiniteSets, EntityStore

CONSTANTS
    NumRequests,          \* bound: HTTP requests ever made
    ExpiryJob,            \* the waitlist expiry cron job
    MaxAccounts,          \* bound: escrow accounts ever generated
    NoCopy,               \* nothing is cached
    Ended,                \* bound: whether the event is over, for good or not yet
    MaxCrashes            \* bound: restarts of the server

ASSUME EventsAssumption ==
    /\ NumRequests \in Nat /\ ExpiryJob \notin 0 .. NumRequests - 1
    /\ MaxAccounts \in Nat \ {0}
    /\ Ended \in BOOLEAN /\ MaxCrashes \in Nat

VARIABLES
    row,       \* the event as the table has it
    secret,    \* the account whose secret the row holds: no entity has it
    cached,    \* the event as Redis has it
    funded,    \* the accounts that exist on the ledger
    queued,    \* the cancel-event job has been put into the queue
    proc,      \* where each request and the job are
    old,       \* the requests that hold a copy older than the row
    mishaps    \* what went wrong so far, as the code never counts it

eventVars == <<row, secret, cached, funded, queued, proc, old, mishaps>>

Requests == 0 .. NumRequests - 1
Procs == Requests \cup {ExpiryJob}

\* Escrow accounts, in the order in which they are created; 0 is null.
Accounts == 1 .. MaxAccounts
NoAccount == 0

EventStatus == {"draft", "published", "completed", "cancelled", "archived"}

Row == [status : EventStatus, key : Accounts \cup {NoAccount}]
Deleted == [status |-> "deleted", key |-> NoAccount]

ASSUME NoCopyAssumption == NoCopy \notin Row

\* lost: saves and updates over what others wrote.  slip: a write left an
\* outdated copy in Redis, or one was put there.  bulk: a status was changed
\* without asking which it was.  dropped: accounts that a restart, an unanswered
\* submission or a deletion left without a row.
Mishaps == [lost : Nat, slip : BOOLEAN, bulk : BOOLEAN, dropped : Nat, crashes : Nat]
NoMishaps == [lost |-> 0, slip |-> FALSE, bulk |-> FALSE, dropped |-> 0, crashes |-> 0]

\* A request yet to come, of the organizer or of an attendee.
New(by) == [pc |-> "new", by |-> by]
Roles == {"organizer", "attendee"}
Done == [pc |-> "done"]
Idle == [pc |-> "idle"]
Rest(x) == IF x \in Requests THEN Done ELSE Idle

Goto(x, s) == proc' = [proc EXCEPT ![x] = s]
Fresh(r, by) == proc[r] = New(by)
At(x, pc)  == proc[x].pc = pc

\* A copy that is not what the table has.
Outdated(copy) == copy # NoCopy /\ copy # row

\* createEvent takes the status from the request, so an event may start in any.
\* The last cases are what publishing and the reads around it leave behind.
EventInit(organizers) ==
    /\ organizers = 0 .. Cardinality(organizers) - 1
    /\ \E s \in EventStatus, c \in BOOLEAN :
          LET created   == [status |-> s, key |-> NoAccount]
              published == [created EXCEPT !.key = 1]
          IN  \/ /\ row = created /\ secret = NoAccount /\ funded = {}
                 /\ cached = IF c THEN row ELSE NoCopy
              \/ /\ s = "published"
                 /\ row = published /\ secret = row.key /\ funded = {row.key}
                 /\ cached = IF c THEN [created EXCEPT !.status = "draft"] ELSE NoCopy
    /\ queued = FALSE
    /\ proc = [x \in Procs |-> IF x \in Requests THEN New(IF x \in organizers THEN "organizer" ELSE "attendee") ELSE Idle]
    /\ old = {}
    /\ mishaps = [NoMishaps EXCEPT !.slip = Outdated(cached)]

\* The ledger and the queue are left alone.
Around == UNCHANGED <<funded, queued>>
-----------------------------------------------------------------------------
(* getEventById.                                                           *)

\* What the request goes on to do: any handler of its role, or the rest of one;
\* publishEvent ends with the answer.
Have(copy, text, then, outer) ==
    IF then = "reply" THEN Done
    ELSE [pc |-> "have", copy |-> copy, text |-> text, then |-> then, outer |-> outer]
Fetching(then, outer) == [pc |-> "fetch", then |-> then, outer |-> outer]

\* From Redis.  The copy has been text: its dates are strings from now on.
FetchCached(r, then, outer) ==
    /\ cached # NoCopy
    /\ Goto(r, Have(cached, TRUE, then, outer))
    /\ old' = IF outer # NoCopy THEN old
              ELSE IF Outdated(cached) /\ then # "reply" THEN old \cup {r} ELSE old \ {r}
    /\ UNCHANGED <<row, secret, cached, mishaps>> /\ Around

\* From the table, and then into Redis, for at most five minutes.
FetchRow(r, then, outer) ==
    /\ cached = NoCopy
    /\ Goto(r, IF row.status = "deleted" THEN Done
               ELSE [pc |-> "fill", copy |-> row, then |-> then, outer |-> outer])
    /\ old' = IF outer # NoCopy THEN old ELSE old \ {r}
    /\ UNCHANGED <<row, secret, cached, mishaps>> /\ Around

Fetch(r) ==
    \/ \E by \in Roles :
          /\ Fresh(r, by)
          /\ FetchCached(r, by, NoCopy) \/ FetchRow(r, by, NoCopy)
    \/ /\ At(r, "fetch")
       /\ LET s == proc[r]
          IN  FetchCached(r, s.then, s.outer) \/ FetchRow(r, s.then, s.outer)

Fill(r) ==
    /\ At(r, "fill")
    /\ LET s == proc[r]
       IN  /\ cached' = s.copy
           /\ Goto(r, Have(s.copy, FALSE, s.then, s.outer))
           /\ mishaps' = [mishaps EXCEPT !.slip = @ \/ Outdated(s.copy)]
    /\ UNCHANGED <<row, secret, old>> /\ Around

\* A handler that now decides by its copy.
Deciding(r, then) == At(r, "have") /\ proc[r].then = then
Copy(r) == proc[r].copy

\* GET /events/:id.
Reply(r) ==
    /\ Deciding(r, "organizer")
    /\ Goto(r, Done)
    /\ old' = old \ {r}
    /\ UNCHANGED <<row, secret, cached, mishaps>> /\ Around

CacheExpires ==
    /\ cached # NoCopy
    /\ cached' = NoCopy
    /\ UNCHANGED <<row, secret, proc, old, mishaps>> /\ Around

Invalidate(r) ==
    /\ At(r, "invalidate")
    /\ cached' = NoCopy
    /\ Goto(r, IF proc[r].then = "cancel" THEN [pc |-> "enqueue"] ELSE Done)
    /\ old' = old \ {r}
    /\ UNCHANGED <<row, secret, mishaps>> /\ Around
-----------------------------------------------------------------------------
(* Saving the event.                                                       *)

Save(entity, then) == [pc |-> "load", entity |-> entity, then |-> then,
                       insert |-> FALSE, dirty |-> {}]

\* A handler goes on to save.
Decide(r, entity, then) ==
    /\ Goto(r, Save(entity, then))
    /\ UNCHANGED <<row, secret, cached, old, mishaps>> /\ Around

\* save selects the row: one that is not there will be inserted.
SaveLoad(r) ==
    /\ At(r, "load")
    /\ LET s == proc[r]
       IN  Goto(r, IF row.status = "deleted"
                   THEN [s EXCEPT !.pc = "write", !.insert = TRUE]
                   ELSE [s EXCEPT !.pc = "write", !.dirty = Differing(row, s.entity)])
    /\ UNCHANGED <<row, secret, cached, old, mishaps>> /\ Around

\* Whose copies are older than what r writes.
Others(r) == {y \in Requests \ {r} :
    proc[y].pc \in {"fetch", "fill", "have", "load", "write", "fund", "store"}}

\* publishEvent, the series and image updates, the weather and reschedule
\* handlers leave the copy in Redis; the others invalidate it.
Slipping == {"publish", "republish", "rest", "postpone", "bulk"}

\* Mutant: the cancellation is queued without an invalidation.
ContinueHastily(s) ==
    CASE s.then = "publish"   -> [pc |-> "escrow"]
      [] s.then = "republish" -> Fetching("publish", NoCopy)
      [] s.then = "cancel"    -> [pc |-> "enqueue"]
      [] s.then \in {"update", "complete", "archive"} ->
            [pc |-> "invalidate", then |-> s.then]
      [] OTHER -> Done

\* What follows the save.
Continue(s) ==
    CASE s.then = "publish"   -> [pc |-> "escrow"]
      [] s.then = "republish" -> Fetching("publish", NoCopy)
      [] s.then \in {"update", "complete", "archive", "cancel"} ->
            [pc |-> "invalidate", then |-> s.then]
      [] OTHER -> Done

SaveWrite(r) ==
    /\ At(r, "write")
    /\ LET s == proc[r]
           gone == row.status = "deleted"
       IN  \* A row with that key came back: the insert fails.
           IF s.insert /\ ~ gone
           THEN /\ Goto(r, Done)
                /\ old' = old \ {r}
                /\ UNCHANGED <<row, mishaps>>
           ELSE /\ row' = IF gone THEN IF s.insert THEN s.entity ELSE row
                          ELSE Updated(row, s.entity, s.dirty)
                /\ Goto(r, Continue(s))
                /\ old' = (old \cup Others(r)) \ {r}
                /\ mishaps' = [mishaps EXCEPT
                       !.lost = @ + (IF r \in old THEN 1 ELSE 0),
                       !.bulk = @ \/ s.then = "bulk",
                       !.slip = @ \/ (s.then \in Slipping /\ cached # NoCopy)]
    /\ UNCHANGED <<secret, cached>> /\ Around
-----------------------------------------------------------------------------
(* The organizer's handlers.  EventStateService allows these steps.        *)

Transitions ==
    [draft |-> {"published"}, published |-> {"completed", "cancelled"},
     completed |-> {"archived"}, cancelled |-> {}, archived |-> {}]

PublishEvent(r) ==
    /\ Deciding(r, "organizer") \/ Deciding(r, "publish")
    /\ "published" \in Transitions[Copy(r).status]
    /\ Decide(r, [Copy(r) EXCEPT !.status = "published"], "publish")

\* A date is never less than a string: the end is not checked on a copy that
\* came from Redis.
EndPassed(r) == proc[r].text \/ Ended

\* Mutant: whatever became of the event, it can be completed.
CompleteAnyEvent(r) ==
    /\ Deciding(r, "organizer")
    /\ EndPassed(r)
    /\ Decide(r, [Copy(r) EXCEPT !.status = "completed"], "complete")

CompleteEvent(r) ==
    /\ Deciding(r, "organizer")
    /\ EndPassed(r)
    /\ "completed" \in Transitions[Copy(r).status]
    /\ Decide(r, [Copy(r) EXCEPT !.status = "completed"], "complete")

\* archiveCompletedEvent reads the event again for the snapshot.
ArchiveCompletedEvent(r) ==
    /\ Deciding(r, "organizer")
    /\ "archived" \in Transitions[Copy(r).status]
    /\ Goto(r, Fetching("history", [Copy(r) EXCEPT !.status = "archived"]))
    /\ UNCHANGED <<row, secret, cached, old, mishaps>> /\ Around

PreserveEventHistory(r) ==
    /\ Deciding(r, "history")
    /\ Decide(r, proc[r].outer, "archive")

CancelEvent(r) ==
    /\ Deciding(r, "organizer")
    /\ "cancelled" \in Transitions[Copy(r).status]
    /\ Decide(r, [Copy(r) EXCEPT !.status = "cancelled"], "cancel")

\* cancel-event is queued after the save and the invalidation.
Enqueue(r) ==
    /\ At(r, "enqueue")
    /\ queued' = TRUE
    /\ Goto(r, Done)
    /\ UNCHANGED <<row, secret, cached, funded, old, mishaps>>

\* trigger_automatic_postponement cancels whatever the event is, and queues
\* no refunds.
Postpone(r) ==
    /\ Deciding(r, "organizer")
    /\ Decide(r, [Copy(r) EXCEPT !.status = "cancelled"], "postpone")

\* reschedule_event changes other columns and does not invalidate.
RescheduleEvent(r) ==
    /\ Deciding(r, "organizer")
    /\ Decide(r, Copy(r), "rest")

\* updateEvent: other columns, perhaps the status, for which only the transition
\* is looked at.
UpdateEvent(r, status) ==
    /\ Deciding(r, "organizer")
    /\ status \in {Copy(r).status} \cup (Transitions[Copy(r).status] \ {"published"})
    /\ Decide(r, [Copy(r) EXCEPT !.status = status], "update")

\* updateEvent that publishes saves the rest and then calls publishEvent,
\* which reads the event once more.
UpdateAndPublish(r) ==
    /\ Deciding(r, "organizer")
    /\ "published" \in Transitions[Copy(r).status]
    /\ Decide(r, Copy(r), "republish")

\* manage_series_settings and updateEventImage save the row they read, with
\* other columns changed; bulk_update_series any status.
Resave(r, status) ==
    /\ Fresh(r, "organizer")
    /\ row.status # "deleted"
    /\ Goto(r, Save([row EXCEPT !.status = status],
                    IF status = row.status THEN "rest" ELSE "bulk"))
    /\ old' = old \ {r}
    /\ UNCHANGED <<row, secret, cached, mishaps>> /\ Around

DeleteEvent(r) ==
    /\ Deciding(r, "organizer")
    /\ row' = Deleted
    /\ secret' = NoAccount
    /\ Goto(r, [pc |-> "invalidate", then |-> "delete"])
    /\ old' = (old \cup Others(r)) \ {r}
    /\ mishaps' = [mishaps EXCEPT !.dropped = @ + (IF secret # NoAccount THEN 1 ELSE 0)]
    /\ UNCHANGED cached /\ Around
-----------------------------------------------------------------------------
(* createEscrow, after the event was saved as published.                   *)

\* Mutant: an account that exists already is not noticed.
ReadEscrowAnew(r) ==
    /\ At(r, "escrow")
    /\ Goto(r, IF row.status = "published" THEN [pc |-> "fund"] ELSE Done)
    /\ old' = old \ {r}
    /\ UNCHANGED <<row, secret, cached, mishaps>> /\ Around

ReadEscrow(r) ==
    /\ At(r, "escrow")
    /\ Goto(r, CASE row.status = "deleted" -> Done
                 [] row.key # NoAccount -> Fetching("reply", NoCopy)
                 [] row.key = NoAccount /\ row.status = "published" -> [pc |-> "fund"]
                 [] OTHER -> Done)
    /\ old' = old \ {r}
    /\ UNCHANGED <<row, secret, cached, mishaps>> /\ Around

\* The ledger creates the account.  It may do so and not be heard in time:
\* the request fails, and with it goes the only copy of the secret.
FundEscrow(r, a) ==
    /\ At(r, "fund")
    /\ a = Cardinality(funded) + 1
    /\ funded' = funded \cup {a}
    /\ \/ /\ Goto(r, [pc |-> "store", account |-> a])
          /\ UNCHANGED <<old, mishaps>>
       \/ /\ Goto(r, Done)
          /\ old' = old \ {r}
          /\ mishaps' = [mishaps EXCEPT !.dropped = @ + 1]
    /\ UNCHANGED <<row, secret, cached, queued>>

FundingFails(r) ==
    /\ At(r, "fund")
    /\ Goto(r, Done)
    /\ old' = old \ {r}
    /\ UNCHANGED <<row, secret, cached, mishaps>> /\ Around

StoreEscrow(r) ==
    /\ At(r, "store")
    /\ LET a == proc[r].account
           gone == row.status = "deleted"
       IN  /\ row' = IF gone THEN row ELSE [row EXCEPT !.key = a]
           /\ secret' = IF gone THEN secret ELSE a
           /\ mishaps' = [mishaps EXCEPT
                  !.lost = @ + (IF r \in old THEN 1 ELSE 0),
                  !.dropped = @ + (IF gone THEN 1 ELSE 0),
                  !.slip = @ \/ cached # NoCopy]
    /\ Goto(r, Fetching("reply", NoCopy))
    /\ old' = (old \cup Others(r)) \ {r}
    /\ UNCHANGED cached /\ Around
-----------------------------------------------------------------------------
\* The server restarts: the tables, Redis and the ledger stay.
Crash ==
    /\ mishaps.crashes < MaxCrashes
    /\ proc' = [x \in Procs |-> IF At(x, "new") THEN proc[x] ELSE Rest(x)]
    /\ old' = {}
    /\ mishaps' = [mishaps EXCEPT
           !.crashes = @ + 1,
           !.dropped = @ + Cardinality({r \in Requests : At(r, "store")}),
           !.slip = @ \/ \E r \in Requests : At(r, "invalidate")]
    /\ UNCHANGED <<row, secret, cached, funded, queued>>

OrganizerStep(r) ==
    \/ PublishEvent(r) \/ CompleteEvent(r) \/ ArchiveCompletedEvent(r)
    \/ PreserveEventHistory(r) \/ CancelEvent(r) \/ Enqueue(r)
    \/ Postpone(r) \/ DeleteEvent(r)
    \/ RescheduleEvent(r) \/ UpdateAndPublish(r)
    \/ \E s \in EventStatus : UpdateEvent(r, s) \/ Resave(r, s)
    \/ ReadEscrow(r) \/ FundingFails(r) \/ StoreEscrow(r)
    \/ \E a \in Accounts : FundEscrow(r, a)

EventStep(r) == \/ Fetch(r) \/ Fill(r) \/ Reply(r) \/ Invalidate(r)
                \/ SaveLoad(r) \/ SaveWrite(r) \/ OrganizerStep(r)
-----------------------------------------------------------------------------
\* Somebody knows the secret of the account, or is about to store it.
Kept(a) == secret = a \/ \E r \in Requests : At(r, "store") /\ proc[r].account = a

\* The money sent to an escrow account can be taken out again: an account that
\* exists and whose secret nobody has was dropped by a restart, a timeout or a
\* deletion, or an older copy of the event hid it from the next publishing.
LostAccountsBounded ==
    Cardinality({a \in funded : ~ Kept(a)}) <= mishaps.lost + mishaps.dropped

\* Once its refunds are queued an event stays cancelled, or it is deleted,
\* unless a copy from before is saved or a series update does not ask.
RefundedEventsStayCancelled ==
    queued /\ mishaps.lost = 0 /\ ~ mishaps.bulk
        => row.status \in {"cancelled", "deleted"}

\* What Redis answers is what the table has, except between a handler's save and its
\* invalidation, and after a write or a fill that forgot about it.
RedisIsCurrent ==
    Outdated(cached) => mishaps.slip \/ \E r \in Requests : At(r, "invalidate")
=============================================================================
