--------------------------- MODULE Registrations ---------------------------
(***************************************************************************)
(* The registrations for an event and its waitlist, composed with the      *)
(* event's own handlers: registering asks the event (often the copy in     *)
(* Redis), counts the seats taken and inserts a row; a cron job takes the  *)
(* seats back that were not confirmed in time and gives each to the first  *)
(* on the waitlist.                                                        *)
(***************************************************************************)
EXTENDS EventLifecycle

CONSTANTS
    NumUsers,      \* bound: users who register
    MaxAttendees,  \* seats, the event's maxAttendees
    PaymentsLink   \* whether linkPayment is called: nothing in src/ does yet

ASSUME RegistrationsAssumption ==
    /\ NumUsers \in Nat
    /\ MaxAttendees \in Nat
    /\ PaymentsLink \in BOOLEAN

VARIABLES
    regs,     \* the registrations table, one row for a user of this event
    todo,     \* the stale holds the job has read and not yet handled, and
              \* whether their rows were written since
    oldRegs,  \* the users whose rows were written since a process read
    excess    \* seats taken without a count of the ones there were

regVars == <<regs, todo, oldRegs, excess>>
vars == <<eventVars, regVars>>

Users == 0 .. NumUsers - 1

RegStatus == {"pending", "confirmed", "cancelled", "waitlisted"}

\* nr is the order of createdAt; stale says that updatedAt is further back than
\* the hold lasts.
Reg == [status : RegStatus, nr : Nat, stale : BOOLEAN]
NoReg == [status |-> "none"]

Has(u, S) == regs[u].status \in S
Occupied == {u \in Users : Has(u, {"pending", "confirmed"})}
Waiting == {u \in Users : Has(u, {"waitlisted"})}
Registered == {u \in Users : regs[u] # NoReg}

\* The first on the waitlist.
Earliest == CHOOSE u \in Waiting : \A v \in Waiting : regs[u].nr <= regs[v].nr

EventStill == UNCHANGED <<row, secret, cached, funded, queued, mishaps>>
Still == EventStill /\ UNCHANGED <<regs, excess>>

\* The first users have registered before, in their order.  Bounds: requests of
\* attendees alone find the event just published, and requests of
\* the organizer find that nobody has registered yet.
Init ==
    /\ \E organizers \in SUBSET Requests, k \in 0 .. NumUsers :
          /\ EventInit(organizers)
          /\ regs = [u \in Users |->
                IF u >= k THEN NoReg
                ELSE [status |-> IF u < MaxAttendees THEN "pending" ELSE "waitlisted",
                      nr |-> u, stale |-> FALSE]]
          /\ IF organizers = {}
             THEN row.status = "published" /\ secret = NoAccount /\ cached = NoCopy
             ELSE k = 0
    /\ todo = << >>
    /\ oldRegs = [x \in Procs |-> {}]
    /\ excess = 0

Forget(x) == oldRegs' = [oldRegs EXCEPT ![x] = {}] /\ old' = old \ {x}

\* Who has read registrations, and writes or counts on what it read.
Relying == {x \in Procs : proc[x].pc \in {"insert", "promote", "regload", "regwrite"}
                         \/ At(x, "fetch") \/ At(x, "fill") \/ Deciding(x, "asked")}

\* Process x writes the row of u.
Writes(x, u) ==
    /\ oldRegs' = [y \in Procs |->
          IF y = x THEN {} ELSE IF y \in Relying THEN oldRegs[y] \cup {u} ELSE {}]
    /\ todo' = [v \in DOMAIN todo |-> todo[v] \/ (v = u)]
    /\ old' = old \ {x}
-----------------------------------------------------------------------------
(* register.                                                               *)

\* The seats are counted next, if the event is published.
Register(r, u) ==
    /\ Deciding(r, "attendee")
    /\ Copy(r).status = "published"
    /\ Goto(r, [pc |-> "count", user |-> u])
    /\ Forget(r) /\ Still /\ UNCHANGED todo

\* Mutant: the seats that are held and not confirmed are not counted.
CountConfirmed(r) ==
    /\ At(r, "count")
    /\ Goto(r, [pc |-> "insert", user |-> proc[r].user,
                full |-> Cardinality({u \in Users : Has(u, {"confirmed"})}) >= MaxAttendees])
    /\ Forget(r) /\ Still /\ UNCHANGED todo

CountSeats(r) ==
    /\ At(r, "count")
    /\ Goto(r, [pc |-> "insert", user |-> proc[r].user,
                full |-> Cardinality(Occupied) >= MaxAttendees])
    /\ Forget(r) /\ Still /\ UNCHANGED todo

\* A second row of the same user violates the unique index.
InsertRegistration(r) ==
    /\ At(r, "insert")
    /\ LET s == proc[r]
           u == s.user
       IN  IF regs[u] # NoReg
           THEN Forget(r) /\ UNCHANGED <<regs, excess, todo>>
           ELSE /\ regs' = [regs EXCEPT ![u] =
                      [status |-> IF s.full THEN "waitlisted" ELSE "pending",
                       nr |-> Cardinality(Registered), stale |-> FALSE]]
                /\ excess' = excess + (IF oldRegs[r] # {} THEN 1 ELSE 0)
                /\ Writes(r, u)
    /\ Goto(r, Done)
    /\ EventStill
-----------------------------------------------------------------------------
(* Saving a registration, with its new status.                             *)

SaveReg(u, status, then) ==
    [pc |-> "regload", user |-> u, status |-> status, then |-> then, dirty |-> FALSE]

RegLoad(x) ==
    /\ At(x, "regload")
    /\ LET s == proc[x]
       IN  Goto(x, [s EXCEPT !.pc = "regwrite", !.dirty = regs[s.user].status # s.status])
    /\ Still /\ UNCHANGED <<old, todo, oldRegs>>

\* The seat is taken although somebody may have taken it meanwhile: confirmWaitlist
\* never counts, a promotion trusts the seat that was given up before, and
\* the others trust the row they read.
Unsure(x) ==
    LET s == proc[x]
    IN  CASE s.then = "claim"    -> TRUE
          [] s.then = "promoted" -> oldRegs[x] # {}
          [] OTHER -> s.user \in oldRegs[x]

\* A seat given up, by its owner or by the job, is offered to the waitlist.
RegWrite(x) ==
    /\ At(x, "regwrite")
    /\ LET s == proc[x]
           u == s.user
       IN  /\ regs' = IF s.dirty
                      THEN [regs EXCEPT ![u].status = s.status, ![u].stale = FALSE]
                      ELSE regs
           /\ excess' = excess + (IF Unsure(x) THEN 1 ELSE 0)
           /\ Goto(x, IF s.then = "promote" THEN [pc |-> "promote"] ELSE Rest(x))
           /\ Writes(x, u)
    /\ EventStill

\* promoteFromWaitlist.
Promote(x) ==
    /\ At(x, "promote")
    /\ Goto(x, IF Waiting = {} THEN Rest(x) ELSE SaveReg(Earliest, "pending", "promoted"))
    /\ oldRegs' = [oldRegs EXCEPT ![x] = IF Waiting = {} THEN {} ELSE @]
    /\ Still /\ UNCHANGED <<old, todo>>
-----------------------------------------------------------------------------
(* What the owner of a registration does.                                  *)

Take(r, u, status, then) ==
    /\ Goto(r, SaveReg(u, status, then))
    /\ Forget(r) /\ Still /\ UNCHANGED todo

\* cancel: only a confirmed seat is passed on.
CancelRegistration(r, u) ==
    /\ Fresh(r, "attendee")
    /\ Has(u, {"pending", "confirmed"})
    /\ Take(r, u, "cancelled", IF Has(u, {"confirmed"}) THEN "promote" ELSE "done")

\* cancelWithRefund and confirmWaitlist ask the event in between.
TakeIfPublished(r, u, status, then) ==
    /\ Goto(r, Fetching("asked", SaveReg(u, status, then)))
    /\ Forget(r) /\ Still /\ UNCHANGED todo

AskedEvent(r) ==
    /\ Deciding(r, "asked")
    /\ Goto(r, IF Copy(r).status = "published" THEN proc[r].outer ELSE Done)
    /\ oldRegs' = IF Copy(r).status = "published" THEN oldRegs
                  ELSE [oldRegs EXCEPT ![r] = {}]
    /\ Still /\ UNCHANGED <<old, todo>>

\* Refused shortly before the start, a choice here; the seat is not offered.
CancelWithRefund(r, u) ==
    /\ Fresh(r, "attendee")
    /\ Has(u, {"confirmed"})
    /\ TakeIfPublished(r, u, "cancelled", "done")

ConfirmWaitlist(r, u) ==
    /\ Fresh(r, "attendee")
    /\ Has(u, {"waitlisted"})
    /\ TakeIfPublished(r, u, "pending", "claim")

\* linkPayment.
LinkPayment(r, u) ==
    /\ PaymentsLink
    /\ Fresh(r, "attendee")
    /\ Has(u, {"pending"})
    /\ Take(r, u, "confirmed", "done")
-----------------------------------------------------------------------------
(* The expiry job.  It handles the stale holds as it read them.            *)

StaleHolds == {u \in Users : Has(u, {"pending"}) /\ regs[u].stale}

\* Mutant: only those who registered first are looked at.
ReadFirstHolds ==
    /\ proc[ExpiryJob] = Idle /\ DOMAIN todo = {}
    /\ todo' = [u \in {v \in StaleHolds : regs[v].nr = 0} |-> FALSE]
    /\ DOMAIN todo' # {}
    /\ Still /\ UNCHANGED <<proc, old, oldRegs>>

ReadHolds ==
    /\ proc[ExpiryJob] = Idle /\ DOMAIN todo = {}
    /\ todo' = [u \in StaleHolds |-> FALSE]
    /\ DOMAIN todo' # {}
    /\ Still /\ UNCHANGED <<proc, old, oldRegs>>

ExpireHold(u) ==
    /\ proc[ExpiryJob] = Idle
    /\ u \in DOMAIN todo
    /\ todo' = [v \in DOMAIN todo \ {u} |-> todo[v]]
    /\ Goto(ExpiryJob, SaveReg(u, "waitlisted", "promote"))
    /\ oldRegs' = [oldRegs EXCEPT ![ExpiryJob] = IF todo[u] THEN {u} ELSE {}]
    /\ Still /\ UNCHANGED old

JobStep ==
    \/ ReadHolds \/ \E u \in Users : ExpireHold(u)
    \/ RegLoad(ExpiryJob) \/ RegWrite(ExpiryJob) \/ Promote(ExpiryJob)

\* An hour passes since the row was written.
Age(u) ==
    /\ Has(u, {"pending"}) /\ ~ regs[u].stale
    /\ regs' = [regs EXCEPT ![u].stale = TRUE]
    /\ EventStill /\ UNCHANGED <<proc, old, todo, oldRegs, excess>>
-----------------------------------------------------------------------------
RegistrationStep(r) ==
    \/ \E u \in Users : \/ Register(r, u) \/ CancelRegistration(r, u)
                        \/ CancelWithRefund(r, u) \/ ConfirmWaitlist(r, u)
                        \/ LinkPayment(r, u)
    \/ CountSeats(r) \/ InsertRegistration(r) \/ AskedEvent(r)
    \/ RegLoad(r) \/ RegWrite(r) \/ Promote(r)

Restart == Crash /\ todo' = << >> /\ oldRegs' = [x \in Procs |-> {}] /\ UNCHANGED <<regs, excess>>

Next ==
    \/ \E r \in Requests : \/ RegistrationStep(r)
                           \/ EventStep(r) /\ UNCHANGED regVars
    \/ JobStep
    \/ \E u \in Users : Age(u)
    \/ CacheExpires /\ UNCHANGED regVars
    \/ Restart

Spec == Init /\ [][Next]_vars

\* The cron job runs again and its database calls come back.
FairSpec == Spec /\ WF_vars(JobStep)
-----------------------------------------------------------------------------
\* No more seats are taken than there are, but for confirmWaitlist, which does
\* not count, and for one seat each time somebody acts on rows that were
\* written after it read them.
SeatsBounded == Cardinality(Occupied) <= MaxAttendees + excess

\* A hold that was not confirmed in time does not last: the job finds it,
\* whatever the requests and the job's own promotions do to the row.
HoldsExpire ==
    \A u \in Users : (u \in StaleHolds) ~> (u \notin StaleHolds)
=============================================================================
