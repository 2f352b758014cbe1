------------------------ MODULE Registrations_proofs ------------------------
(***************************************************************************)
(* Proofs about an event and its registrations, for any number of          *)
(* requests, users and seats: what Redis answers, an event whose refunds   *)
(* are queued, the escrow accounts nobody can empty, and the seats.        *)
(***************************************************************************)
EXTENDS Registrations, FiniteSetTheorems, WellFoundedInduction, TLAPS

-----------------------------------------------------------------------------
(* What a request may be at, and with what.                                *)

Pcs == {"new", "done", "fetch", "fill", "have", "invalidate", "enqueue", "load", "write",
        "escrow", "fund", "store", "count", "insert", "regload", "regwrite", "promote"}
Thens == {"organizer", "attendee", "publish", "reply", "history", "asked"}
Invalidating == {"update", "complete", "archive", "cancel"}
Saves == [pc : {"load", "write"}, entity : Row, then : Slipping \cup Invalidating,
          insert : BOOLEAN, dirty : SUBSET {"status", "key"}]
RegSaves == [pc : {"regload", "regwrite"}, user : Users, status : RegStatus,
             then : {"promote", "promoted", "claim", "done"}, dirty : BOOLEAN]

Shape(s) ==
    /\ s.pc \in Pcs
    /\ s.pc \in {"fetch", "fill", "have"} =>
          /\ s.then \in Thens
          /\ s.then = "history" => s.outer \in Row
          /\ s.then = "asked" => s.outer \in RegSaves /\ s.outer.pc = "regload"
          /\ s.then \notin {"history", "asked"} => s.outer = NoCopy
    /\ s.pc \in {"fill", "have"} => s.copy \in Row
    /\ s.pc \in {"load", "write"} =>
          s \in Saves /\ (s.then = "cancel" => s.entity.status = "cancelled")
    /\ s.pc = "load" => ~ s.insert
    /\ s.pc = "store" => s.account \in Accounts
    /\ s.pc \in {"count", "insert"} => s.user \in Users
    /\ s.pc = "insert" => s.full \in BOOLEAN
    /\ s.pc \in {"regload", "regwrite"} => s \in RegSaves

EventTyped ==
    /\ row \in Row \cup {Deleted}
    /\ secret \in Accounts \cup {NoAccount}
    /\ cached \in Row \cup {NoCopy}
    /\ IsFiniteSet(funded) /\ NoAccount \notin funded
    /\ queued \in BOOLEAN
    /\ old \subseteq Requests
    /\ mishaps \in Mishaps
    /\ DOMAIN proc = Procs /\ proc = [x \in Procs |-> proc[x]]
    /\ \A r \in Requests : Shape(proc[r])

\* The entity e is the row r, but for a status that r can have next: a
\* cancelled event stays so, unless a series update does not ask.
CanSave(e, then, r) ==
    /\ r.status # "deleted" /\ e.key = r.key
    /\ r.status = "cancelled" /\ then # "bulk" => e.status = "cancelled"

\* A request whose copy is not older than the row r.
Sound(s, r) ==
    /\ s.pc \in {"fill", "have"} /\ s.then \notin {"history", "asked"} => s.copy = r
    /\ s.pc \in {"fetch", "fill", "have"} /\ s.then = "history" =>
          CanSave(s.outer, "archive", r)
    /\ s.pc \in {"load", "write"} => CanSave(s.entity, s.then, r)
    /\ s.pc = "write" => ~ s.insert /\ s.dirty = Differing(r, s.entity)
    /\ s.pc \in {"fund", "store"} => r.key = NoAccount

\* A request that has cancelled the event and is to queue its refunds.
Cancelling(s) == s.pc = "enqueue" \/ (s.pc = "invalidate" /\ s.then = "cancel")

RefundsSound ==
    /\ mishaps.lost = 0 /\ ~ mishaps.bulk
    /\ queued \/ \E r \in Requests : Cancelling(proc[r])
    => row.status \in {"cancelled", "deleted"}

\* The accounts whose secret nobody has, and the one whose secret the row still
\* holds though an older copy has hidden it from the next publishing.
Lost == {a \in funded : ~ Kept(a)}
Hidden(s, r) == IF s # NoAccount /\ r.key # s THEN 1 ELSE 0
AccountsSound == Cardinality(Lost) + Hidden(secret, row) <= mishaps.lost + mishaps.dropped

EventInv ==
    /\ EventTyped
    /\ \A r \in Requests \ old : Sound(proc[r], row)
    /\ RefundsSound
    /\ AccountsSound
    /\ RedisIsCurrent
-----------------------------------------------------------------------------
(* Who counts on rows of registrations.                                    *)

\* What a process knows of the registrations g, of which those in o were
\* written since it read them, with n seats taken.
Relies(s, o, g, n, more) ==
    /\ s.pc \in {"fetch", "fill", "have"} /\ s.then = "asked" =>
          /\ s.outer.user \in Users /\ g[s.outer.user] \in Reg
          /\ s.outer.then = "claim" \/ (s.outer.then = "done" /\ s.outer.status = "cancelled")
    /\ s.pc = "insert" /\ ~ s.full /\ o = {} => n + 1 <= MaxAttendees
    /\ s.pc = "promote" /\ o = {} => n + 1 <= MaxAttendees + more
    /\ s.pc \in {"regload", "regwrite"} =>
          /\ s.user \in Users /\ g[s.user] \in Reg
          /\ s.then = "promote" =>
                /\ s.status \in {"cancelled", "waitlisted"}
                /\ s.user \notin o => g[s.user].status \in {"pending", "confirmed"}
                /\ s.user \notin o /\ s.pc = "regwrite" => s.dirty
          /\ s.then = "promoted" /\ o = {} => n + 1 <= MaxAttendees + more
          /\ s.then = "done" =>
                /\ s.status \in {"cancelled", "confirmed"}
                /\ s.status = "confirmed" /\ s.user \notin o =>
                      g[s.user].status \in {"pending", "confirmed"}

RegsTyped ==
    /\ regs \in [Users -> Reg \cup {NoReg}]
    /\ DOMAIN todo \subseteq Users /\ \A u \in DOMAIN todo : todo[u] \in BOOLEAN
    /\ oldRegs \in [Procs -> SUBSET Users]
    /\ excess \in Nat
    /\ proc[ExpiryJob].pc \in {"idle", "promote", "regload", "regwrite"}
    /\ proc[ExpiryJob].pc \in {"regload", "regwrite"} => proc[ExpiryJob] \in RegSaves

SeatInv ==
    /\ RegsTyped
    /\ \A u \in DOMAIN todo : regs[u] \in Reg /\ (~ todo[u] => regs[u].status = "pending")
    /\ \A x \in Procs :
          Relies(proc[x], oldRegs[x], regs, Cardinality(Occupied), excess)
    /\ SeatsBounded

-----------------------------------------------------------------------------
(* Steps of one process that leave the row, Redis, the ledger and the      *)
(* queue alone.                                                            *)

\* The processes that stand between the row and Redis, the queue or the ledger.
Busy == {"enqueue", "invalidate", "store"}

LEMMA LocalStep ==
    ASSUME EventInv, EventStill, NEW x \in Procs, NEW t,
           proc' = [proc EXCEPT ![x] = t],
           old' \subseteq Requests, \A y \in Requests \ {x} : y \in old' <=> y \in old,
           x \in Requests => /\ Shape(t)
                             /\ x \notin old' => Sound(t, row)
                             /\ t.pc \notin Busy /\ proc[x].pc \notin Busy
    PROVE  EventInv'
<1>1. /\ row' = row /\ secret' = secret /\ cached' = cached /\ funded' = funded
      /\ queued' = queued /\ mishaps' = mishaps
  BY DEF EventStill
<1>2. /\ proc'[x] = t /\ \A y \in Procs \ {x} : proc'[y] = proc[y]
      /\ DOMAIN proc' = Procs /\ proc' = [y \in Procs |-> proc'[y]]
  BY DEF EventInv, EventTyped
<1>3. Requests \subseteq Procs
  BY DEF Procs
<1>4. EventTyped'
  <2>1. \A r \in Requests : Shape(proc'[r])
    BY <1>2, <1>3 DEF EventInv, EventTyped
  <2> QED
    BY <1>1, <1>2, <2>1 DEF EventInv, EventTyped
<1>5. \A r \in Requests \ old' : Sound(proc'[r], row')
  BY <1>1, <1>2, <1>3 DEF EventInv
<1>6. \A r \in Requests : proc'[r].pc \in Busy \/ proc[r].pc \in Busy => proc'[r] = proc[r]
  BY <1>2, <1>3
<1>7. RefundsSound'
  <2>1. \A r \in Requests : Cancelling(proc'[r]) => Cancelling(proc[r])
    BY <1>6 DEF Cancelling, Busy
  <2> QED
    BY <1>1, <2>1 DEF EventInv, RefundsSound
<1>8. AccountsSound'
  <2>1. \A a : Kept(a)' <=> Kept(a)
    BY <1>1, <1>6 DEF Kept, At, Busy
  <2>2. Lost' = Lost
    BY <1>1, <2>1 DEF Lost
  <2> QED
    BY <1>1, <2>2 DEF EventInv, AccountsSound, Hidden
<1>9. RedisIsCurrent'
  BY <1>1, <1>6 DEF EventInv, RedisIsCurrent, Outdated, At, Busy
<1> QED
  BY <1>4, <1>5, <1>7, <1>8, <1>9 DEF EventInv

LEMMA CancelledForGood == \A c \in Row : c.status = "cancelled" => Transitions[c.status] = {}
  BY DEF Transitions

\* A handler has its copy, and it is the row unless the request is among the old.
LEMMA CopyHeld ==
    ASSUME EventInv, NEW r \in Requests, Deciding(r, "organizer") \/ Deciding(r, "publish")
    PROVE  /\ Copy(r) \in Row
           /\ r \notin old => Copy(r) = row
           /\ proc[r].pc = "have" /\ proc[r].pc \notin Busy
  BY DEF EventInv, EventTyped, Shape, Sound, Deciding, At, Copy, Busy

\* A handler goes on to save its copy, with another status.
LEMMA DecideStep ==
    ASSUME EventInv, NEW r \in Requests, Deciding(r, "organizer") \/ Deciding(r, "publish"),
           NEW s \in EventStatus, NEW then \in Slipping \cup Invalidating,
           then = "cancel" => s = "cancelled",
           Copy(r).status = "cancelled" => s = "cancelled",
           Decide(r, [Copy(r) EXCEPT !.status = s], then)
    PROVE  EventInv'
<1> DEFINE c == Copy(r)
           e == [c EXCEPT !.status = s]
           t == Save(e, then)
<1>1. c \in Row /\ (r \notin old => c = row) /\ proc[r].pc \notin Busy
  BY CopyHeld
<1>2. e \in Row /\ e.key = c.key /\ e.status = s
  BY <1>1 DEF Row
<1>3. t \in Saves /\ t.pc = "load" /\ t.entity = e /\ t.then = then /\ ~ t.insert
  BY <1>2 DEF Save, Saves
<1>4. Shape(t)
  BY <1>2, <1>3 DEF Shape, Pcs
<1>5. ASSUME r \notin old PROVE Sound(t, row)
  <2>1. row \in Row /\ row.status # "deleted"
    BY <1>1, <1>5 DEF Row, EventStatus
  <2> QED
    BY <1>1, <1>2, <1>3, <1>5, <2>1 DEF Sound, CanSave
<1>6. EventStill /\ proc' = [proc EXCEPT ![r] = t] /\ old' = old /\ r \in Procs
  BY DEF Decide, Goto, EventStill, Around, Procs
<1>7. old \subseteq Requests
  BY DEF EventInv, EventTyped
<1>8. t.pc \notin Busy
  BY <1>3 DEF Busy
<1> HIDE DEF t
<1> QED
  BY <1>1, <1>4, <1>5, <1>6, <1>7, <1>8, LocalStep

LEMMA HandlerStep ==
    ASSUME EventInv, NEW r \in Requests,
           \/ PublishEvent(r) \/ CompleteEvent(r) \/ CancelEvent(r) \/ Postpone(r)
           \/ RescheduleEvent(r) \/ UpdateAndPublish(r)
           \/ \E s \in EventStatus : UpdateEvent(r, s)
    PROVE  EventInv'
<1> DEFINE c == Copy(r)
<1>1. Deciding(r, "organizer") \/ Deciding(r, "publish")
  BY DEF PublishEvent, CompleteEvent, CancelEvent, Postpone, RescheduleEvent,
         UpdateAndPublish, UpdateEvent
<1>2. c \in Row
  BY <1>1, CopyHeld
<1>3. c.status \in EventStatus /\ c = [c EXCEPT !.status = c.status]
  BY <1>2 DEF Row
<1>4. c.status = "cancelled" => Transitions[c.status] = {}
  BY <1>2, CancelledForGood
<1>5. {"published", "completed", "cancelled"} \subseteq EventStatus
  BY DEF EventStatus
<1>6. {"publish", "republish", "rest", "postpone", "complete", "cancel", "update"}
         \subseteq Slipping \cup Invalidating
  BY DEF Slipping, Invalidating
<1>7. \E s \in EventStatus, then \in Slipping \cup Invalidating :
         /\ then = "cancel" => s = "cancelled"
         /\ c.status = "cancelled" => s = "cancelled"
         /\ Decide(r, [c EXCEPT !.status = s], then)
  <2>1. CASE PublishEvent(r)
    BY <1>4, <1>5, <1>6, <2>1 DEF PublishEvent
  <2>2. CASE CompleteEvent(r)
    BY <1>4, <1>5, <1>6, <2>2 DEF CompleteEvent
  <2>3. CASE CancelEvent(r)
    BY <1>5, <1>6, <2>3 DEF CancelEvent
  <2>4. CASE Postpone(r)
    BY <1>5, <1>6, <2>4 DEF Postpone
  <2>5. CASE RescheduleEvent(r)
    BY <1>3, <1>6, <2>5 DEF RescheduleEvent
  <2>6. CASE UpdateAndPublish(r)
    BY <1>3, <1>6, <2>6 DEF UpdateAndPublish
  <2>7. CASE \E s \in EventStatus : UpdateEvent(r, s)
    BY <1>4, <1>6, <2>7 DEF UpdateEvent
  <2> QED
    BY <2>1, <2>2, <2>3, <2>4, <2>5, <2>6, <2>7
<1> QED
  BY <1>1, <1>7, DecideStep

\* A request that ends, or goes on without the event.
LEMMA LetGo ==
    ASSUME NEW t, t.pc \in {"done", "escrow"}
    PROVE  Shape(t) /\ t.pc \notin Busy /\ \A r : Sound(t, r)
  BY DEF Shape, Pcs, Sound, Busy

LEMMA FetchStep ==
    ASSUME EventInv, NEW r \in Requests, NEW then \in Thens, NEW outer,
           then = "history" => outer \in Row,
           then = "asked" => outer \in RegSaves /\ outer.pc = "regload",
           then \notin {"history", "asked"} => outer = NoCopy,
           r \notin old /\ then = "history" => CanSave(outer, "archive", row),
           proc[r].pc \notin Busy,
           FetchCached(r, then, outer) \/ FetchRow(r, then, outer)
    PROVE  EventInv'
<1>1. r \in Procs /\ old \subseteq Requests /\ EventStill
  BY DEF EventInv, EventTyped, Procs, EventStill, Around, FetchCached, FetchRow
<1>2. PICK t : /\ proc' = [proc EXCEPT ![r] = t]
               /\ Shape(t) /\ t.pc \notin Busy
               /\ r \notin old' => Sound(t, row)
  <2>1. CASE FetchCached(r, then, outer)
    <3> DEFINE t == Have(cached, TRUE, then, outer)
    <3>1. cached \in Row /\ proc' = [proc EXCEPT ![r] = t]
      BY <2>1 DEF FetchCached, Goto, EventInv, EventTyped
    <3>2. CASE then = "reply"
      <4>1. t = Done /\ t.pc = "done"
        BY <3>2 DEF Have, Done
      <4>2. Shape(Done) /\ Done.pc \notin Busy /\ Sound(Done, row)
        BY LetGo DEF Done
      <4> QED
        BY <3>1, <4>1, <4>2
    <3>3. CASE then # "reply"
      <4>2. t.pc = "have" /\ t.copy = cached /\ t.then = then /\ t.outer = outer
        BY <3>3 DEF Have
      <4>3. Shape(t) /\ t.pc \notin Busy
        BY <3>1, <4>2 DEF Shape, Pcs, Busy
      <4>4. ASSUME r \notin old' PROVE Sound(t, row)
        <5>1. CASE then = "history"
          <6>1. outer # NoCopy
            BY <5>1, NoCopyAssumption
          <6>2. r \notin old
            BY <2>1, <4>4, <6>1 DEF FetchCached
          <6> QED
            BY <4>2, <5>1, <6>2 DEF Sound
        <5>2. CASE then = "asked"
          BY <4>2, <5>2 DEF Sound
        <5>3. CASE then \notin {"history", "asked"}
          <6>1. ~ Outdated(cached)
            BY <2>1, <3>3, <4>4, <5>3 DEF FetchCached
          <6>2. cached = row
            BY <3>1, <6>1, NoCopyAssumption DEF Outdated
          <6> QED
            BY <4>2, <5>3, <6>2 DEF Sound
        <5> QED
          BY <5>1, <5>2, <5>3
      <4> QED
        BY <3>1, <4>3, <4>4
    <3> QED
      BY <3>2, <3>3
  <2>2. CASE FetchRow(r, then, outer)
    <3> DEFINE f == [pc |-> "fill", copy |-> row, then |-> then, outer |-> outer]
    <3>1. CASE row.status = "deleted"
      <4>1. proc' = [proc EXCEPT ![r] = Done]
        BY <2>2, <3>1 DEF FetchRow, Goto
      <4>2. Shape(Done) /\ Done.pc \notin Busy /\ Sound(Done, row)
        BY LetGo DEF Done
      <4> QED
        BY <4>1, <4>2
    <3>2. CASE row.status # "deleted"
      <4>1. proc' = [proc EXCEPT ![r] = f] /\ row \in Row
        BY <2>2, <3>2 DEF FetchRow, Goto, EventInv, EventTyped, Deleted
      <4>2. /\ f.pc = "fill" /\ f.copy = row /\ f.then = then /\ f.outer = outer
        OBVIOUS
      <4>3. Shape(f) /\ f.pc \notin Busy
        BY <4>1, <4>2 DEF Shape, Pcs, Busy
      <4>4. ASSUME r \notin old' PROVE Sound(f, row)
        <5>1. CASE then = "history"
          <6>1. r \notin old
            BY <2>2, <4>4, <5>1, NoCopyAssumption DEF FetchRow
          <6> QED
            BY <4>2, <5>1, <6>1 DEF Sound
        <5>2. CASE then # "history"
          BY <4>2, <5>2 DEF Sound
        <5> QED
          BY <5>1, <5>2
      <4> QED
        BY <4>1, <4>3, <4>4
    <3> QED
      BY <3>1, <3>2
  <2> QED
    BY <2>1, <2>2
<1>3. old' \subseteq Requests /\ \A y \in Requests \ {r} : y \in old' <=> y \in old
  BY <1>1 DEF FetchCached, FetchRow
<1> QED
  BY <1>1, <1>2, <1>3, LocalStep

LEMMA FetchKeeps ==
    ASSUME EventInv, NEW r \in Requests, Fetch(r) PROVE EventInv'
<1>1. ASSUME NEW by \in Roles, Fresh(r, by),
             FetchCached(r, by, NoCopy) \/ FetchRow(r, by, NoCopy)
      PROVE  EventInv'
  <2>1. by \in Thens /\ by \notin {"history", "asked"}
    BY DEF Roles, Thens
  <2>2. proc[r].pc \notin Busy
    BY <1>1 DEF Fresh, New, Busy
  <2> QED
    BY <1>1, <2>1, <2>2, FetchStep
<1>2. ASSUME At(r, "fetch"),
             \/ FetchCached(r, proc[r].then, proc[r].outer)
             \/ FetchRow(r, proc[r].then, proc[r].outer)
      PROVE  EventInv'
  <2> DEFINE s == proc[r]
  <2>1. s.pc = "fetch" /\ Shape(s) /\ (r \notin old => Sound(s, row))
    BY <1>2 DEF At, EventInv, EventTyped
  <2>2. /\ s.then \in Thens /\ s.pc \notin Busy
        /\ s.then = "history" => s.outer \in Row
        /\ s.then = "asked" => s.outer \in RegSaves /\ s.outer.pc = "regload"
        /\ s.then \notin {"history", "asked"} => s.outer = NoCopy
    BY <2>1 DEF Shape, Busy
  <2>3. r \notin old /\ s.then = "history" => CanSave(s.outer, "archive", row)
    BY <2>1 DEF Sound
  <2> QED
    BY <1>2, <2>2, <2>3, FetchStep
<1> QED
  BY <1>1, <1>2 DEF Fetch

LEMMA ReplyStep ==
    ASSUME EventInv, NEW r \in Requests, Reply(r) \/ FundingFails(r) PROVE EventInv'
<1>1. /\ proc' = [proc EXCEPT ![r] = Done] /\ old' = old \ {r} /\ EventStill /\ r \in Procs
      /\ proc[r].pc \notin Busy
  BY DEF Reply, FundingFails, Goto, EventStill, Around, Procs, Deciding, At, Busy
<1>2. Shape(Done) /\ Done.pc \notin Busy /\ Sound(Done, row)
  BY LetGo DEF Done
<1>3. old' \subseteq Requests /\ \A y \in Requests \ {r} : y \in old' <=> y \in old
  BY <1>1 DEF EventInv, EventTyped
<1> QED
  BY <1>1, <1>2, <1>3, LocalStep

LEMMA SaveLoadStep ==
    ASSUME EventInv, NEW r \in Requests, SaveLoad(r) PROVE EventInv'
<1> DEFINE s == proc[r]
           t == IF row.status = "deleted" THEN [s EXCEPT !.pc = "write", !.insert = TRUE]
                ELSE [s EXCEPT !.pc = "write", !.dirty = Differing(row, s.entity)]
<1>1. /\ s.pc = "load" /\ proc' = [proc EXCEPT ![r] = t] /\ old' = old /\ EventStill
      /\ r \in Procs /\ s.pc \notin Busy /\ old \subseteq Requests
  BY DEF SaveLoad, At, Goto, EventStill, Around, Procs, Busy, EventInv, EventTyped
<1>2. s \in Saves /\ (s.then = "cancel" => s.entity.status = "cancelled")
  BY <1>1 DEF EventInv, EventTyped, Shape
<1>3. Differing(row, s.entity) \in SUBSET {"status", "key"}
  BY DEF Differing, Row, Deleted, EventInv, EventTyped
<1>4. /\ t \in Saves /\ t.pc = "write" /\ t.entity = s.entity /\ t.then = s.then
      /\ row.status # "deleted" => t.insert = s.insert /\ t.dirty = Differing(row, s.entity)
  BY <1>2, <1>3 DEF Saves
<1> HIDE DEF t
<1>5. Shape(t) /\ t.pc \notin Busy
  BY <1>2, <1>4 DEF Shape, Pcs, Busy
<1>6. ~ s.insert
  BY <1>1 DEF EventInv, EventTyped, Shape
<1>7. ASSUME r \notin old PROVE Sound(t, row)
  <2>1. CanSave(s.entity, s.then, row)
    BY <1>1, <1>7 DEF EventInv, Sound
  <2> QED
    BY <1>4, <1>6, <2>1 DEF Sound, CanSave
<1> QED
  BY <1>1, <1>5, <1>7, LocalStep

\* The copy goes aside while the event is read again for its snapshot.
LEMMA ArchiveStep ==
    ASSUME EventInv, NEW r \in Requests, ArchiveCompletedEvent(r) PROVE EventInv'
<1> DEFINE c == Copy(r)
           e == [c EXCEPT !.status = "archived"]
           t == Fetching("history", e)
<1>1. /\ Deciding(r, "organizer") /\ Transitions[c.status] # {}
      /\ proc' = [proc EXCEPT ![r] = t] /\ old' = old /\ EventStill
      /\ r \in Procs /\ old \subseteq Requests
  BY DEF ArchiveCompletedEvent, Goto, EventStill, Around, Procs, EventInv, EventTyped
<1>2. c \in Row /\ (r \notin old => c = row) /\ proc[r].pc \notin Busy
  BY <1>1, CopyHeld
<1>3. c.status # "cancelled"
  BY <1>1, <1>2, CancelledForGood
<1>4. e \in Row /\ e.key = c.key
  BY <1>2 DEF Row, EventStatus
<1>5. t.pc = "fetch" /\ t.then = "history" /\ t.outer = e
  BY DEF Fetching
<1> HIDE DEF t
<1>6. Shape(t) /\ t.pc \notin Busy
  BY <1>4, <1>5 DEF Shape, Pcs, Thens, Busy
<1>7. ASSUME r \notin old PROVE Sound(t, row)
  <2>1. row.status # "deleted" /\ row.status # "cancelled" /\ e.key = row.key
    BY <1>2, <1>3, <1>4, <1>7 DEF Row, EventStatus
  <2> QED
    BY <1>5, <2>1 DEF Sound, CanSave
<1> QED
  BY <1>1, <1>2, <1>6, <1>7, LocalStep

LEMMA PreserveStep ==
    ASSUME EventInv, NEW r \in Requests, PreserveEventHistory(r) PROVE EventInv'
<1> DEFINE e == proc[r].outer
           t == Save(e, "archive")
<1>1. /\ proc[r].pc = "have" /\ proc[r].then = "history"
      /\ proc' = [proc EXCEPT ![r] = t] /\ old' = old /\ EventStill
      /\ r \in Procs /\ old \subseteq Requests
  BY DEF PreserveEventHistory, Deciding, At, Decide, Goto, EventStill, Around, Procs,
         EventInv, EventTyped
<1>2. e \in Row /\ (r \notin old => CanSave(e, "archive", row))
  BY <1>1 DEF EventInv, EventTyped, Shape, Sound
<1>3. t \in Saves /\ t.pc = "load" /\ t.entity = e /\ t.then = "archive" /\ ~ t.insert
  BY <1>2 DEF Save, Saves, Invalidating
<1> HIDE DEF t
<1>4. Shape(t) /\ t.pc \notin Busy /\ proc[r].pc \notin Busy
  BY <1>1, <1>3 DEF Shape, Pcs, Busy
<1>5. r \notin old => Sound(t, row)
  BY <1>2, <1>3 DEF Sound
<1> QED
  BY <1>1, <1>4, <1>5, LocalStep

LEMMA ResaveStep ==
    ASSUME EventInv, NEW r \in Requests, NEW s \in EventStatus, Resave(r, s) PROVE EventInv'
<1> DEFINE e == [row EXCEPT !.status = s]
           then == IF s = row.status THEN "rest" ELSE "bulk"
           t == Save(e, then)
<1>1. /\ proc[r].pc = "new" /\ row.status # "deleted"
      /\ proc' = [proc EXCEPT ![r] = t] /\ old' = old \ {r} /\ EventStill
      /\ r \in Procs /\ old \subseteq Requests
  BY DEF Resave, Fresh, New, Goto, EventStill, Around, Procs, EventInv, EventTyped
<1>2. row \in Row
  BY <1>1 DEF EventInv, EventTyped, Deleted
<1>3. e \in Row /\ e.key = row.key /\ e.status = s
  BY <1>2 DEF Row
<1>4. /\ t \in Saves /\ t.pc = "load" /\ t.entity = e /\ t.then = then /\ ~ t.insert
      /\ then # "cancel"
  BY <1>3 DEF Save, Saves, Slipping
<1>5. CanSave(e, then, row)
  BY <1>1, <1>3 DEF CanSave
<1> HIDE DEF t, then
<1>6. Shape(t) /\ t.pc \notin Busy /\ proc[r].pc \notin Busy
  BY <1>1, <1>4 DEF Shape, Pcs, Busy
<1>7. Sound(t, row)
  BY <1>4, <1>5 DEF Sound
<1>8. old' \subseteq Requests /\ \A y \in Requests \ {r} : y \in old' <=> y \in old
  BY <1>1
<1> QED
  BY <1>1, <1>6, <1>7, <1>8, LocalStep

LEMMA ReadEscrowStep ==
    ASSUME EventInv, NEW r \in Requests, ReadEscrow(r) PROVE EventInv'
<1>1. /\ proc[r].pc \notin Busy /\ old' = old \ {r} /\ EventStill
      /\ r \in Procs /\ old \subseteq Requests
  BY DEF ReadEscrow, At, Busy, Goto, EventStill, Around, Procs, EventInv, EventTyped
<1>2. PICK t : /\ proc' = [proc EXCEPT ![r] = t]
               /\ \/ t = Done \/ t = Fetching("reply", NoCopy)
                  \/ t = [pc |-> "fund"] /\ row.key = NoAccount
  <2>1. CASE row.status = "deleted"
    <3>1. row.key = NoAccount
      BY <2>1 DEF EventInv, EventTyped, Row, EventStatus, Deleted
    <3> QED
      BY <2>1, <3>1 DEF ReadEscrow, Goto
  <2>2. CASE row.status # "deleted" /\ row.key # NoAccount
    BY <2>2 DEF ReadEscrow, Goto
  <2>3. CASE row.status # "deleted" /\ row.key = NoAccount /\ row.status = "published"
    BY <2>3 DEF ReadEscrow, Goto
  <2>4. CASE row.status \notin {"deleted", "published"} /\ row.key = NoAccount
    BY <2>4 DEF ReadEscrow, Goto
  <2> QED
    BY <2>1, <2>2, <2>3, <2>4
<1>3. Shape(t) /\ t.pc \notin Busy /\ Sound(t, row)
  <2>1. CASE t = Done
    BY <2>1, LetGo DEF Done
  <2>2. CASE t = Fetching("reply", NoCopy)
    BY <2>2 DEF Fetching, Shape, Pcs, Thens, Busy, Sound
  <2>3. CASE t = [pc |-> "fund"] /\ row.key = NoAccount
    BY <2>3 DEF Shape, Pcs, Busy, Sound
  <2> QED
    BY <1>2, <2>1, <2>2, <2>3
<1>4. old' \subseteq Requests /\ \A y \in Requests \ {r} : y \in old' <=> y \in old
  BY <1>1
<1> QED
  BY <1>1, <1>2, <1>3, <1>4, LocalStep

-----------------------------------------------------------------------------
(* The steps of the registrations leave all that an event is alone.        *)

\* Somebody on the waitlist registered first.
LEMMA EarliestWaits ==
    ASSUME regs \in [Users -> Reg \cup {NoReg}], Waiting # {}
    PROVE  Earliest \in Waiting
<1> DEFINE N == {regs[u].nr : u \in Waiting}
<1>1. \A u \in Waiting : regs[u] \in Reg
  BY DEF Waiting, Has, NoReg
<1>2. N \subseteq Nat /\ N # {}
  BY <1>1 DEF Reg
<1>3. PICK n \in N : \A m \in N : ~ (<<m, n>> \in OpToRel(<, Nat))
  BY <1>2, NatLessThanWellFounded, WFMin
<1>4. \A m \in N : n <= m
  <2>1. OpToRel(<, Nat) = {p \in Nat \X Nat : p[1] < p[2]}
    BY DEF OpToRel
  <2>2. \A m \in N : ~ (m < n)
    BY <1>2, <1>3, <2>1
  <2>3. n \in Nat
    BY <1>2, <1>3, Zenon
  <2>4. \A m \in N : m \in Nat
    BY <1>2, Zenon
  <2> HIDE DEF N
  <2> QED
    BY <2>2, <2>3, <2>4
<1>5. PICK u \in Waiting : regs[u].nr = n
  OBVIOUS
<1>6. \E v \in Waiting : \A z \in Waiting : regs[v].nr <= regs[z].nr
  BY <1>4, <1>5
<1> QED
  BY <1>6 DEF Earliest

LEMMA RegShapes ==
    /\ \A u \in Users, s \in RegStatus, then \in {"promote", "promoted", "claim", "done"} :
          /\ SaveReg(u, s, then) \in RegSaves
          /\ SaveReg(u, s, then).pc = "regload"
    /\ \A t : t.pc = "count" /\ t.user \in Users => Shape(t)
    /\ \A t : t.pc = "insert" /\ t.user \in Users /\ t.full \in BOOLEAN => Shape(t)
    /\ \A t \in RegSaves : Shape(t)
    /\ \A t : t.pc = "promote" => Shape(t)
<1>1. \A u \in Users, s \in RegStatus, then \in {"promote", "promoted", "claim", "done"} :
         SaveReg(u, s, then) \in RegSaves /\ SaveReg(u, s, then).pc = "regload"
  BY DEF SaveReg, RegSaves
<1>2. \A t \in RegSaves : t.pc \in {"regload", "regwrite"}
  BY DEF RegSaves
<1> QED
  BY <1>1, <1>2 DEF Shape, Pcs

\* Where requests are in the registrations' handlers.
InRegistration == {"done", "count", "insert", "regload", "regwrite", "promote"}

LEMMA RegistrationMove ==
    ASSUME EventInv, EventStill, NEW x \in Procs, NEW t,
           proc' = [proc EXCEPT ![x] = t], old' = old \/ old' = old \ {x},
           x \in Requests => /\ Shape(t)
                             /\ \/ t.pc \in InRegistration
                                \/ t.pc = "fetch" /\ t.then = "asked"
                             /\ proc[x].pc \notin Busy
    PROVE  EventInv'
<1>1. old' \subseteq Requests /\ \A y \in Requests \ {x} : y \in old' <=> y \in old
  BY DEF EventInv, EventTyped
<1>2. x \in Requests => t.pc \notin Busy /\ Sound(t, row)
  BY DEF InRegistration, Busy, Sound
<1> QED
  BY <1>1, <1>2, LocalStep

LEMMA AttendeeStep ==
    ASSUME EventInv, NEW r \in Requests, NEW u \in Users,
           \/ Register(r, u) \/ CancelRegistration(r, u) \/ CancelWithRefund(r, u)
           \/ ConfirmWaitlist(r, u) \/ LinkPayment(r, u)
    PROVE  EventInv'
<1>1. /\ EventStill /\ old' = old \ {r} /\ r \in Procs /\ proc[r].pc \notin Busy
  BY DEF Register, CancelRegistration, CancelWithRefund, ConfirmWaitlist, LinkPayment,
         Take, TakeIfPublished, Forget, Still, Procs, Fresh, New, Deciding, At, Busy
<1>2. PICK t : /\ proc' = [proc EXCEPT ![r] = t]
               /\ Shape(t)
               /\ t.pc \in InRegistration \/ (t.pc = "fetch" /\ t.then = "asked")
  <2>1. CASE Register(r, u)
    <3> DEFINE t == [pc |-> "count", user |-> u]
    <3>1. proc' = [proc EXCEPT ![r] = t] /\ t.pc = "count" /\ t.user = u
      BY <2>1 DEF Register, Goto
    <3> HIDE DEF t
    <3> QED
      BY <3>1, RegShapes DEF InRegistration
  <2>2. ASSUME NEW s \in {"cancelled", "confirmed"}, NEW then \in {"promote", "done"},
               Take(r, u, s, then)
        PROVE  \E t : /\ proc' = [proc EXCEPT ![r] = t]
                      /\ Shape(t) /\ t.pc \in InRegistration
    <3> DEFINE t == SaveReg(u, s, then)
    <3>1. proc' = [proc EXCEPT ![r] = t] /\ s \in RegStatus
      BY <2>2 DEF Take, Goto, RegStatus
    <3>2. t \in RegSaves /\ t.pc = "regload"
      BY <3>1, RegShapes
    <3> HIDE DEF t
    <3> QED
      BY <3>1, <3>2, RegShapes DEF InRegistration
  <2>3. ASSUME NEW s \in {"cancelled", "pending"}, NEW then \in {"claim", "done"},
               TakeIfPublished(r, u, s, then)
        PROVE  \E t : /\ proc' = [proc EXCEPT ![r] = t]
                      /\ Shape(t) /\ t.pc = "fetch" /\ t.then = "asked"
    <3> DEFINE e == SaveReg(u, s, then)
               t == Fetching("asked", e)
    <3>1. proc' = [proc EXCEPT ![r] = t] /\ s \in RegStatus
      BY <2>3 DEF TakeIfPublished, Goto, RegStatus
    <3>2. e \in RegSaves /\ e.pc = "regload"
      BY <3>1, RegShapes
    <3>3. t.pc = "fetch" /\ t.then = "asked" /\ t.outer = e
      BY DEF Fetching
    <3> HIDE DEF t
    <3>4. Shape(t)
      BY <3>2, <3>3 DEF Shape, Pcs, Thens
    <3> QED
      BY <3>1, <3>3, <3>4
  <2>4. CASE CancelRegistration(r, u) \/ LinkPayment(r, u)
    BY <2>2, <2>4 DEF CancelRegistration, LinkPayment
  <2>5. CASE CancelWithRefund(r, u) \/ ConfirmWaitlist(r, u)
    BY <2>3, <2>5 DEF CancelWithRefund, ConfirmWaitlist
  <2> QED
    BY <2>1, <2>4, <2>5
<1> QED
  BY <1>1, <1>2, RegistrationMove

LEMMA SeatStep ==
    ASSUME EventInv, RegsTyped, NEW x \in Procs,
           \/ RegLoad(x) \/ RegWrite(x) \/ Promote(x)
           \/ x \in Requests /\ (CountSeats(x) \/ InsertRegistration(x) \/ AskedEvent(x))
    PROVE  EventInv'
<1> DEFINE s == proc[x]
<1>1. EventStill /\ s.pc \notin Busy
  BY DEF RegLoad, RegWrite, Promote, CountSeats, InsertRegistration, AskedEvent, Still,
         Deciding, At, Busy
<1>2. old' = old \/ old' = old \ {x}
  BY DEF RegLoad, RegWrite, Promote, CountSeats, InsertRegistration, AskedEvent, Still,
         Forget, Writes
<1>3. x \in Requests => Shape(s)
  BY DEF EventInv, EventTyped
<1>4. Shape(Done) /\ Done.pc \in InRegistration
  BY LetGo DEF Done, InRegistration
<1>5. PICK t : /\ proc' = [proc EXCEPT ![x] = t]
               /\ x \in Requests => Shape(t) /\ t.pc \in InRegistration
  <2>1. CASE RegLoad(x)
    <3> DEFINE t == [s EXCEPT !.pc = "regwrite", !.dirty = regs[s.user].status # s.status]
    <3>1. proc' = [proc EXCEPT ![x] = t] /\ s.pc = "regload"
      BY <2>1 DEF RegLoad, Goto, At
    <3>2. x \in Requests => t \in RegSaves /\ t.pc = "regwrite"
      BY <1>3, <3>1 DEF Shape, RegSaves
    <3> HIDE DEF t
    <3> QED
      BY <3>1, <3>2, RegShapes DEF InRegistration
  <2>2. CASE RegWrite(x)
    <3> DEFINE p == [pc |-> "promote"]
    <3>1. \/ proc' = [proc EXCEPT ![x] = p] \/ proc' = [proc EXCEPT ![x] = Rest(x)]
      BY <2>2 DEF RegWrite, Goto
    <3>2. Shape(p) /\ p.pc \in InRegistration
      BY RegShapes DEF InRegistration
    <3> HIDE DEF p
    <3> QED
      BY <1>4, <3>1, <3>2 DEF Rest
  <2>3. CASE Promote(x)
    <3>1. CASE Waiting = {}
      BY <1>4, <2>3, <3>1 DEF Promote, Goto, Rest
    <3>2. CASE Waiting # {}
      <4> DEFINE t == SaveReg(Earliest, "pending", "promoted")
      <4>1. Earliest \in Users
        BY <3>2, EarliestWaits DEF RegsTyped, Waiting
      <4>2. t \in RegSaves /\ t.pc = "regload" /\ proc' = [proc EXCEPT ![x] = t]
        BY <2>3, <3>2, <4>1, RegShapes DEF Promote, Goto, RegStatus
      <4> HIDE DEF t
      <4> QED
        BY <4>2, RegShapes DEF InRegistration
    <3> QED
      BY <3>1, <3>2
  <2>4. CASE x \in Requests /\ CountSeats(x)
    <3> DEFINE full == Cardinality(Occupied) >= MaxAttendees
               t == [pc |-> "insert", user |-> s.user, full |-> full]
    <3>1. proc' = [proc EXCEPT ![x] = t] /\ s.pc = "count"
      BY <2>4 DEF CountSeats, Goto, At
    <3>2. s.user \in Users
      BY <1>3, <2>4, <3>1 DEF Shape
    <3>3. t.pc = "insert" /\ t.user \in Users /\ t.full \in BOOLEAN
      BY <3>2
    <3> HIDE DEF t
    <3> QED
      BY <3>1, <3>3, RegShapes DEF InRegistration
  <2>5. CASE x \in Requests /\ InsertRegistration(x)
    BY <1>4, <2>5 DEF InsertRegistration, Goto
  <2>6. CASE x \in Requests /\ AskedEvent(x)
    <3>1. \/ proc' = [proc EXCEPT ![x] = s.outer] \/ proc' = [proc EXCEPT ![x] = Done]
      BY <2>6 DEF AskedEvent, Goto
    <3>2. s.outer \in RegSaves /\ s.outer.pc = "regload"
      BY <1>3, <2>6 DEF AskedEvent, Deciding, At, Shape
    <3>3. Shape(s.outer) /\ s.outer.pc \in InRegistration
      BY <3>2, RegShapes DEF InRegistration
    <3> QED
      BY <1>4, <3>1, <3>3
  <2> QED
    BY <2>1, <2>2, <2>3, <2>4, <2>5, <2>6
<1> QED
  BY <1>1, <1>2, <1>5, RegistrationMove

-----------------------------------------------------------------------------
(* The steps that write the row, Redis, the queue or the ledger.           *)

LEMMA TypedStep ==
    ASSUME EventInv, NEW r \in Requests, NEW t, Shape(t), proc' = [proc EXCEPT ![r] = t],
           row' \in Row \cup {Deleted}, secret' \in Accounts \cup {NoAccount},
           cached' \in Row \cup {NoCopy}, IsFiniteSet(funded') /\ NoAccount \notin funded', queued' \in BOOLEAN,
           old' \subseteq Requests, mishaps' \in Mishaps
    PROVE  /\ EventTyped' /\ proc'[r] = t
           /\ \A y \in Requests \ {r} : proc'[y] = proc[y]
<1>1. Requests \subseteq Procs
  BY DEF Procs
<1>2. /\ proc'[r] = t /\ \A y \in Requests \ {r} : proc'[y] = proc[y]
      /\ DOMAIN proc' = Procs /\ proc' = [x \in Procs |-> proc'[x]]
  BY <1>1 DEF EventInv, EventTyped
<1>3. \A y \in Requests : Shape(proc'[y])
  BY <1>2 DEF EventInv, EventTyped
<1> QED
  BY <1>2, <1>3 DEF EventTyped

\* Nobody but r is asked about copies of a row that stays.
LEMMA SoundWhenRowStays ==
    ASSUME EventInv, NEW r \in Requests, row' = row,
           \A y \in Requests \ {r} : proc'[y] = proc[y] /\ (y \in old' <=> y \in old),
           r \notin old' => Sound(proc'[r], row)
    PROVE  \A y \in Requests \ old' : Sound(proc'[y], row')
  BY DEF EventInv

\* Who held a copy while r wrote is among the old.
LEMMA SoundAfterWrite ==
    ASSUME EventInv, NEW r \in Requests, Sound(proc'[r], row'),
           \A y \in Requests \ {r} : proc'[y] = proc[y],
           old' = (old \cup Others(r)) \ {r}
    PROVE  /\ old' \subseteq Requests
           /\ \A y \in Requests \ old' : Sound(proc'[y], row')
<1>1. old' \subseteq Requests
  BY DEF Others, EventInv, EventTyped
<1>2. ASSUME NEW y \in Requests \ old', y # r PROVE Sound(proc'[y], row')
  <2>1. proc[y].pc \notin {"fetch", "fill", "have", "load", "write", "fund", "store"}
    BY <1>2 DEF Others
  <2> QED
    BY <1>2, <2>1 DEF Sound
<1> QED
  BY <1>1, <1>2

\* The accounts whose secret is lost stay the same.
LEMMA AccountsStay ==
    ASSUME EventInv, secret' = secret, funded' = funded, row'.key = row.key,
           mishaps'.lost = mishaps.lost, mishaps'.dropped = mishaps.dropped,
           \A y \in Requests : proc'[y].pc = "store" \/ proc[y].pc = "store"
                                  => proc'[y] = proc[y]
    PROVE  AccountsSound'
<1>1. \A a : Kept(a)' <=> Kept(a)
  BY DEF Kept, At
<1>2. Lost' = Lost
  BY <1>1 DEF Lost
<1> QED
  BY <1>2 DEF EventInv, AccountsSound, Hidden

LEMMA FillStep ==
    ASSUME EventInv, NEW r \in Requests, Fill(r) PROVE EventInv'
<1> DEFINE s == proc[r]
           t == Have(s.copy, FALSE, s.then, s.outer)
<1>1. /\ s.pc = "fill" /\ Shape(s) /\ (r \notin old => Sound(s, row))
      /\ proc' = [proc EXCEPT ![r] = t] /\ cached' = s.copy
      /\ mishaps' = [mishaps EXCEPT !.slip = @ \/ Outdated(s.copy)]
      /\ row' = row /\ secret' = secret /\ old' = old /\ funded' = funded /\ queued' = queued
  BY DEF Fill, At, Goto, Around, EventInv, EventTyped
<1>2. s.copy \in Row
  BY <1>1 DEF Shape
<1>3. /\ Shape(t) /\ t.pc \in {"done", "have"} /\ (r \notin old' => Sound(t, row))
  <2>1. CASE s.then = "reply"
    <3>1. t = Done /\ Done.pc = "done"
      BY <2>1 DEF Have, Done
    <3> HIDE DEF t
    <3> QED
      BY <3>1, LetGo
  <2>2. CASE s.then # "reply"
    <3>1. t.pc = "have" /\ t.copy = s.copy /\ t.then = s.then /\ t.outer = s.outer
      BY <2>2 DEF Have
    <3> HIDE DEF t
    <3> QED
      BY <1>1, <3>1 DEF Shape, Pcs, Sound
  <2> QED
    BY <2>1, <2>2
<1> HIDE DEF t
<1>4. /\ mishaps' \in Mishaps /\ mishaps'.lost = mishaps.lost /\ mishaps'.bulk = mishaps.bulk
      /\ mishaps'.dropped = mishaps.dropped
      /\ mishaps'.slip <=> mishaps.slip \/ Outdated(s.copy)
  BY <1>1 DEF EventInv, EventTyped, Mishaps, Outdated
<1>5. /\ EventTyped' /\ proc'[r] = t
      /\ \A y \in Requests \ {r} : proc'[y] = proc[y]
  <2>1. /\ row' \in Row \cup {Deleted} /\ secret' \in Accounts \cup {NoAccount}
        /\ cached' \in Row \cup {NoCopy} /\ IsFiniteSet(funded') /\ NoAccount \notin funded' /\ queued' \in BOOLEAN
        /\ old' \subseteq Requests
    BY <1>1, <1>2 DEF EventInv, EventTyped
  <2> QED
    BY <1>1, <1>3, <1>4, <2>1, TypedStep
<1>6. \A y \in Requests \ old' : Sound(proc'[y], row')
  BY <1>1, <1>3, <1>5, SoundWhenRowStays
<1>7. RefundsSound'
  <2>1. \A y \in Requests : Cancelling(proc'[y]) => Cancelling(proc[y])
    BY <1>3, <1>5 DEF Cancelling
  <2> QED
    BY <1>1, <1>4, <2>1 DEF EventInv, RefundsSound
<1>8. AccountsSound'
  <2>1. \A y \in Requests : proc'[y].pc = "store" \/ proc[y].pc = "store" => proc'[y] = proc[y]
    BY <1>1, <1>3, <1>5
  <2> QED
    BY <1>1, <1>4, <2>1, AccountsStay
<1>9. RedisIsCurrent'
  BY <1>1, <1>4 DEF RedisIsCurrent, Outdated
<1> QED
  BY <1>5, <1>6, <1>7, <1>8, <1>9 DEF EventInv

\* A request invalidates the copy, or queues the refunds.
LEMMA InvalidateStep ==
    ASSUME EventInv, NEW r \in Requests, Invalidate(r) \/ Enqueue(r) PROVE EventInv'
<1> DEFINE s == proc[r]
<1>1. /\ row' = row /\ secret' = secret /\ funded' = funded /\ mishaps' = mishaps
      /\ s.pc \in {"invalidate", "enqueue"}
      /\ queued' = queued \/ (queued' = TRUE /\ s.pc = "enqueue" /\ cached' = cached)
      /\ cached' = NoCopy \/ (cached' = cached /\ s.pc = "enqueue")
      /\ old' = old \/ old' = old \ {r}
  BY DEF Invalidate, Enqueue, At, Around
<1>2. PICK t : /\ proc' = [proc EXCEPT ![r] = t]
               /\ t = Done \/ (t = [pc |-> "enqueue"] /\ s.pc = "invalidate" /\ s.then = "cancel")
  BY DEF Invalidate, Enqueue, Goto, At
<1>3. Shape(t) /\ Sound(t, row) /\ t.pc \in {"done", "enqueue"}
      /\ (Cancelling(t) => Cancelling(s))
  <2>1. CASE t = Done
    <3>1. t.pc = "done"
      BY <2>1 DEF Done
    <3> QED
      BY <3>1, LetGo DEF Cancelling
  <2>2. CASE t = [pc |-> "enqueue"] /\ s.pc = "invalidate" /\ s.then = "cancel"
    BY <2>2 DEF Shape, Pcs, Sound, Cancelling
  <2> QED
    BY <1>2, <2>1, <2>2
<1>4. /\ EventTyped' /\ proc'[r] = t
      /\ \A y \in Requests \ {r} : proc'[y] = proc[y]
  <2>1. /\ row' \in Row \cup {Deleted} /\ secret' \in Accounts \cup {NoAccount}
        /\ cached' \in Row \cup {NoCopy} /\ IsFiniteSet(funded') /\ NoAccount \notin funded' /\ queued' \in BOOLEAN
        /\ old' \subseteq Requests /\ mishaps' \in Mishaps
    BY <1>1 DEF EventInv, EventTyped
  <2> QED
    BY <1>2, <1>3, <2>1, TypedStep
<1>5. \A y \in Requests \ old' : Sound(proc'[y], row')
  <2>1. \A y \in Requests \ {r} : y \in old' <=> y \in old
    BY <1>1
  <2> QED
    BY <1>1, <1>3, <1>4, <2>1, SoundWhenRowStays
<1>6. RefundsSound'
  <2>1. \A y \in Requests : Cancelling(proc'[y]) => Cancelling(proc[y])
    BY <1>3, <1>4
  <2>2. queued' => queued \/ Cancelling(s)
    BY <1>1 DEF Cancelling
  <2> QED
    BY <1>1, <2>1, <2>2 DEF EventInv, RefundsSound
<1>7. AccountsSound'
  <2>1. \A y \in Requests : proc'[y].pc = "store" \/ proc[y].pc = "store" => proc'[y] = proc[y]
    BY <1>1, <1>3, <1>4
  <2> QED
    BY <1>1, <2>1, AccountsStay
<1>8. RedisIsCurrent'
  <2>1. CASE cached' = NoCopy
    BY <2>1 DEF RedisIsCurrent, Outdated
  <2>2. CASE cached' = cached /\ s.pc = "enqueue"
    <3>1. \A y \in Requests : proc[y].pc = "invalidate" => proc'[y].pc = "invalidate"
      BY <1>4, <2>2
    <3> QED
      BY <1>1, <2>2, <3>1 DEF EventInv, RedisIsCurrent, Outdated, At
  <2> QED
    BY <1>1, <2>1, <2>2
<1> QED
  BY <1>4, <1>5, <1>6, <1>7, <1>8 DEF EventInv

\* What follows a save.
LEMMA ContinueShape ==
    ASSUME NEW s, s.then \in Slipping \cup Invalidating
    PROVE  /\ Shape(Continue(s)) /\ \A x : Sound(Continue(s), x)
           /\ Continue(s).pc \in {"escrow", "fetch", "invalidate", "done"}
           /\ s.then \in Invalidating => Continue(s).pc = "invalidate"
           /\ Cancelling(Continue(s)) => s.then = "cancel"
           /\ Continue(s).pc = "fetch" => Continue(s).then = "publish"
<1>1. CASE s.then = "publish"
  <2>1. Continue(s) = [pc |-> "escrow"] /\ s.then \notin Invalidating
    BY <1>1 DEF Continue, Invalidating
  <2>2. Continue(s).pc = "escrow"
    BY <2>1
  <2> QED
    BY <2>1, <2>2, LetGo DEF Cancelling
<1>2. CASE s.then = "republish"
  <2>1. Continue(s) = Fetching("publish", NoCopy) /\ s.then \notin Invalidating
    BY <1>2 DEF Continue, Invalidating
  <2> DEFINE t == Continue(s)
  <2>2. t.pc = "fetch" /\ t.then = "publish" /\ t.outer = NoCopy
    BY <2>1 DEF Fetching
  <2> HIDE DEF t
  <2>3. Shape(t) /\ (\A x : Sound(t, x)) /\ ~ Cancelling(t)
    BY <2>2 DEF Shape, Pcs, Thens, Sound, Cancelling
  <2> QED
    BY <2>1, <2>2, <2>3 DEF t
<1>3. CASE s.then \in Invalidating
  <2>1. Continue(s) = [pc |-> "invalidate", then |-> s.then]
    BY <1>3 DEF Continue, Invalidating
  <2> DEFINE t == Continue(s)
  <2>2. t.pc = "invalidate" /\ t.then = s.then
    BY <2>1
  <2> HIDE DEF t
  <2>3. Shape(t) /\ (\A x : Sound(t, x)) /\ (Cancelling(t) => s.then = "cancel")
    BY <2>2 DEF Shape, Pcs, Sound, Cancelling
  <2> QED
    BY <2>2, <2>3 DEF t
<1>4. CASE s.then \in {"rest", "postpone", "bulk"}
  <2>1. Continue(s) = Done /\ s.then \notin Invalidating
    BY <1>4 DEF Continue, Invalidating
  <2>2. Done.pc = "done"
    BY DEF Done
  <2> QED
    BY <2>1, <2>2, LetGo DEF Cancelling
<1> QED
  BY <1>1, <1>2, <1>3, <1>4 DEF Slipping

\* What a save makes of the row, if nobody wrote it since the copy was taken.
LEMMA SavedRow ==
    ASSUME EventInv, NEW r \in Requests, proc[r].pc = "write",
           row' = IF row.status = "deleted"
                  THEN IF proc[r].insert THEN proc[r].entity ELSE row
                  ELSE Updated(row, proc[r].entity, proc[r].dirty)
    PROVE  /\ row' \in Row \cup {Deleted}
           /\ r \notin old =>
                /\ row.status # "deleted" /\ row'.key = row.key
                /\ proc[r].then = "cancel" => row'.status = "cancelled"
                /\ row.status = "cancelled" /\ proc[r].then # "bulk"
                      => row'.status = "cancelled"
<1> DEFINE s == proc[r]
<1>1. s \in Saves /\ (s.then = "cancel" => s.entity.status = "cancelled")
  BY DEF EventInv, EventTyped, Shape
<1>2. s.entity \in Row
  BY <1>1 DEF Saves
<1>3. row \in Row \/ row.status = "deleted"
  BY DEF EventInv, EventTyped, Deleted
<1>4. row \in Row => row.status # "deleted"
  BY DEF Row, EventStatus
<1>5. row' \in Row \cup {Deleted}
  <2>1. CASE row \in Row
    <3>1. row' = [c \in {"status", "key"} |-> IF c \in s.dirty THEN s.entity[c] ELSE row[c]]
      BY <1>4, <2>1 DEF Updated, Row
    <3>2. row'.status \in EventStatus /\ row'.key \in Accounts \cup {NoAccount}
      BY <1>2, <2>1, <3>1 DEF Row
    <3> QED
      BY <3>1, <3>2 DEF Row
  <2>2. CASE row.status = "deleted"
    BY <1>2, <2>2 DEF EventInv, EventTyped
  <2> QED
    BY <1>3, <2>1, <2>2
<1>6. ASSUME r \notin old
      PROVE  /\ row.status # "deleted" /\ row'.key = row.key /\ row'.status = s.entity.status
             /\ CanSave(s.entity, s.then, row)
  <2>1. Sound(s, row)
    BY <1>6 DEF EventInv
  <2>2. CanSave(s.entity, s.then, row) /\ s.dirty = Differing(row, s.entity)
    BY <2>1 DEF Sound
  <2>3. row.status # "deleted" /\ s.entity.key = row.key
    BY <2>2 DEF CanSave
  <2>4. row \in Row
    BY <1>3, <2>3
  <2>5. row' = [c \in {"status", "key"} |-> IF c \in s.dirty THEN s.entity[c] ELSE row[c]]
    BY <2>3, <2>4 DEF Updated, Row
  <2>6. s.dirty = {c \in {"status", "key"} : row[c] # s.entity[c]}
    BY <2>2, <2>4 DEF Differing, Row
  <2>7. row'.key = s.entity.key /\ row'.status = s.entity.status
    BY <2>5, <2>6
  <2> QED
    BY <2>2, <2>3, <2>7
<1> QED
  BY <1>1, <1>5, <1>6 DEF CanSave

LEMMA LostIsFinite ==
    ASSUME EventInv
    PROVE  Cardinality(Lost) \in Nat /\ Hidden(secret, row) \in {0, 1}
<1>1. IsFiniteSet(Lost)
  BY FS_Subset DEF Lost, EventInv, EventTyped
<1> QED
  BY <1>1, FS_CardinalityType DEF Hidden

LEMMA SaveWriteStep ==
    ASSUME EventInv, NEW r \in Requests, SaveWrite(r) PROVE EventInv'
<1> DEFINE s == proc[r]
           refused == s.insert /\ row.status # "deleted"
<1>1. /\ s.pc = "write" /\ s \in Saves /\ r \in Procs
      /\ secret' = secret /\ cached' = cached /\ funded' = funded /\ queued' = queued
  BY DEF SaveWrite, At, Around, EventInv, EventTyped, Shape, Procs
<1>2. CASE refused
  <2>1. /\ EventStill /\ proc' = [proc EXCEPT ![r] = Done] /\ old' = old \ {r}
    BY <1>2 DEF SaveWrite, EventStill, Around, Goto
  <2>2. Shape(Done) /\ Done.pc \notin Busy /\ Sound(Done, row) /\ s.pc \notin Busy
    BY <1>1, LetGo DEF Done, Busy
  <2>3. old' \subseteq Requests /\ \A y \in Requests \ {r} : y \in old' <=> y \in old
    BY <2>1 DEF EventInv, EventTyped
  <2> QED
    BY <1>1, <2>1, <2>2, <2>3, LocalStep
<1>3. CASE ~ refused
  <2> DEFINE t == Continue(s)
             late == IF r \in old THEN 1 ELSE 0
  <2>1. /\ row' = IF row.status = "deleted" THEN IF s.insert THEN s.entity ELSE row
                  ELSE Updated(row, s.entity, s.dirty)
        /\ proc' = [proc EXCEPT ![r] = t]
        /\ old' = (old \cup Others(r)) \ {r}
        /\ mishaps' = [mishaps EXCEPT
                         !.lost = @ + late,
                         !.bulk = @ \/ s.then = "bulk",
                         !.slip = @ \/ (s.then \in Slipping /\ cached # NoCopy)]
    BY <1>3 DEF SaveWrite, Goto
  <2>2. /\ row' \in Row \cup {Deleted}
        /\ r \notin old =>
              /\ row.status # "deleted" /\ row'.key = row.key
              /\ s.then = "cancel" => row'.status = "cancelled"
              /\ row.status = "cancelled" /\ s.then # "bulk" => row'.status = "cancelled"
    BY <1>1, <2>1, SavedRow
  <2>3. s.then \in Slipping \cup Invalidating
    BY <1>1 DEF Saves
  <2>4. /\ Shape(t) /\ Sound(t, row')
        /\ t.pc \in {"escrow", "fetch", "invalidate", "done"}
        /\ s.then \in Invalidating => t.pc = "invalidate"
        /\ Cancelling(t) => s.then = "cancel"
    BY <2>3, ContinueShape
  <2> HIDE DEF t
  <2>5. /\ mishaps' \in Mishaps /\ mishaps'.lost = mishaps.lost + late
        /\ mishaps'.dropped = mishaps.dropped
        /\ mishaps'.bulk <=> mishaps.bulk \/ s.then = "bulk"
        /\ mishaps'.slip <=> mishaps.slip \/ (s.then \in Slipping /\ cached # NoCopy)
    <3>1. mishaps \in Mishaps /\ late \in Nat
      BY DEF EventInv, EventTyped
    <3>2. mishaps'.lost = mishaps.lost + late /\ mishaps'.dropped = mishaps.dropped
      BY <2>1, <3>1 DEF Mishaps
    <3>3. mishaps'.bulk <=> mishaps.bulk \/ s.then = "bulk"
      BY <2>1, <3>1 DEF Mishaps
    <3>4. mishaps'.slip <=> mishaps.slip \/ (s.then \in Slipping /\ cached # NoCopy)
      BY <2>1, <3>1 DEF Mishaps
    <3>5. mishaps' \in Mishaps
      <4> DEFINE l == mishaps.lost + late
                 b == mishaps.bulk \/ s.then = "bulk"
                 z == mishaps.slip \/ (s.then \in Slipping /\ cached # NoCopy)
      <4>1. l \in Nat /\ b \in BOOLEAN /\ z \in BOOLEAN
        BY <3>1 DEF Mishaps
      <4>2. mishaps' = [mishaps EXCEPT !.lost = l, !.bulk = b, !.slip = z]
        BY <2>1
      <4> HIDE DEF l, b, z
      <4> QED
        BY <3>1, <4>1, <4>2 DEF Mishaps
    <3> QED
      BY <3>2, <3>3, <3>4, <3>5
  <2>6. /\ EventTyped' /\ proc'[r] = t
        /\ \A y \in Requests \ {r} : proc'[y] = proc[y]
    <3>1. /\ secret' \in Accounts \cup {NoAccount} /\ cached' \in Row \cup {NoCopy}
          /\ IsFiniteSet(funded') /\ NoAccount \notin funded' /\ queued' \in BOOLEAN /\ old' \subseteq Requests
      BY <1>1, <2>1 DEF EventInv, EventTyped, Others
    <3> QED
      BY <2>1, <2>2, <2>4, <2>5, <3>1, TypedStep
  <2>7. \A y \in Requests \ old' : Sound(proc'[y], row')
    BY <2>1, <2>4, <2>6, SoundAfterWrite
  <2>8. mishaps.lost \in Nat /\ mishaps.dropped \in Nat
    BY DEF EventInv, EventTyped, Mishaps
  <2>9. RefundsSound'
    <3>1. SUFFICES ASSUME mishaps'.lost = 0, ~ mishaps'.bulk,
                          queued' \/ \E y \in Requests : Cancelling(proc'[y])
                   PROVE  row'.status \in {"cancelled", "deleted"}
      BY DEF RefundsSound
    <3>2. r \notin old /\ mishaps.lost = 0 /\ ~ mishaps.bulk /\ s.then # "bulk"
      BY <2>5, <2>8, <3>1
    <3>3. CASE Cancelling(t)
      BY <2>2, <2>4, <3>2, <3>3
    <3>4. CASE ~ Cancelling(t)
      <4>1. queued \/ \E y \in Requests : Cancelling(proc[y])
        BY <1>1, <2>6, <3>1, <3>4
      <4>2. row.status \in {"cancelled", "deleted"}
        BY <3>2, <4>1 DEF EventInv, RefundsSound
      <4> QED
        BY <2>2, <3>2, <4>2
    <3> QED
      BY <3>3, <3>4
  <2>10. AccountsSound'
    <3>1. \A a : Kept(a)' <=> Kept(a)
      BY <1>1, <2>4, <2>6 DEF Kept, At
    <3>2. Lost' = Lost
      BY <1>1, <3>1 DEF Lost
    <3>3. Hidden(secret', row') \in {0, 1} /\ (r \notin old => Hidden(secret', row') = Hidden(secret, row))
      BY <1>1, <2>2 DEF Hidden
    <3>4. Cardinality(Lost) + Hidden(secret, row) <= mishaps.lost + mishaps.dropped
      BY DEF EventInv, AccountsSound
    <3>5. Cardinality(Lost) \in Nat /\ Hidden(secret, row) \in {0, 1}
      BY LostIsFinite
    <3>6. Cardinality(Lost) + Hidden(secret', row') <= mishaps'.lost + mishaps'.dropped
      BY <2>5, <2>8, <3>3, <3>4, <3>5
    <3> QED
      BY <3>2, <3>6 DEF AccountsSound
  <2>11. RedisIsCurrent'
    <3>1. CASE s.then \in Invalidating
      BY <2>4, <2>6, <3>1 DEF RedisIsCurrent, At
    <3>2. CASE s.then \in Slipping
      BY <1>1, <2>5, <3>2 DEF RedisIsCurrent, Outdated
    <3> QED
      BY <2>3, <3>1, <3>2
  <2> QED
    BY <2>6, <2>7, <2>9, <2>10, <2>11 DEF EventInv
<1> QED
  BY <1>2, <1>3

\* One account more is lost, or none.
LEMMA OneMoreLost ==
    ASSUME EventInv, NEW a, Lost' \subseteq Lost \cup {a}
    PROVE  /\ Cardinality(Lost)' \in Nat /\ Cardinality(Lost)' <= Cardinality(Lost) + 1
           /\ Lost' \subseteq Lost => Cardinality(Lost)' <= Cardinality(Lost)
<1> DEFINE L == Lost
           M == Lost'
<1>1. IsFiniteSet(L)
  BY FS_Subset DEF Lost, EventInv, EventTyped
<1> HIDE DEF L, M
<1>2. M \subseteq L \cup {a}
  BY DEF L, M
<1>3. /\ IsFiniteSet(L \cup {a}) /\ Cardinality(L) \in Nat
      /\ Cardinality(L \cup {a}) <= Cardinality(L) + 1
  BY <1>1, FS_AddElement, FS_CardinalityType
<1>4. IsFiniteSet(M) /\ Cardinality(M) <= Cardinality(L \cup {a})
  BY <1>2, <1>3, FS_Subset
<1>5. Cardinality(M) \in Nat /\ Cardinality(L \cup {a}) \in Nat
  BY <1>3, <1>4, FS_CardinalityType
<1>6. M \subseteq L => Cardinality(M) <= Cardinality(L)
  BY <1>1, FS_Subset
<1> QED
  BY <1>3, <1>4, <1>5, <1>6 DEF L, M

LEMMA DeleteStep ==
    ASSUME EventInv, NEW r \in Requests, DeleteEvent(r) PROVE EventInv'
<1> DEFINE t == [pc |-> "invalidate", then |-> "delete"]
           gone == IF secret # NoAccount THEN 1 ELSE 0
<1>1. /\ proc[r].pc = "have" /\ row' = Deleted /\ secret' = NoAccount
      /\ proc' = [proc EXCEPT ![r] = t] /\ old' = (old \cup Others(r)) \ {r}
      /\ mishaps' = [mishaps EXCEPT !.dropped = @ + gone]
      /\ cached' = cached /\ funded' = funded /\ queued' = queued
  BY DEF DeleteEvent, Deciding, At, Goto, Around
<1>2. t.pc = "invalidate" /\ t.then = "delete"
  OBVIOUS
<1> HIDE DEF t
<1>3. Shape(t) /\ Sound(t, row')
  BY <1>2 DEF Shape, Pcs, Sound
<1>4. /\ mishaps' \in Mishaps /\ mishaps'.lost = mishaps.lost
      /\ mishaps'.dropped = mishaps.dropped + gone
      /\ mishaps.lost \in Nat /\ mishaps.dropped \in Nat
  <2>1. mishaps \in Mishaps /\ gone \in Nat
    BY DEF EventInv, EventTyped
  <2> QED
    BY <1>1, <2>1 DEF Mishaps
<1>5. /\ EventTyped' /\ proc'[r] = t
      /\ \A y \in Requests \ {r} : proc'[y] = proc[y]
  <2>1. /\ row' \in Row \cup {Deleted} /\ secret' \in Accounts \cup {NoAccount}
        /\ cached' \in Row \cup {NoCopy} /\ IsFiniteSet(funded') /\ NoAccount \notin funded' /\ queued' \in BOOLEAN
        /\ old' \subseteq Requests
    BY <1>1 DEF EventInv, EventTyped, Others
  <2> QED
    BY <1>1, <1>3, <1>4, <2>1, TypedStep
<1>6. \A y \in Requests \ old' : Sound(proc'[y], row')
  BY <1>1, <1>3, <1>5, SoundAfterWrite
<1>7. RefundsSound'
  BY <1>1 DEF RefundsSound, Deleted
<1>8. AccountsSound'
  <2>1. \A a : Kept(a) => Kept(a)' \/ (secret # NoAccount /\ a = secret)
                            \/ (a = NoAccount /\ secret = NoAccount)
    BY <1>1, <1>5 DEF Kept, At
  <2>2. secret = NoAccount => \A a : Kept(a) => Kept(a)'
    BY <1>1, <1>5 DEF Kept, At
  <2>3. Lost' \subseteq Lost \cup {secret} /\ (secret = NoAccount => Lost' \subseteq Lost)
    BY <1>1, <2>1, <2>2 DEF Lost
  <2>4. /\ Cardinality(Lost)' \in Nat /\ Cardinality(Lost)' <= Cardinality(Lost) + 1
        /\ secret = NoAccount => Cardinality(Lost)' <= Cardinality(Lost)
    BY <2>3, OneMoreLost
  <2>5. Hidden(secret', row') = 0
    BY <1>1 DEF Hidden
  <2>6. Cardinality(Lost) \in Nat /\ Hidden(secret, row) \in {0, 1}
    BY LostIsFinite
  <2>7. Cardinality(Lost) + Hidden(secret, row) <= mishaps.lost + mishaps.dropped
    BY DEF EventInv, AccountsSound
  <2>8. Cardinality(Lost)' + Hidden(secret', row') <= mishaps'.lost + mishaps'.dropped
    BY <1>4, <2>4, <2>5, <2>6, <2>7
  <2> QED
    BY <2>8 DEF AccountsSound
<1>9. RedisIsCurrent'
  BY <1>2, <1>5 DEF RedisIsCurrent, At
<1> QED
  BY <1>5, <1>6, <1>7, <1>8, <1>9 DEF EventInv

LEMMA FundEscrowStep ==
    ASSUME EventInv, NEW r \in Requests, NEW a \in Accounts, FundEscrow(r, a)
    PROVE  EventInv'
<1>1. /\ proc[r].pc = "fund" /\ funded' = funded \cup {a}
      /\ row' = row /\ secret' = secret /\ cached' = cached /\ queued' = queued
  BY DEF FundEscrow, At
<1>2. PICK t : \E l \in {0, 1} :
        /\ proc' = [proc EXCEPT ![r] = t]
        /\ \/ t = [pc |-> "store", account |-> a] /\ l = 0 /\ old' = old /\ mishaps' = mishaps
           \/ t = Done /\ l = 1 /\ old' = old \ {r}
                /\ mishaps' = [mishaps EXCEPT !.dropped = @ + l]
  BY DEF FundEscrow, Goto
<1>10. PICK l \in {0, 1} :
        /\ proc' = [proc EXCEPT ![r] = t]
        /\ \/ t = [pc |-> "store", account |-> a] /\ l = 0 /\ old' = old /\ mishaps' = mishaps
           \/ t = Done /\ l = 1 /\ old' = old \ {r}
                /\ mishaps' = [mishaps EXCEPT !.dropped = @ + l]
  BY <1>2
<1>3. /\ Shape(t) /\ (r \notin old' => Sound(t, row)) /\ t.pc \in {"store", "done"}
      /\ l = 0 => t.pc = "store" /\ t.account = a
  <2>1. CASE t = [pc |-> "store", account |-> a] /\ l = 0 /\ old' = old
    <3>1. t.pc = "store" /\ t.account = a
      BY <2>1
    <3>2. r \notin old => row.key = NoAccount
      BY <1>1 DEF EventInv, Sound
    <3> QED
      BY <2>1, <3>1, <3>2 DEF Shape, Pcs, Sound
  <2>2. CASE t = Done /\ l = 1
    <3>1. t.pc = "done"
      BY <2>2 DEF Done
    <3> QED
      BY <2>2, <3>1, LetGo
  <2> QED
    BY <1>10, <2>1, <2>2
<1>4. /\ mishaps' \in Mishaps /\ mishaps'.lost = mishaps.lost /\ mishaps'.dropped = mishaps.dropped + l
      /\ mishaps'.bulk = mishaps.bulk /\ mishaps'.slip = mishaps.slip
      /\ mishaps.lost \in Nat /\ mishaps.dropped \in Nat
  <2>1. mishaps \in Mishaps
    BY DEF EventInv, EventTyped
  <2>2. CASE l = 0 /\ mishaps' = mishaps
    BY <2>1, <2>2 DEF Mishaps
  <2>3. CASE mishaps' = [mishaps EXCEPT !.dropped = @ + l]
    BY <2>1, <2>3 DEF Mishaps
  <2> QED
    BY <1>10, <2>2, <2>3
<1>5. /\ EventTyped' /\ proc'[r] = t
      /\ \A y \in Requests \ {r} : proc'[y] = proc[y]
  <2>1. IsFiniteSet(funded') /\ NoAccount \notin funded'
    BY <1>1, FS_AddElement, EventsAssumption DEF EventInv, EventTyped, Accounts, NoAccount
  <2>2. /\ row' \in Row \cup {Deleted} /\ secret' \in Accounts \cup {NoAccount}
        /\ cached' \in Row \cup {NoCopy} /\ queued' \in BOOLEAN /\ old' \subseteq Requests
    BY <1>1, <1>2 DEF EventInv, EventTyped
  <2> QED
    BY <1>10, <1>3, <1>4, <2>1, <2>2, TypedStep
<1>6. \A y \in Requests \ old' : Sound(proc'[y], row')
  <2>1. \A y \in Requests \ {r} : y \in old' <=> y \in old
    BY <1>10
  <2> QED
    BY <1>1, <1>3, <1>5, <2>1, SoundWhenRowStays
<1>7. RefundsSound'
  <2>1. \A y \in Requests : Cancelling(proc'[y]) => Cancelling(proc[y])
    BY <1>3, <1>5 DEF Cancelling
  <2> QED
    BY <1>1, <1>4, <2>1 DEF EventInv, RefundsSound
<1>8. AccountsSound'
  <2>1. \A b : Kept(b) => Kept(b)'
    BY <1>1, <1>5 DEF Kept, At
  <2>2. l = 0 => Kept(a)'
    BY <1>3, <1>5 DEF Kept, At
  <2>3. Lost' \subseteq Lost \cup {a} /\ (l = 0 => Lost' \subseteq Lost)
    BY <1>1, <2>1, <2>2 DEF Lost
  <2>4. /\ Cardinality(Lost)' \in Nat /\ Cardinality(Lost)' <= Cardinality(Lost) + 1
        /\ l = 0 => Cardinality(Lost)' <= Cardinality(Lost)
    BY <2>3, OneMoreLost
  <2>5. Hidden(secret', row') = Hidden(secret, row)
    BY <1>1
  <2>6. Cardinality(Lost) \in Nat /\ Hidden(secret, row) \in {0, 1}
    BY LostIsFinite
  <2>7. Cardinality(Lost) + Hidden(secret, row) <= mishaps.lost + mishaps.dropped
    BY DEF EventInv, AccountsSound
  <2>8. Cardinality(Lost)' + Hidden(secret', row') <= mishaps'.lost + mishaps'.dropped
    BY <1>10, <1>4, <2>4, <2>5, <2>6, <2>7
  <2> QED
    BY <2>8 DEF AccountsSound
<1>9. RedisIsCurrent'
  <2>1. \A y \in Requests : proc[y].pc = "invalidate" => proc'[y].pc = "invalidate"
    BY <1>1, <1>5
  <2> QED
    BY <1>1, <1>4, <2>1 DEF EventInv, RedisIsCurrent, Outdated, At
<1> QED
  BY <1>5, <1>6, <1>7, <1>8, <1>9 DEF EventInv

\* The account is stored: over the one a row had, perhaps, or in no row at all.
LEMMA StoreEscrowStep ==
    ASSUME EventInv, NEW r \in Requests, StoreEscrow(r) PROVE EventInv'
<1> DEFINE a == proc[r].account
           gone == row.status = "deleted"
           late == IF r \in old THEN 1 ELSE 0
           d == IF gone THEN 1 ELSE 0
           t == Fetching("reply", NoCopy)
<1>1. /\ proc[r].pc = "store" /\ a \in Accounts
      /\ row' = IF gone THEN row ELSE [row EXCEPT !.key = a]
      /\ secret' = IF gone THEN secret ELSE a
      /\ proc' = [proc EXCEPT ![r] = t] /\ old' = (old \cup Others(r)) \ {r}
      /\ mishaps' = [mishaps EXCEPT !.lost = @ + late, !.dropped = @ + d,
                                    !.slip = @ \/ cached # NoCopy]
      /\ cached' = cached /\ funded' = funded /\ queued' = queued
  BY DEF StoreEscrow, At, Goto, Around, EventInv, EventTyped, Shape
<1>2. t.pc = "fetch" /\ t.then = "reply" /\ t.outer = NoCopy
  BY DEF Fetching
<1> HIDE DEF t
<1>3. Shape(t) /\ Sound(t, row') /\ ~ Cancelling(t)
  BY <1>2 DEF Shape, Pcs, Thens, Sound, Cancelling
<1>4. /\ mishaps' \in Mishaps /\ mishaps'.lost = mishaps.lost + late
      /\ mishaps'.dropped = mishaps.dropped + d /\ mishaps'.bulk = mishaps.bulk
      /\ mishaps'.slip <=> mishaps.slip \/ cached # NoCopy
      /\ mishaps.lost \in Nat /\ mishaps.dropped \in Nat
  <2>1. mishaps \in Mishaps /\ late \in {0, 1} /\ d \in {0, 1}
    BY DEF EventInv, EventTyped
  <2>2. /\ mishaps'.lost = mishaps.lost + late
        /\ mishaps'.dropped = mishaps.dropped + d
    BY <1>1, <2>1 DEF Mishaps
  <2>3. /\ mishaps'.bulk = mishaps.bulk
        /\ mishaps'.slip <=> mishaps.slip \/ cached # NoCopy
    BY <1>1, <2>1 DEF Mishaps
  <2>4. mishaps' \in Mishaps
    <3> DEFINE l == mishaps.lost + late
               n == mishaps.dropped + d
               z == mishaps.slip \/ cached # NoCopy
    <3>1. l \in Nat /\ n \in Nat /\ z \in BOOLEAN
      BY <2>1 DEF Mishaps
    <3>2. mishaps' = [mishaps EXCEPT !.lost = l, !.dropped = n, !.slip = z]
      BY <1>1
    <3> HIDE DEF l, n, z
    <3> QED
      BY <2>1, <3>1, <3>2 DEF Mishaps
  <2> QED
    BY <2>1, <2>2, <2>3, <2>4 DEF Mishaps
<1>5. row' \in Row \cup {Deleted} /\ (gone => row' = row)
      /\ (~ gone => row'.key = a /\ row'.status = row.status)
  <2>1. row \in Row \/ gone
    BY DEF EventInv, EventTyped, Deleted
  <2>2. CASE gone
    BY <1>1, <2>2 DEF EventInv, EventTyped
  <2>3. CASE row \in Row /\ ~ gone
    BY <1>1, <2>3 DEF Row
  <2> QED
    BY <2>1, <2>2, <2>3
<1>6. /\ EventTyped' /\ proc'[r] = t
      /\ \A y \in Requests \ {r} : proc'[y] = proc[y]
  <2>1. /\ secret' \in Accounts \cup {NoAccount} /\ cached' \in Row \cup {NoCopy}
        /\ IsFiniteSet(funded') /\ NoAccount \notin funded' /\ queued' \in BOOLEAN /\ old' \subseteq Requests
    BY <1>1 DEF EventInv, EventTyped, Others
  <2> QED
    BY <1>1, <1>3, <1>4, <1>5, <2>1, TypedStep
<1>7. \A y \in Requests \ old' : Sound(proc'[y], row')
  BY <1>1, <1>3, <1>6, SoundAfterWrite
<1>8. RefundsSound'
  <2>1. \A y \in Requests : Cancelling(proc'[y]) => Cancelling(proc[y])
    BY <1>3, <1>6
  <2>2. mishaps'.lost = 0 => mishaps.lost = 0
    BY <1>4
  <2>3. row'.status = row.status
    BY <1>5
  <2> QED
    BY <1>1, <1>4, <2>1, <2>2, <2>3 DEF EventInv, RefundsSound
<1>9. AccountsSound'
  <2>1. Cardinality(Lost) \in Nat /\ Hidden(secret, row) \in {0, 1}
    BY LostIsFinite
  <2>2. Cardinality(Lost) + Hidden(secret, row) <= mishaps.lost + mishaps.dropped
    BY DEF EventInv, AccountsSound
  <2>3. Cardinality(Lost)' + Hidden(secret', row') <= mishaps'.lost + mishaps'.dropped
    <3>1. CASE gone
      <4>1. \A b : Kept(b) => Kept(b)' \/ b = a
        BY <1>1, <1>6, <3>1 DEF Kept, At
      <4>2. Lost' \subseteq Lost \cup {a}
        BY <1>1, <4>1 DEF Lost
      <4>3. Cardinality(Lost)' \in Nat /\ Cardinality(Lost)' <= Cardinality(Lost) + 1
        BY <4>2, OneMoreLost
      <4>4. Hidden(secret', row') = Hidden(secret, row) /\ d = 1
        BY <1>1, <3>1
      <4> QED
        BY <1>4, <2>1, <2>2, <4>3, <4>4
    <3>2. CASE ~ gone
      <4>1. \A b : Kept(b) => Kept(b)' \/ b = secret
        BY <1>1, <1>6, <3>2 DEF Kept, At
      <4>2. Lost' \subseteq Lost \cup {secret}
        BY <1>1, <4>1 DEF Lost
      <4>3. secret = NoAccount => Lost' \subseteq Lost
        BY <1>1, <4>1 DEF Lost, EventInv, EventTyped
      <4>4. /\ Cardinality(Lost)' \in Nat /\ Cardinality(Lost)' <= Cardinality(Lost) + 1
            /\ secret = NoAccount => Cardinality(Lost)' <= Cardinality(Lost)
        BY <4>2, <4>3, OneMoreLost
      <4>5. Hidden(secret', row') = 0 /\ d = 0
        BY <1>1, <1>5, <3>2 DEF Hidden
      <4>6. CASE r \in old
        BY <1>4, <2>1, <2>2, <4>4, <4>5, <4>6
      <4>7. CASE r \notin old
        <5>1. row.key = NoAccount
          BY <1>1, <4>7 DEF EventInv, Sound
        <5>2. CASE secret # NoAccount
          <6>1. Hidden(secret, row) = 1
            BY <5>1, <5>2 DEF Hidden
          <6> QED
            BY <1>4, <2>1, <2>2, <4>4, <4>5, <4>7, <6>1
        <5>3. CASE secret = NoAccount
          BY <1>4, <2>1, <2>2, <4>4, <4>5, <4>7, <5>3
        <5> QED
          BY <5>2, <5>3
      <4> QED
        BY <4>6, <4>7
    <3> QED
      BY <3>1, <3>2
  <2> QED
    BY <2>3 DEF AccountsSound
<1>10. RedisIsCurrent'
  BY <1>1, <1>4 DEF RedisIsCurrent, Outdated
<1> QED
  BY <1>6, <1>7, <1>8, <1>9, <1>10 DEF EventInv

LEMMA CacheExpiresStep ==
    ASSUME EventInv, CacheExpires PROVE EventInv'
<1>1. /\ cached' = NoCopy /\ row' = row /\ secret' = secret /\ proc' = proc /\ old' = old
      /\ mishaps' = mishaps /\ funded' = funded /\ queued' = queued
  BY DEF CacheExpires, Around
<1>2. EventTyped' /\ \A r \in Requests \ old' : Sound(proc'[r], row')
  BY <1>1 DEF EventInv, EventTyped
<1>3. RefundsSound'
  BY <1>1 DEF EventInv, RefundsSound
<1>4. AccountsSound'
  BY <1>1, AccountsStay
<1>5. RedisIsCurrent'
  BY <1>1 DEF RedisIsCurrent, Outdated
<1> QED
  BY <1>2, <1>3, <1>4, <1>5 DEF EventInv

\* A restart forgets the secrets that were to be stored, one of each request.
LEMMA CrashLoses ==
    ASSUME EventInv, Crash
    PROVE  LET n == Cardinality({r \in Requests : At(r, "store")})
           IN  /\ n \in Nat /\ Cardinality(Lost)' \in Nat
               /\ Cardinality(Lost)' <= Cardinality(Lost) + n
<1> DEFINE S == {r \in Requests : At(r, "store")}
           F == {proc[r].account : r \in S}
           L == Lost
           M == Lost'
<1>1. /\ secret' = secret /\ funded' = funded
  BY DEF Crash
<1>2. IsFiniteSet(S) /\ IsFiniteSet(L)
  <2>1. IsFiniteSet(Requests)
    BY EventsAssumption, FS_Interval DEF Requests
  <2>2. S \subseteq Requests /\ L \subseteq funded
    BY DEF Lost
  <2> QED
    BY <2>1, <2>2, FS_Subset DEF EventInv, EventTyped
<1>3. IsFiniteSet(F) /\ Cardinality(F) <= Cardinality(S)
  <2> DEFINE f == [r \in S |-> proc[r].account]
  <2>1. f \in Surjection(S, F)
    BY DEF Surjection
  <2> HIDE DEF f, F, S
  <2> QED
    BY <1>2, <2>1, FS_Surjection
<1>4. M \subseteq L \cup F
  <2>1. \A a : Kept(a) => secret = a \/ \E r \in S : proc[r].account = a
    BY DEF Kept
  <2>2. \A a : secret = a => Kept(a)'
    BY <1>1 DEF Kept
  <2> QED
    BY <1>1, <2>1, <2>2 DEF Lost
<1> HIDE DEF S, F, L, M
<1>5. /\ IsFiniteSet(L \cup F) /\ Cardinality(L \cup F) <= Cardinality(L) + Cardinality(F)
      /\ Cardinality(L) \in Nat /\ Cardinality(F) \in Nat /\ Cardinality(S) \in Nat
  <2>1. IsFiniteSet(L \cup F)
    BY <1>2, <1>3, FS_Union
  <2>2. Cardinality(L \cup F) = Cardinality(L) + Cardinality(F) - Cardinality(L \cap F)
    BY <1>2, <1>3, FS_Union
  <2>3. IsFiniteSet(L \cap F)
    BY <1>2, FS_Intersection
  <2>4. Cardinality(L) \in Nat /\ Cardinality(F) \in Nat /\ Cardinality(S) \in Nat
        /\ Cardinality(L \cap F) \in Nat
    BY <1>2, <1>3, <2>3, FS_CardinalityType
  <2> QED
    BY <2>1, <2>2, <2>4
<1>6. IsFiniteSet(M) /\ Cardinality(M) <= Cardinality(L \cup F)
  BY <1>4, <1>5, FS_Subset
<1>7. Cardinality(M) \in Nat /\ Cardinality(L \cup F) \in Nat
  BY <1>5, <1>6, FS_CardinalityType
<1>8. Cardinality(S) \in Nat /\ Cardinality(M) <= Cardinality(L) + Cardinality(S)
  BY <1>3, <1>5, <1>6, <1>7
<1> QED
  BY <1>7, <1>8 DEF S, L, M

LEMMA CrashStep ==
    ASSUME EventInv, Crash PROVE EventInv'
<1> DEFINE n == Cardinality({r \in Requests : At(r, "store")})
           cut == \E r \in Requests : At(r, "invalidate")
<1>1. /\ row' = row /\ secret' = secret /\ cached' = cached /\ funded' = funded
      /\ queued' = queued /\ old' = {}
      /\ proc' = [x \in Procs |-> IF At(x, "new") THEN proc[x] ELSE Rest(x)]
      /\ mishaps' = [mishaps EXCEPT !.crashes = @ + 1, !.dropped = @ + n,
                                    !.slip = @ \/ cut]
  BY DEF Crash
<1>2. \A r \in Requests : proc'[r].pc \in {"new", "done"}
  BY <1>1 DEF At, Rest, Done, Procs
<1>3. /\ n \in Nat /\ Cardinality(Lost)' \in Nat
      /\ Cardinality(Lost)' <= Cardinality(Lost) + n
  BY CrashLoses
<1> HIDE DEF n
<1>4. /\ mishaps' \in Mishaps /\ mishaps'.lost = mishaps.lost
      /\ mishaps'.dropped = mishaps.dropped + n /\ mishaps'.bulk = mishaps.bulk
      /\ mishaps'.slip <=> mishaps.slip \/ cut
      /\ mishaps.lost \in Nat /\ mishaps.dropped \in Nat
  <2>1. mishaps \in Mishaps
    BY DEF EventInv, EventTyped
  <2>2. mishaps'.lost = mishaps.lost /\ mishaps'.dropped = mishaps.dropped + n
    BY <1>1, <2>1 DEF Mishaps
  <2>3. mishaps'.bulk = mishaps.bulk /\ (mishaps'.slip <=> mishaps.slip \/ cut)
    BY <1>1, <2>1 DEF Mishaps
  <2>4. mishaps' \in Mishaps
    <3> DEFINE k == mishaps.crashes + 1
               d == mishaps.dropped + n
               z == mishaps.slip \/ cut
    <3>1. k \in Nat /\ d \in Nat /\ z \in BOOLEAN
      BY <1>3, <2>1 DEF Mishaps
    <3>2. mishaps' = [mishaps EXCEPT !.crashes = k, !.dropped = d, !.slip = z]
      BY <1>1
    <3> HIDE DEF k, d, z
    <3> QED
      BY <2>1, <3>1, <3>2 DEF Mishaps
  <2> QED
    BY <2>1, <2>2, <2>3, <2>4 DEF Mishaps
<1>5. EventTyped'
  <2>1. DOMAIN proc' = Procs /\ proc' = [x \in Procs |-> proc'[x]]
    BY <1>1
  <2>2. \A r \in Requests : Shape(proc'[r])
    BY <1>2 DEF Shape, Pcs
  <2> QED
    BY <1>1, <1>4, <2>1, <2>2 DEF EventInv, EventTyped
<1>6. \A r \in Requests \ old' : Sound(proc'[r], row')
  BY <1>2 DEF Sound
<1>7. RefundsSound'
  <2>1. ~ \E r \in Requests : Cancelling(proc'[r])
    BY <1>2 DEF Cancelling
  <2> QED
    BY <1>1, <1>4, <2>1 DEF EventInv, RefundsSound
<1>8. AccountsSound'
  <2>1. Cardinality(Lost) \in Nat /\ Hidden(secret, row) \in {0, 1}
    BY LostIsFinite
  <2>2. Cardinality(Lost) + Hidden(secret, row) <= mishaps.lost + mishaps.dropped
    BY DEF EventInv, AccountsSound
  <2>3. Hidden(secret', row') = Hidden(secret, row)
    BY <1>1
  <2>4. Cardinality(Lost)' + Hidden(secret', row') <= mishaps'.lost + mishaps'.dropped
    BY <1>3, <1>4, <2>1, <2>2, <2>3
  <2> QED
    BY <2>4 DEF AccountsSound
<1>9. RedisIsCurrent'
  BY <1>1, <1>4 DEF EventInv, RedisIsCurrent, Outdated
<1> QED
  BY <1>5, <1>6, <1>7, <1>8, <1>9 DEF EventInv

LEMMA JobApart == ExpiryJob \in Procs /\ ExpiryJob \notin Requests
  BY EventsAssumption DEF Procs, Requests

\* The steps of the job that are its own, and the passing of time.
LEMMA HoldStep ==
    ASSUME EventInv, NEW u \in Users, ReadHolds \/ ExpireHold(u) \/ Age(u)
    PROVE  EventInv'
<1>1. EventStill /\ old' = old /\ old \subseteq Requests
  BY DEF ReadHolds, ExpireHold, Age, Still, EventInv, EventTyped
<1>2. PICK t : proc' = [proc EXCEPT ![ExpiryJob] = t]
  <2>1. CASE proc' = proc
    <3>1. proc' = [proc EXCEPT ![ExpiryJob] = proc[ExpiryJob]]
      BY <2>1, JobApart DEF EventInv, EventTyped
    <3> QED
      BY <3>1
  <2>2. CASE ExpireHold(u)
    BY <2>2 DEF ExpireHold, Goto
  <2> QED
    BY <2>1, <2>2 DEF ReadHolds, Age
<1> QED
  BY <1>1, <1>2, JobApart, LocalStep

LEMMA EventInitially ==
    ASSUME NEW organizers \in SUBSET Requests, EventInit(organizers)
    PROVE  EventInv
<1>1. 1 \in Accounts /\ NoAccount \notin Accounts /\ 1 # NoAccount
  BY EventsAssumption DEF Accounts, NoAccount
<1>2. PICK s \in EventStatus, c \in BOOLEAN :
        LET created   == [status |-> s, key |-> NoAccount]
            published == [created EXCEPT !.key = 1]
        IN  \/ /\ row = created /\ secret = NoAccount /\ funded = {}
               /\ cached = IF c THEN row ELSE NoCopy
            \/ /\ s = "published"
               /\ row = published /\ secret = row.key /\ funded = {row.key}
               /\ cached = IF c THEN [created EXCEPT !.status = "draft"] ELSE NoCopy
  BY DEF EventInit
<1>3. /\ queued = FALSE /\ old = {} /\ mishaps = [NoMishaps EXCEPT !.slip = Outdated(cached)]
      /\ proc = [x \in Procs |-> IF x \in Requests
                   THEN New(IF x \in organizers THEN "organizer" ELSE "attendee") ELSE Idle]
  BY DEF EventInit
<1>4. /\ row \in Row /\ cached \in Row \cup {NoCopy} /\ secret \in Accounts \cup {NoAccount}
      /\ row.key = secret /\ funded \subseteq {secret} /\ funded \subseteq Accounts
  <2>1. CASE /\ row = [status |-> s, key |-> NoAccount] /\ secret = NoAccount /\ funded = {}
             /\ cached = IF c THEN row ELSE NoCopy
    BY <2>1 DEF Row
  <2>2. CASE /\ row = [status |-> s, key |-> 1] /\ secret = row.key /\ funded = {row.key}
             /\ cached = IF c THEN [status |-> "draft", key |-> NoAccount] ELSE NoCopy
    <3>1. [status |-> "draft", key |-> NoAccount] \in Row
      BY DEF Row, EventStatus
    <3> QED
      BY <1>1, <2>2, <3>1 DEF Row
  <2> QED
    BY <1>2, <2>1, <2>2
<1>5. IsFiniteSet(funded) /\ NoAccount \notin funded
  BY <1>1, <1>4, FS_Singleton, FS_Subset
<1>6. \A r \in Requests : proc[r].pc = "new"
  BY <1>3 DEF New, Procs
<1>7. mishaps \in Mishaps /\ mishaps.lost = 0 /\ mishaps.dropped = 0
      /\ (mishaps.slip <=> Outdated(cached))
  <2>1. Outdated(cached) \in BOOLEAN
    BY DEF Outdated
  <2> QED
    BY <1>3, <2>1 DEF Mishaps, NoMishaps
<1>8. EventTyped
  <2>1. DOMAIN proc = Procs /\ proc = [x \in Procs |-> proc[x]]
    BY <1>3
  <2>2. \A r \in Requests : Shape(proc[r])
    BY <1>6 DEF Shape, Pcs
  <2> QED
    BY <1>3, <1>4, <1>5, <1>7, <2>1, <2>2 DEF EventTyped
<1>9. \A r \in Requests \ old : Sound(proc[r], row)
  BY <1>6 DEF Sound
<1>10. RefundsSound
  BY <1>3, <1>6 DEF RefundsSound, Cancelling
<1>11. AccountsSound
  <2>1. Lost = {}
    BY <1>4 DEF Lost, Kept
  <2>2. Cardinality(Lost) = 0
    BY <2>1, FS_EmptySet, Zenon
  <2> QED
    BY <1>4, <1>7, <2>2 DEF AccountsSound, Hidden
<1>12. RedisIsCurrent
  BY <1>7 DEF RedisIsCurrent
<1> QED
  BY <1>8, <1>9, <1>10, <1>11, <1>12 DEF EventInv

\* Every step preserves what is known of the event.
LEMMA EventNext ==
    ASSUME EventInv, RegsTyped, [Next]_vars PROVE EventInv'
<1>1. ASSUME NEW r \in Requests, RegistrationStep(r) PROVE EventInv'
  <2>1. r \in Procs
    BY DEF Procs
  <2> QED
    BY <1>1, <2>1, AttendeeStep, SeatStep DEF RegistrationStep
<1>2. ASSUME NEW r \in Requests, EventStep(r) PROVE EventInv'
  <2>1. ASSUME OrganizerStep(r) PROVE EventInv'
    BY <2>1, HandlerStep, ArchiveStep, PreserveStep, InvalidateStep, DeleteStep, ResaveStep,
       ReadEscrowStep, ReplyStep, StoreEscrowStep, FundEscrowStep DEF OrganizerStep
  <2> QED
    BY <1>2, <2>1, FetchKeeps, FillStep, ReplyStep, InvalidateStep, SaveLoadStep,
       SaveWriteStep DEF EventStep
<1>3. ASSUME JobStep PROVE EventInv'
  <2>1. CASE ReadHolds
    <3>1. \E u \in Users : TRUE
      BY <2>1 DEF ReadHolds, StaleHolds
    <3> QED
      BY <2>1, <3>1, HoldStep
  <2> QED
    BY <1>3, <2>1, HoldStep, SeatStep, JobApart DEF JobStep
<1>4. CASE UNCHANGED vars
  <2>1. /\ row' = row /\ secret' = secret /\ proc' = proc /\ old' = old /\ cached' = cached
        /\ mishaps' = mishaps /\ funded' = funded /\ queued' = queued
    BY <1>4 DEF vars, eventVars
  <2> QED
    BY <2>1 DEF EventInv, EventTyped, RefundsSound, AccountsSound, RedisIsCurrent, Lost, Kept,
                At, Outdated
<1> QED
  BY <1>1, <1>2, <1>3, <1>4, HoldStep, CacheExpiresStep, CrashStep DEF Next, Restart

-----------------------------------------------------------------------------
(* The seats.                                                              *)

\* A process that counts on no row.
Quiet(s) == /\ s.pc \notin {"insert", "promote", "regload", "regwrite"}
            /\ s.pc \in {"fetch", "fill", "have"} => s.then # "asked"

LEMMA QuietRelies ==
    ASSUME NEW s, NEW o, NEW g, NEW n, NEW more, Quiet(s) PROVE Relies(s, o, g, n, more)
  BY DEF Quiet, Relies

LEMMA OccupiedFinite ==
    IsFiniteSet(Users) /\ IsFiniteSet(Occupied) /\ Cardinality(Occupied) \in Nat
<1>1. IsFiniteSet(Users)
  BY RegistrationsAssumption, FS_Interval DEF Users
<1>2. IsFiniteSet(Occupied)
  BY <1>1, FS_Subset DEF Occupied
<1> QED
  BY <1>1, <1>2, FS_CardinalityType

JobTyped(s) == /\ s.pc \in {"idle", "promote", "regload", "regwrite"}
               /\ s.pc \in {"regload", "regwrite"} => s \in RegSaves

\* A step of one process that writes no registration.
LEMMA SeatMove ==
    ASSUME SeatInv, NEW x \in Procs, NEW t, DOMAIN proc = Procs,
           proc' = [proc EXCEPT ![x] = t], regs' = regs, excess' = excess,
           oldRegs' \in [Procs -> SUBSET Users],
           \A y \in Procs \ {x} : oldRegs'[y] = oldRegs[y],
           Relies(t, oldRegs'[x], regs, Cardinality(Occupied), excess),
           x = ExpiryJob => JobTyped(t),
           DOMAIN todo' \subseteq Users,
           \A u \in DOMAIN todo' : /\ todo'[u] \in BOOLEAN
                                   /\ regs[u] \in Reg
                                   /\ ~ todo'[u] => regs[u].status = "pending"
    PROVE  SeatInv'
<1>1. proc'[x] = t /\ \A y \in Procs \ {x} : proc'[y] = proc[y]
  OBVIOUS
<1>2. Occupied' = Occupied
  BY DEF Occupied, Has
<1>3. RegsTyped'
  <2>1. ExpiryJob \in Procs
    BY JobApart
  <2>2. JobTyped(proc'[ExpiryJob])
    BY <1>1, <2>1 DEF SeatInv, RegsTyped, JobTyped
  <2> QED
    BY <2>2 DEF SeatInv, RegsTyped, JobTyped
<1>4. \A y \in Procs : Relies(proc'[y], oldRegs'[y], regs', Cardinality(Occupied)', excess')
  <2> DEFINE n == Cardinality(Occupied)
  <2>1. Cardinality(Occupied)' = n
    BY <1>2
  <2>2. \A y \in Procs : Relies(proc[y], oldRegs[y], regs, n, excess)
    BY DEF SeatInv
  <2>3. Relies(proc'[x], oldRegs'[x], regs, n, excess)
    BY <1>1
  <2> HIDE DEF n
  <2> QED
    BY <1>1, <2>1, <2>2, <2>3
<1>5. SeatsBounded'
  BY <1>2 DEF SeatInv, SeatsBounded
<1> QED
  BY <1>3, <1>4, <1>5 DEF SeatInv

\* A step of one process that forgets what it read, or remembers it.
LEMMA SeatPass ==
    ASSUME SeatInv, NEW x \in Procs, NEW t, DOMAIN proc = Procs,
           proc' = [proc EXCEPT ![x] = t], UNCHANGED <<regs, excess, todo>>,
           oldRegs' = oldRegs \/ oldRegs' = [oldRegs EXCEPT ![x] = {}],
           Relies(t, oldRegs'[x], regs, Cardinality(Occupied), excess),
           x = ExpiryJob => JobTyped(t)
    PROVE  SeatInv'
<1>1. /\ regs' = regs /\ excess' = excess /\ todo' = todo
      /\ oldRegs \in [Procs -> SUBSET Users]
  BY DEF SeatInv, RegsTyped
<1>2. oldRegs' \in [Procs -> SUBSET Users] /\ \A y \in Procs \ {x} : oldRegs'[y] = oldRegs[y]
  BY <1>1
<1>3. /\ DOMAIN todo' \subseteq Users
      /\ \A u \in DOMAIN todo' : /\ todo'[u] \in BOOLEAN
                                 /\ regs[u] \in Reg
                                 /\ ~ todo'[u] => regs[u].status = "pending"
  BY <1>1 DEF SeatInv, RegsTyped
<1> QED
  BY <1>1, <1>2, <1>3, SeatMove

\* Process x has written the row of u: who relied on rows knows of it.
LEMMA SeatWritten ==
    ASSUME SeatInv, NEW x \in Procs, NEW u \in Users, NEW t, DOMAIN proc = Procs,
           proc' = [proc EXCEPT ![x] = t], Writes(x, u),
           NEW g, regs' = [regs EXCEPT ![u] = g], g \in Reg,
           excess' \in Nat, SeatsBounded',
           Relies(t, {}, regs', Cardinality(Occupied)', excess'),
           x = ExpiryJob => JobTyped(t)
    PROVE  SeatInv'
<1>1. proc'[x] = t /\ \A y \in Procs \ {x} : proc'[y] = proc[y]
  OBVIOUS
<1>2. /\ regs \in [Users -> Reg \cup {NoReg}] /\ regs' \in [Users -> Reg \cup {NoReg}]
      /\ regs'[u] \in Reg /\ \A v \in Users \ {u} : regs'[v] = regs[v]
  BY DEF SeatInv, RegsTyped
<1>3. oldRegs' \in [Procs -> SUBSET Users] /\ oldRegs'[x] = {}
  BY DEF Writes, SeatInv, RegsTyped
<1>4. /\ DOMAIN todo' \subseteq Users
      /\ \A v \in DOMAIN todo' : /\ todo'[v] \in BOOLEAN
                                 /\ regs'[v] \in Reg
                                 /\ ~ todo'[v] => regs'[v].status = "pending"
  <2>1. DOMAIN todo' = DOMAIN todo /\ \A v \in DOMAIN todo : todo'[v] = (todo[v] \/ v = u)
    BY DEF Writes
  <2> QED
    BY <1>2, <2>1 DEF SeatInv, RegsTyped
<1>5. RegsTyped'
  <2>1. ExpiryJob \in Procs
    BY JobApart
  <2>2. JobTyped(proc'[ExpiryJob])
    BY <1>1, <2>1 DEF SeatInv, RegsTyped, JobTyped
  <2> QED
    BY <1>2, <1>3, <1>4, <2>2 DEF SeatInv, RegsTyped, JobTyped
<1>6. ASSUME NEW y \in Procs
      PROVE  Relies(proc'[y], oldRegs'[y], regs', Cardinality(Occupied)', excess')
  <2> DEFINE n == Cardinality(Occupied)
             m == Cardinality(Occupied)'
             s == proc[y]
             o == oldRegs[y]
  <2>1. CASE y = x
    BY <1>1, <1>3, <2>1
  <2>2. CASE y # x /\ y \notin Relying
    <3>1. Quiet(s)
      BY <2>2 DEF Relying, Quiet, Deciding, At
    <3> HIDE DEF m
    <3> QED
      BY <1>1, <2>2, <3>1, QuietRelies DEF m
  <2>3. CASE y # x /\ y \in Relying
    <3>1. oldRegs'[y] = o \cup {u} /\ proc'[y] = s
      BY <1>1, <2>3 DEF Writes
    <3>2. Relies(s, o, regs, n, excess)
      BY DEF SeatInv
    <3> HIDE DEF s, o, n, m
    <3>3. \A v \in Users : /\ regs[v] \in Reg => regs'[v] \in Reg
                           /\ v \notin o \cup {u} => v \notin o /\ regs'[v] = regs[v]
      BY <1>2
    <3>4. Relies(s, o \cup {u}, regs', m, excess')
      BY <3>2, <3>3 DEF Relies
    <3> QED
      BY <3>1, <3>4 DEF m
  <2> QED
    BY <2>1, <2>2, <2>3
<1> QED
  BY <1>4, <1>5, <1>6 DEF SeatInv

\* A request that is asking the event on behalf of a registration.
Asking(s) == s.pc \in {"fetch", "fill", "have"} /\ s.then = "asked"

\* From the processes p to q, with only r elsewhere, and quiet if it did not ask.
Carries(p, q, r) ==
    \E t : /\ q = [p EXCEPT ![r] = t]
           /\ Quiet(t) \/ (Asking(t) /\ Asking(p[r]) /\ t.outer = p[r].outer)

\* The event's handlers know nothing of registrations, but for carrying on for
\* one that asked.
LEMMA EventMove ==
    ASSUME EventInv, NEW r \in Requests, EventStep(r)
    PROVE  Carries(proc, proc', r)
<1> DEFINE s == proc[r]
<1>0. /\ \A t : proc' = [proc EXCEPT ![r] = t] /\ Quiet(t) => Carries(proc, proc', r)
      /\ \A t : proc' = [proc EXCEPT ![r] = t] /\ Asking(t) /\ Asking(s) /\ t.outer = s.outer
              => Carries(proc, proc', r)
  BY DEF Carries
<1>1. \A t : t.pc \in {"done", "escrow", "invalidate", "enqueue", "load", "write", "fund",
                       "store"} => Quiet(t)
  BY DEF Quiet
<1>2. Quiet(Done)
  BY <1>1 DEF Done
<1>3. Shape(s)
  BY DEF EventInv, EventTyped
<1>4. ASSUME NEW then, NEW outer, FetchCached(r, then, outer) \/ FetchRow(r, then, outer),
             then # "asked" \/ (Asking(s) /\ s.outer = outer)
      PROVE  Carries(proc, proc', r)
  <2> DEFINE h == Have(cached, TRUE, then, outer)
             f == [pc |-> "fill", copy |-> row, then |-> then, outer |-> outer]
  <2>1. Quiet(h) \/ (h.pc = "have" /\ h.then = then /\ h.outer = outer)
    BY <1>2 DEF Have
  <2>2. f.pc = "fill" /\ f.then = then /\ f.outer = outer
    OBVIOUS
  <2>3. \/ proc' = [proc EXCEPT ![r] = h] \/ proc' = [proc EXCEPT ![r] = f]
        \/ proc' = [proc EXCEPT ![r] = Done]
    BY <1>4 DEF FetchCached, FetchRow, Goto
  <2> HIDE DEF h, f
  <2>4. Quiet(h) \/ (Asking(h) /\ Asking(s) /\ h.outer = s.outer)
    BY <1>4, <2>1 DEF Quiet, Asking
  <2>5. Quiet(f) \/ (Asking(f) /\ Asking(s) /\ f.outer = s.outer)
    BY <1>4, <2>2 DEF Quiet, Asking
  <2> QED
    BY <1>0, <1>2, <2>3, <2>4, <2>5
<1>5. CASE Fetch(r)
  <2>1. ASSUME NEW by \in Roles, FetchCached(r, by, NoCopy) \/ FetchRow(r, by, NoCopy)
        PROVE  Carries(proc, proc', r)
    BY <1>4, <2>1 DEF Roles
  <2>2. ASSUME s.pc = "fetch",
               FetchCached(r, s.then, s.outer) \/ FetchRow(r, s.then, s.outer)
        PROVE  Carries(proc, proc', r)
    <3>1. s.then # "asked" \/ (Asking(s) /\ s.outer = s.outer)
      BY <2>2 DEF Asking
    <3> QED
      BY <1>4, <2>2, <3>1
  <2> QED
    BY <1>5, <2>1, <2>2 DEF Fetch, At
<1>6. CASE Fill(r)
  <2> DEFINE h == Have(s.copy, FALSE, s.then, s.outer)
  <2>1. proc' = [proc EXCEPT ![r] = h] /\ s.pc = "fill"
    BY <1>6 DEF Fill, Goto, At
  <2>2. Quiet(h) \/ (h.pc = "have" /\ h.then = s.then /\ h.outer = s.outer)
    BY <1>2 DEF Have
  <2> HIDE DEF h
  <2>3. Quiet(h) \/ (Asking(h) /\ Asking(s) /\ h.outer = s.outer)
    BY <2>1, <2>2 DEF Quiet, Asking
  <2> QED
    BY <1>0, <2>1, <2>3
<1>7. CASE Reply(r) \/ FundingFails(r) \/ Enqueue(r)
  BY <1>0, <1>2, <1>7 DEF Reply, FundingFails, Enqueue, Goto
<1>8. CASE Invalidate(r)
  <2> DEFINE e == [pc |-> "enqueue"]
  <2>1. proc' = [proc EXCEPT ![r] = e] \/ proc' = [proc EXCEPT ![r] = Done]
    BY <1>8 DEF Invalidate, Goto
  <2>2. Quiet(e)
    BY <1>1
  <2> QED
    BY <1>0, <1>2, <2>1, <2>2
<1>9. CASE SaveLoad(r)
  <2> DEFINE a == [s EXCEPT !.pc = "write", !.insert = TRUE]
             b == [s EXCEPT !.pc = "write", !.dirty = Differing(row, s.entity)]
  <2>1. proc' = [proc EXCEPT ![r] = a] \/ proc' = [proc EXCEPT ![r] = b]
    BY <1>9 DEF SaveLoad, Goto
  <2>2. s \in Saves
    BY <1>3, <1>9 DEF SaveLoad, At, Shape
  <2>3. a.pc = "write" /\ b.pc = "write"
    BY <2>2 DEF Saves
  <2> HIDE DEF a, b
  <2>4. Quiet(a) /\ Quiet(b)
    BY <1>1, <2>3
  <2> QED
    BY <1>0, <2>1, <2>4
<1>10. CASE SaveWrite(r)
  <2>1. proc' = [proc EXCEPT ![r] = Done] \/ proc' = [proc EXCEPT ![r] = Continue(s)]
    BY <1>10 DEF SaveWrite, Goto
  <2>2. s.then \in Slipping \cup Invalidating
    BY <1>3, <1>10 DEF SaveWrite, At, Shape, Saves
  <2>3. Quiet(Continue(s))
    BY <1>1, <2>2, ContinueShape DEF Quiet
  <2> QED
    BY <1>0, <1>2, <2>1, <2>3
<1>11. ASSUME NEW e, NEW then, Decide(r, e, then) PROVE Carries(proc, proc', r)
  <2>1. proc' = [proc EXCEPT ![r] = Save(e, then)]
    BY <1>11 DEF Decide, Goto
  <2>2. Quiet(Save(e, then))
    BY <1>1 DEF Save
  <2> QED
    BY <1>0, <2>1, <2>2
<1>12. CASE \/ PublishEvent(r) \/ CompleteEvent(r) \/ CancelEvent(r) \/ Postpone(r)
            \/ RescheduleEvent(r) \/ UpdateAndPublish(r) \/ PreserveEventHistory(r)
            \/ \E z \in EventStatus : UpdateEvent(r, z)
  BY <1>11, <1>12 DEF PublishEvent, CompleteEvent, CancelEvent, Postpone, RescheduleEvent,
                      UpdateAndPublish, PreserveEventHistory, UpdateEvent
<1>13. CASE ArchiveCompletedEvent(r) \/ StoreEscrow(r)
  <2>1. PICK then \in {"history", "reply"}, outer \in {NoCopy, [Copy(r) EXCEPT !.status = "archived"]} :
            proc' = [proc EXCEPT ![r] = Fetching(then, outer)]
    BY <1>13 DEF ArchiveCompletedEvent, StoreEscrow, Goto
  <2>2. Quiet(Fetching(then, outer))
    BY DEF Quiet, Fetching
  <2> QED
    BY <1>0, <2>1, <2>2
<1>14. ASSUME NEW z \in EventStatus, Resave(r, z) PROVE Carries(proc, proc', r)
  <2> DEFINE e == Save([row EXCEPT !.status = z], IF z = row.status THEN "rest" ELSE "bulk")
  <2>1. proc' = [proc EXCEPT ![r] = e] /\ e.pc = "load"
    BY <1>14 DEF Resave, Goto, Save
  <2> HIDE DEF e
  <2>2. Quiet(e)
    BY <1>1, <2>1
  <2> QED
    BY <1>0, <2>1, <2>2
<1>15. CASE DeleteEvent(r)
  <2> DEFINE e == [pc |-> "invalidate", then |-> "delete"]
  <2>1. proc' = [proc EXCEPT ![r] = e] /\ e.pc = "invalidate"
    BY <1>15 DEF DeleteEvent, Goto
  <2> HIDE DEF e
  <2>2. Quiet(e)
    BY <1>1, <2>1
  <2> QED
    BY <1>0, <2>1, <2>2
<1>16. CASE ReadEscrow(r)
  <2> DEFINE e == CASE row.status = "deleted" -> Done
                 [] row.key # NoAccount -> Fetching("reply", NoCopy)
                 [] row.key = NoAccount /\ row.status = "published" -> [pc |-> "fund"]
                 [] OTHER -> Done
  <2>1. proc' = [proc EXCEPT ![r] = e]
    BY <1>16 DEF ReadEscrow, Goto
  <2>2. row.status = "deleted" => row.key = NoAccount
    BY DEF EventInv, EventTyped, Row, EventStatus, Deleted
  <2>3. e \in {Done, Fetching("reply", NoCopy), [pc |-> "fund"]}
    BY <2>2
  <2> HIDE DEF e
  <2>4. Quiet(Fetching("reply", NoCopy))
    BY DEF Quiet, Fetching
  <2>5. Quiet([pc |-> "fund"])
    BY <1>1
  <2> QED
    BY <1>0, <1>2, <2>1, <2>3, <2>4, <2>5
<1>17. ASSUME NEW a \in Accounts, FundEscrow(r, a) PROVE Carries(proc, proc', r)
  <2> DEFINE e == [pc |-> "store", account |-> a]
  <2>1. proc' = [proc EXCEPT ![r] = e] \/ proc' = [proc EXCEPT ![r] = Done]
    BY <1>17 DEF FundEscrow, Goto
  <2>2. e.pc = "store"
    OBVIOUS
  <2> HIDE DEF e
  <2>3. Quiet(e)
    BY <1>1, <2>2
  <2> QED
    BY <1>0, <1>2, <2>1, <2>3
<1>18. CASE OrganizerStep(r)
  <2> QED
    BY <1>7, <1>12, <1>13, <1>14, <1>15, <1>16, <1>17, <1>18 DEF OrganizerStep
<1> QED
  BY <1>5, <1>6, <1>7, <1>8, <1>9, <1>10, <1>18 DEF EventStep

LEMMA EventSeats ==
    ASSUME EventInv, SeatInv, NEW r \in Requests, EventStep(r), UNCHANGED regVars
    PROVE  SeatInv'
<1>1. PICK t : /\ proc' = [proc EXCEPT ![r] = t]
               /\ Quiet(t) \/ (Asking(t) /\ Asking(proc[r]) /\ t.outer = proc[r].outer)
  BY EventMove DEF Carries
<1>2. /\ UNCHANGED <<regs, excess, todo>> /\ oldRegs' = oldRegs
      /\ r \in Procs /\ r # ExpiryJob /\ DOMAIN proc = Procs
  BY JobApart DEF regVars, Procs, EventInv, EventTyped
<1> DEFINE n == Cardinality(Occupied)
<1>3. Relies(proc[r], oldRegs[r], regs, n, excess)
  BY <1>2 DEF SeatInv
<1>4. Relies(t, oldRegs[r], regs, n, excess)
  <2>1. CASE Quiet(t)
    BY <2>1, QuietRelies
  <2>2. CASE Asking(t) /\ Asking(proc[r]) /\ t.outer = proc[r].outer
    BY <1>3, <2>2 DEF Relies, Asking
  <2> QED
    BY <1>1, <2>1, <2>2
<1> QED
  BY <1>1, <1>2, <1>4, SeatPass

\* What a request that saves a registration, or asks for one, relies on.
LEMMA TakenRelies ==
    ASSUME SeatInv, NEW u \in Users, NEW s \in RegStatus,
           NEW then \in {"promote", "claim", "done"}, NEW o \in SUBSET Users, NEW n,
           regs[u] \in Reg,
           then = "promote" => /\ s \in {"cancelled", "waitlisted"}
                               /\ u \notin o => regs[u].status \in {"pending", "confirmed"},
           then = "done" => /\ s \in {"cancelled", "confirmed"}
                            /\ s = "confirmed" /\ u \notin o =>
                                  regs[u].status \in {"pending", "confirmed"}
    PROVE  Relies(SaveReg(u, s, then), o, regs, n, excess)
<1> DEFINE t == SaveReg(u, s, then)
<1>1. t.pc = "regload" /\ t.user = u /\ t.status = s /\ t.then = then
  BY DEF SaveReg
<1> HIDE DEF t
<1> QED
  BY <1>1 DEF Relies, t

LEMMA HeldIsReg ==
    ASSUME SeatInv, NEW u \in Users, NEW S \in SUBSET RegStatus, Has(u, S)
    PROVE  regs[u] \in Reg /\ regs[u].status \in S
<1>1. regs[u] \in Reg \cup {NoReg} /\ regs[u].status \in S
  BY DEF SeatInv, RegsTyped, Has
<1>2. NoReg.status \notin S
  BY DEF NoReg, RegStatus
<1> QED
  BY <1>1, <1>2

LEMMA AttendeeSeats ==
    ASSUME EventInv, SeatInv, NEW r \in Requests, NEW u \in Users,
           \/ Register(r, u) \/ CancelRegistration(r, u) \/ CancelWithRefund(r, u)
           \/ ConfirmWaitlist(r, u) \/ LinkPayment(r, u)
    PROVE  SeatInv'
<1> DEFINE n == Cardinality(Occupied)
<1>1. /\ UNCHANGED <<regs, excess, todo>> /\ oldRegs' = [oldRegs EXCEPT ![r] = {}]
  BY DEF Register, CancelRegistration, CancelWithRefund, ConfirmWaitlist, LinkPayment,
         Take, TakeIfPublished, Forget, Still
<1>2. r \in Procs /\ r # ExpiryJob /\ DOMAIN proc = Procs /\ oldRegs'[r] = {}
  BY <1>1, JobApart DEF Procs, EventInv, EventTyped, SeatInv, RegsTyped
<1>3. \E t : proc' = [proc EXCEPT ![r] = t] /\ Relies(t, {}, regs, n, excess)
  <2>1. CASE Register(r, u)
    <3> DEFINE t == [pc |-> "count", user |-> u]
    <3>1. proc' = [proc EXCEPT ![r] = t] /\ t.pc = "count"
      BY <2>1 DEF Register, Goto
    <3> HIDE DEF t, n
    <3>2. Quiet(t)
      BY <3>1 DEF Quiet
    <3> QED
      BY <3>1, <3>2, QuietRelies
  <2>2. CASE CancelRegistration(r, u)
    <3> DEFINE then == IF Has(u, {"confirmed"}) THEN "promote" ELSE "done"
               t == SaveReg(u, "cancelled", then)
    <3>1. proc' = [proc EXCEPT ![r] = t] /\ Has(u, {"pending", "confirmed"})
      BY <2>2 DEF CancelRegistration, Take, Goto
    <3>2. regs[u] \in Reg /\ regs[u].status \in {"pending", "confirmed"}
      BY <3>1, HeldIsReg DEF RegStatus
    <3>3. then \in {"promote", "done"}
      OBVIOUS
    <3> HIDE DEF then, n
    <3>4. Relies(t, {}, regs, n, excess)
      BY <3>2, <3>3, TakenRelies DEF RegStatus
    <3> QED
      BY <3>1, <3>4
  <2>3. CASE LinkPayment(r, u)
    <3>1. proc' = [proc EXCEPT ![r] = SaveReg(u, "confirmed", "done")] /\ Has(u, {"pending"})
      BY <2>3 DEF LinkPayment, Take, Goto
    <3>2. regs[u] \in Reg /\ regs[u].status \in {"pending"}
      BY <3>1, HeldIsReg DEF RegStatus
    <3> HIDE DEF n
    <3>3. Relies(SaveReg(u, "confirmed", "done"), {}, regs, n, excess)
      BY <3>2, TakenRelies DEF RegStatus
    <3> QED
      BY <3>1, <3>3
  <2>4. ASSUME NEW s \in {"cancelled", "pending"}, NEW then \in {"claim", "done"},
               NEW S \in SUBSET RegStatus, Has(u, S), TakeIfPublished(r, u, s, then),
               then = "done" => s = "cancelled"
        PROVE  \E t : proc' = [proc EXCEPT ![r] = t] /\ Relies(t, {}, regs, n, excess)
    <3> DEFINE e == SaveReg(u, s, then)
               t == Fetching("asked", e)
    <3>1. proc' = [proc EXCEPT ![r] = t]
      BY <2>4 DEF TakeIfPublished, Goto
    <3>2. e.user = u /\ e.then = then /\ e.status = s
      BY DEF SaveReg
    <3>3. t.pc = "fetch" /\ t.then = "asked" /\ t.outer = e
      BY DEF Fetching
    <3>4. regs[u] \in Reg
      BY <2>4, HeldIsReg
    <3> HIDE DEF e, t, n
    <3>5. Relies(t, {}, regs, n, excess)
      BY <2>4, <3>2, <3>3, <3>4 DEF Relies
    <3> QED
      BY <3>1, <3>5
  <2>5. CASE CancelWithRefund(r, u)
    <3>1. Has(u, {"confirmed"}) /\ TakeIfPublished(r, u, "cancelled", "done")
      BY <2>5 DEF CancelWithRefund
    <3> QED
      BY <2>4, <3>1 DEF RegStatus
  <2>6. CASE ConfirmWaitlist(r, u)
    <3>1. Has(u, {"waitlisted"}) /\ TakeIfPublished(r, u, "pending", "claim")
      BY <2>6 DEF ConfirmWaitlist
    <3> QED
      BY <2>4, <3>1 DEF RegStatus
  <2> QED
    BY <2>1, <2>2, <2>3, <2>5, <2>6
<1> QED
  BY <1>1, <1>2, <1>3, SeatPass

LEMMA CountStep ==
    ASSUME EventInv, SeatInv, NEW r \in Requests, CountSeats(r) PROVE SeatInv'
<1> DEFINE n == Cardinality(Occupied)
           full == n >= MaxAttendees
           t == [pc |-> "insert", user |-> proc[r].user, full |-> full]
<1>1. /\ UNCHANGED <<regs, excess, todo>> /\ oldRegs' = [oldRegs EXCEPT ![r] = {}]
      /\ proc' = [proc EXCEPT ![r] = t]
  BY DEF CountSeats, Forget, Still, Goto
<1>2. r \in Procs /\ r # ExpiryJob /\ DOMAIN proc = Procs
  BY JobApart DEF Procs, EventInv, EventTyped
<1>3. oldRegs'[r] = {}
  BY <1>1, <1>2 DEF SeatInv, RegsTyped
<1>4. t.pc = "insert" /\ t.full = full /\ n \in Nat
  BY OccupiedFinite
<1>5. ~ full => n + 1 <= MaxAttendees
  <2> HIDE DEF n
  <2> QED
    BY <1>4, RegistrationsAssumption
<1> HIDE DEF t, full, n
<1>6. Relies(t, {}, regs, n, excess)
  BY <1>4, <1>5 DEF Relies
<1> QED
  BY <1>1, <1>2, <1>3, <1>6, SeatPass DEF n

LEMMA AskedSeats ==
    ASSUME EventInv, SeatInv, NEW r \in Requests, AskedEvent(r) PROVE SeatInv'
<1> DEFINE n == Cardinality(Occupied)
           s == proc[r]
<1>1. r \in Procs /\ r # ExpiryJob /\ DOMAIN proc = Procs
  BY JobApart DEF Procs, EventInv, EventTyped
<1>2. UNCHANGED <<regs, excess, todo>>
  BY DEF AskedEvent, Still
<1>3. CASE Copy(r).status # "published"
  <2>1. oldRegs' = [oldRegs EXCEPT ![r] = {}] /\ proc' = [proc EXCEPT ![r] = Done]
    BY <1>3 DEF AskedEvent, Goto
  <2>2. Quiet(Done)
    BY DEF Quiet, Done
  <2>3. Relies(Done, oldRegs'[r], regs, n, excess)
    BY <2>2, QuietRelies
  <2> QED
    BY <1>1, <1>2, <2>1, <2>3, SeatPass
<1>4. CASE Copy(r).status = "published"
  <2>1. oldRegs' = oldRegs /\ proc' = [proc EXCEPT ![r] = s.outer]
    BY <1>4 DEF AskedEvent, Goto
  <2>2. s.pc = "have" /\ s.then = "asked" /\ Shape(s)
    BY DEF AskedEvent, Deciding, At, EventInv, EventTyped
  <2>3. s.outer \in RegSaves /\ s.outer.pc = "regload"
    BY <2>2 DEF Shape
  <2>4. Relies(s, oldRegs[r], regs, n, excess)
    BY <1>1 DEF SeatInv
  <2> HIDE DEF n
  <2>5. Relies(s.outer, oldRegs[r], regs, n, excess)
    BY <2>2, <2>3, <2>4 DEF Relies
  <2> QED
    BY <1>1, <1>2, <2>1, <2>5, SeatPass DEF n
<1> QED
  BY <1>3, <1>4

\* Who saves a registration, request or job.
LEMMA SavingTyped ==
    ASSUME EventInv, SeatInv, NEW x \in Procs, proc[x].pc \in {"regload", "regwrite"}
    PROVE  proc[x] \in RegSaves
<1>1. x \in Requests => Shape(proc[x])
  BY DEF EventInv, EventTyped
<1> QED
  BY <1>1 DEF Shape, SeatInv, RegsTyped, Procs

LEMMA RegLoadSeats ==
    ASSUME EventInv, SeatInv, NEW x \in Procs, RegLoad(x) PROVE SeatInv'
<1> DEFINE n == Cardinality(Occupied)
           s == proc[x]
           d == regs[s.user].status # s.status
           t == [s EXCEPT !.pc = "regwrite", !.dirty = d]
<1>1. /\ proc' = [proc EXCEPT ![x] = t] /\ s.pc = "regload"
      /\ UNCHANGED <<regs, excess, todo>> /\ oldRegs' = oldRegs /\ DOMAIN proc = Procs
  BY DEF RegLoad, Goto, At, Still, EventInv, EventTyped
<1>2. s \in RegSaves
  BY <1>1, SavingTyped
<1>3. /\ t \in RegSaves /\ t.pc = "regwrite" /\ t.user = s.user /\ t.status = s.status
      /\ t.then = s.then /\ t.dirty = d
  BY <1>2 DEF RegSaves
<1> HIDE DEF t
<1>4. Relies(s, oldRegs[x], regs, n, excess)
  BY DEF SeatInv
<1>5. Relies(t, oldRegs[x], regs, n, excess)
  <2> HIDE DEF n
  <2> QED
    BY <1>1, <1>3, <1>4 DEF Relies
<1>6. JobTyped(t)
  BY <1>3 DEF JobTyped
<1> QED
  BY <1>1, <1>5, <1>6, SeatPass

LEMMA RestTyped == \A x \in Procs : Quiet(Rest(x)) /\ (x = ExpiryJob => JobTyped(Rest(x)))
<1>1. Quiet(Done) /\ Quiet(Idle) /\ JobTyped(Idle)
  BY DEF Done, Idle, Quiet, JobTyped
<1> QED
  BY <1>1, JobApart DEF Rest

LEMMA PromoteSeats ==
    ASSUME EventInv, SeatInv, NEW x \in Procs, Promote(x) PROVE SeatInv'
<1> DEFINE n == Cardinality(Occupied)
           s == proc[x]
           t == SaveReg(Earliest, "pending", "promoted")
<1>1. s.pc = "promote" /\ UNCHANGED <<regs, excess, todo>> /\ DOMAIN proc = Procs
  BY DEF Promote, At, Still, EventInv, EventTyped
<1>2. CASE Waiting = {}
  <2>1. proc' = [proc EXCEPT ![x] = Rest(x)] /\ oldRegs' = [oldRegs EXCEPT ![x] = {}]
    BY <1>2 DEF Promote, Goto
  <2>2. Relies(Rest(x), oldRegs'[x], regs, n, excess)
    BY RestTyped, QuietRelies
  <2> QED
    BY <1>1, <2>1, <2>2, RestTyped, SeatPass
<1>3. CASE Waiting # {}
  <2>1. proc' = [proc EXCEPT ![x] = t] /\ oldRegs' = oldRegs
    BY <1>3 DEF Promote, Goto, SeatInv, RegsTyped
  <2>2. Earliest \in Users /\ regs[Earliest] \in Reg
    BY <1>3, EarliestWaits, HeldIsReg DEF SeatInv, RegsTyped, Waiting, RegStatus
  <2>3. /\ t \in RegSaves /\ t.pc = "regload" /\ t.user = Earliest /\ t.then = "promoted"
    BY <2>2, RegShapes DEF SaveReg, RegStatus
  <2> HIDE DEF t
  <2>4. Relies(s, oldRegs[x], regs, n, excess)
    BY DEF SeatInv
  <2>5. Relies(t, oldRegs[x], regs, n, excess)
    <3> HIDE DEF n
    <3> QED
      BY <1>1, <2>2, <2>3, <2>4 DEF Relies
  <2>6. JobTyped(t)
    BY <2>3 DEF JobTyped
  <2> QED
    BY <1>1, <2>1, <2>5, <2>6, SeatPass
<1> QED
  BY <1>2, <1>3

\* One seat more is taken, or none, or one fewer.
LEMMA SeatsAfter ==
    ASSUME regs \in [Users -> Reg \cup {NoReg}], NEW u \in Users, NEW g,
           regs' = [regs EXCEPT ![u] = g]
    PROVE  LET n == Cardinality(Occupied)
               m == Cardinality(Occupied)'
               Taking == {"pending", "confirmed"}
           IN  /\ n \in Nat /\ m \in Nat /\ m <= n + 1
               /\ g.status \notin Taking \/ regs[u].status \in Taking => m <= n
               /\ g.status \notin Taking /\ regs[u].status \in Taking => m + 1 <= n
<1> DEFINE A == Occupied
           B == Occupied'
           Taking == {"pending", "confirmed"}
<1>1. \A v \in Users : regs'[v] = IF v = u THEN g ELSE regs[v]
  OBVIOUS
<1>2. IsFiniteSet(A)
  BY OccupiedFinite
<1>3. /\ B \subseteq A \cup {u}
      /\ g.status \notin Taking => B = A \ {u}
      /\ u \in A <=> regs[u].status \in Taking
  BY <1>1 DEF Occupied, Has
<1> HIDE DEF A, B, Taking
<1>4. /\ IsFiniteSet(A \cup {u}) /\ Cardinality(A) \in Nat
      /\ Cardinality(A \cup {u}) <= Cardinality(A) + 1
      /\ u \in A => A \cup {u} = A
  <2>1. IsFiniteSet(A \cup {u}) /\ Cardinality(A) \in Nat
    BY <1>2, FS_AddElement, FS_CardinalityType
  <2>2. Cardinality(A \cup {u}) = Cardinality(A) \/ Cardinality(A \cup {u}) = Cardinality(A) + 1
    BY <1>2, FS_AddElement
  <2>3. Cardinality(A \cup {u}) <= Cardinality(A) + 1
    BY <2>1, <2>2
  <2>4. u \in A => A \cup {u} = A
    OBVIOUS
  <2> QED
    BY <2>1, <2>3, <2>4
<1>5. IsFiniteSet(B) /\ Cardinality(B) <= Cardinality(A \cup {u})
  BY <1>3, <1>4, FS_Subset
<1>6. Cardinality(B) \in Nat /\ Cardinality(A \cup {u}) \in Nat
  BY <1>4, <1>5, FS_CardinalityType
<1>7. g.status \notin Taking => Cardinality(B) <= Cardinality(A)
  BY <1>2, <1>3, FS_Subset
<1>8. u \in A => Cardinality(B) <= Cardinality(A)
  BY <1>4, <1>5
<1>9. g.status \notin Taking /\ u \in A => Cardinality(B) + 1 <= Cardinality(A)
  <2>1. u \in A => Cardinality(A \ {u}) = Cardinality(A) - 1
    BY <1>2, FS_RemoveElement
  <2>2. g.status \notin Taking => Cardinality(B) = Cardinality(A \ {u})
    BY <1>3, Zenon
  <2> QED
    BY <1>4, <2>1, <2>2
<1> QED
  BY <1>3, <1>4, <1>5, <1>6, <1>7, <1>8, <1>9 DEF A, B, Taking

LEMMA InsertSeats ==
    ASSUME EventInv, SeatInv, NEW r \in Requests, InsertRegistration(r) PROVE SeatInv'
<1> DEFINE n == Cardinality(Occupied)
           m == Cardinality(Occupied)'
           s == proc[r]
           u == s.user
           late == IF oldRegs[r] # {} THEN 1 ELSE 0
<1>1. /\ s.pc = "insert" /\ proc' = [proc EXCEPT ![r] = Done] /\ DOMAIN proc = Procs
      /\ r \in Procs /\ r # ExpiryJob /\ u \in Users /\ s.full \in BOOLEAN
  BY JobApart DEF InsertRegistration, At, Goto, EventInv, EventTyped, Shape, Procs
<1>2. Quiet(Done)
  BY DEF Quiet, Done
<1>3. CASE regs[u] # NoReg
  <2>1. UNCHANGED <<regs, excess, todo>> /\ oldRegs' = [oldRegs EXCEPT ![r] = {}]
    BY <1>3 DEF InsertRegistration, Forget
  <2>2. Relies(Done, oldRegs'[r], regs, n, excess)
    BY <1>2, QuietRelies
  <2> QED
    BY <1>1, <2>1, <2>2, SeatPass
<1>4. CASE regs[u] = NoReg
  <2> DEFINE g == [status |-> IF s.full THEN "waitlisted" ELSE "pending",
                   nr |-> Cardinality(Registered), stale |-> FALSE]
  <2>1. regs' = [regs EXCEPT ![u] = g] /\ excess' = excess + late /\ Writes(r, u)
    BY <1>4 DEF InsertRegistration
  <2>2. Cardinality(Registered) \in Nat
    <3>1. IsFiniteSet(Registered)
      BY OccupiedFinite, FS_Subset DEF Registered
    <3> QED
      BY <3>1, FS_CardinalityType
  <2>3. g \in Reg /\ g.status = IF s.full THEN "waitlisted" ELSE "pending"
    BY <2>2 DEF Reg, RegStatus
  <2> HIDE DEF g
  <2>4. regs \in [Users -> Reg \cup {NoReg}] /\ excess \in Nat
    BY DEF SeatInv, RegsTyped
  <2>5. /\ n \in Nat /\ m \in Nat /\ m <= n + 1
        /\ g.status \notin {"pending", "confirmed"} => m <= n
    BY <1>1, <2>1, <2>4, SeatsAfter
  <2>6. Relies(s, oldRegs[r], regs, n, excess)
    BY <1>1 DEF SeatInv
  <2>7. ~ s.full /\ oldRegs[r] = {} => n + 1 <= MaxAttendees
    BY <1>1, <2>6 DEF Relies
  <2>8. n <= MaxAttendees + excess
    BY DEF SeatInv, SeatsBounded
  <2> HIDE DEF n, m
  <2>9. m <= MaxAttendees + excess' /\ excess' \in Nat
    <3>1. CASE s.full
      BY <2>1, <2>3, <2>4, <2>5, <2>8, <3>1, RegistrationsAssumption
    <3>2. CASE ~ s.full
      BY <2>1, <2>4, <2>5, <2>7, <2>8, <3>2, RegistrationsAssumption
    <3> QED
      BY <3>1, <3>2
  <2>10. SeatsBounded'
    BY <2>9 DEF SeatsBounded, m
  <2>11. Relies(Done, {}, regs', m, excess')
    BY <1>2, QuietRelies
  <2> QED
    BY <1>1, <2>1, <2>3, <2>9, <2>10, <2>11, SeatWritten DEF m
<1> QED
  BY <1>3, <1>4

LEMMA RegWriteSeats ==
    ASSUME EventInv, SeatInv, NEW x \in Procs, RegWrite(x) PROVE SeatInv'
<1> DEFINE n == Cardinality(Occupied)
           m == Cardinality(Occupied)'
           s == proc[x]
           u == s.user
           o == oldRegs[x]
           more == IF Unsure(x) THEN 1 ELSE 0
           Taking == {"pending", "confirmed"}
           Offer == [pc |-> "promote"]
           t == IF s.then = "promote" THEN Offer ELSE Rest(x)
<1>1. /\ s.pc = "regwrite" /\ excess' = excess + more /\ Writes(x, u)
      /\ regs' = IF s.dirty THEN [regs EXCEPT ![u].status = s.status, ![u].stale = FALSE]
                 ELSE regs
      /\ proc' = [proc EXCEPT ![x] = t] /\ DOMAIN proc = Procs
  BY DEF RegWrite, At, Goto, EventInv, EventTyped
<1>2. s \in RegSaves
  BY <1>1, SavingTyped
<1>3. /\ u \in Users /\ s.status \in RegStatus /\ s.dirty \in BOOLEAN
      /\ s.then \in {"promote", "promoted", "claim", "done"}
  BY <1>2 DEF RegSaves
<1>4. Relies(s, o, regs, n, excess)
  BY DEF SeatInv
<1> HIDE DEF n, m
<1>5. /\ regs[u] \in Reg
      /\ s.then = "promote" =>
            /\ s.status \notin Taking
            /\ u \notin o => s.dirty /\ regs[u].status \in Taking
      /\ s.then = "promoted" /\ o = {} => n + 1 <= MaxAttendees + excess
      /\ s.then = "done" => \/ s.status \notin Taking
                            \/ u \notin o => regs[u].status \in Taking
  BY <1>1, <1>4 DEF Relies
<1>6. \E g \in Reg : /\ regs' = [regs EXCEPT ![u] = g]
                     /\ s.dirty => g.status = s.status
                     /\ ~ s.dirty => g = regs[u]
  <2>1. regs \in [Users -> Reg \cup {NoReg}]
    BY DEF SeatInv, RegsTyped
  <2>2. CASE s.dirty
    <3> DEFINE g == [regs[u] EXCEPT !.status = s.status, !.stale = FALSE]
    <3>1. g \in Reg /\ g.status = s.status
      BY <1>3, <1>5 DEF Reg
    <3>2. regs' = [regs EXCEPT ![u] = g]
      BY <1>1, <1>3, <2>1, <2>2
    <3> HIDE DEF g
    <3> QED
      BY <2>2, <3>1, <3>2
  <2>3. CASE ~ s.dirty
    <3>1. regs' = [regs EXCEPT ![u] = regs[u]]
      BY <1>1, <1>3, <2>1, <2>3
    <3> QED
      BY <1>5, <2>3, <3>1
  <2> QED
    BY <2>2, <2>3
<1>7. PICK g \in Reg : /\ regs' = [regs EXCEPT ![u] = g]
                       /\ s.dirty => g.status = s.status
                       /\ ~ s.dirty => g = regs[u]
  BY <1>6
<1>8. regs \in [Users -> Reg \cup {NoReg}] /\ excess \in Nat
  BY DEF SeatInv, RegsTyped
<1>9. /\ n \in Nat /\ m \in Nat /\ m <= n + 1
      /\ g.status \notin Taking \/ regs[u].status \in Taking => m <= n
      /\ g.status \notin Taking /\ regs[u].status \in Taking => m + 1 <= n
  BY <1>3, <1>7, <1>8, SeatsAfter DEF n, m
<1>10. n <= MaxAttendees + excess
  BY DEF SeatInv, SeatsBounded, n
<1>11. more = IF \/ s.then = "claim"
                 \/ s.then = "promoted" /\ o # {}
                 \/ s.then \in {"promote", "done"} /\ u \in o THEN 1 ELSE 0
  BY <1>3 DEF Unsure
<1> HIDE DEF more, s, u, o, Taking
<1>12. excess' \in Nat /\ more \in {0, 1}
  BY <1>1, <1>8, <1>11
<1>13. m <= MaxAttendees + excess'
  <2>1. CASE s.then = "claim"
    BY <1>1, <1>8, <1>9, <1>10, <1>11, <2>1, RegistrationsAssumption
  <2>2. CASE s.then = "promoted"
    BY <1>1, <1>5, <1>8, <1>9, <1>10, <1>11, <2>2, RegistrationsAssumption
  <2>3. CASE s.then = "promote"
    <3>1. g.status \notin Taking \/ regs[u].status \in Taking
      BY <1>3, <1>5, <1>7, <2>3
    <3> QED
      BY <1>1, <1>8, <1>9, <1>10, <1>12, <3>1, RegistrationsAssumption
  <2>4. CASE s.then = "done"
    <3>1. u \in o \/ g.status \notin Taking \/ regs[u].status \in Taking
      BY <1>3, <1>5, <1>7, <2>4
    <3> QED
      BY <1>1, <1>8, <1>9, <1>10, <1>11, <1>12, <2>4, <3>1, RegistrationsAssumption
  <2> QED
    BY <1>3, <2>1, <2>2, <2>3, <2>4
<1>14. s.then = "promote" => m + 1 <= MaxAttendees + excess'
  <2>1. SUFFICES ASSUME s.then = "promote" PROVE m + 1 <= MaxAttendees + excess'
    OBVIOUS
  <2>2. g.status \notin Taking \/ regs[u].status \in Taking
    BY <1>3, <1>5, <1>7, <2>1
  <2>3. CASE u \in o
    BY <1>1, <1>8, <1>9, <1>10, <1>11, <2>1, <2>2, <2>3, RegistrationsAssumption
  <2>4. CASE u \notin o
    <3>1. g.status \notin Taking /\ regs[u].status \in Taking
      BY <1>5, <1>7, <2>1, <2>4
    <3> QED
      BY <1>1, <1>8, <1>9, <1>10, <1>12, <3>1, RegistrationsAssumption
  <2> QED
    BY <2>3, <2>4
<1>15. SeatsBounded'
  BY <1>13 DEF SeatsBounded, m
<1>16. Relies(t, {}, regs', m, excess') /\ (x = ExpiryJob => JobTyped(t))
  <2>1. CASE s.then = "promote"
    <3>1. t = Offer /\ Offer.pc = "promote"
      BY <2>1
    <3> HIDE DEF t, Offer
    <3> QED
      BY <1>14, <2>1, <3>1 DEF Relies, JobTyped
  <2>2. CASE s.then # "promote"
    <3>1. t = Rest(x)
      BY <2>2
    <3> HIDE DEF t
    <3> QED
      BY <3>1, RestTyped, QuietRelies
  <2> QED
    BY <2>1, <2>2
<1> HIDE DEF t
<1> QED
  BY <1>1, <1>3, <1>7, <1>12, <1>15, <1>16, SeatWritten DEF m

LEMMA HoldSeats ==
    ASSUME EventInv, SeatInv, NEW u \in Users, ReadHolds \/ ExpireHold(u) PROVE SeatInv'
<1> DEFINE n == Cardinality(Occupied)
           x == ExpiryJob
           o == IF todo[u] THEN {u} ELSE {}
           t == SaveReg(u, "waitlisted", "promote")
<1>1. x \in Procs /\ DOMAIN proc = Procs /\ UNCHANGED <<regs, excess>>
  BY JobApart DEF EventInv, EventTyped, ReadHolds, ExpireHold, Still
<1>2. oldRegs \in [Procs -> SUBSET Users] /\ \A y \in Procs : Relies(proc[y], oldRegs[y], regs, n, excess)
  BY DEF SeatInv, RegsTyped
<1>3. CASE ReadHolds
  <2>1. /\ proc' = [proc EXCEPT ![x] = proc[x]] /\ oldRegs' = oldRegs
        /\ todo' = [v \in StaleHolds |-> FALSE]
    BY <1>1, <1>3 DEF ReadHolds, EventInv, EventTyped
  <2>2. /\ DOMAIN todo' \subseteq Users
        /\ \A v \in DOMAIN todo' : /\ todo'[v] \in BOOLEAN
                                   /\ regs[v] \in Reg
                                   /\ ~ todo'[v] => regs[v].status = "pending"
    <3>1. \A v \in StaleHolds : regs[v] \in Reg /\ regs[v].status \in {"pending"}
      BY HeldIsReg DEF StaleHolds, RegStatus
    <3> QED
      BY <2>1, <3>1 DEF StaleHolds
  <2>3. JobTyped(proc[x])
    BY DEF SeatInv, RegsTyped, JobTyped
  <2> HIDE DEF n, x
  <2>4. Relies(proc[x], oldRegs'[x], regs, n, excess)
    BY <1>1, <1>2, <2>1
  <2> QED
    BY <1>1, <1>2, <2>1, <2>2, <2>3, <2>4, SeatMove DEF n
<1>4. CASE ExpireHold(u)
  <2>1. /\ proc' = [proc EXCEPT ![x] = t] /\ u \in DOMAIN todo
        /\ todo' = [v \in DOMAIN todo \ {u} |-> todo[v]]
        /\ oldRegs' = [oldRegs EXCEPT ![x] = o]
    BY <1>4 DEF ExpireHold, Goto
  <2>2. regs[u] \in Reg /\ (~ todo[u] => regs[u].status = "pending") /\ o \in SUBSET Users
    BY <2>1 DEF SeatInv
  <2>3. u \notin o => regs[u].status \in {"pending", "confirmed"}
    BY <2>2
  <2>4. JobTyped(t)
    BY RegShapes DEF JobTyped, RegStatus
  <2>5. /\ DOMAIN todo' \subseteq Users
        /\ \A v \in DOMAIN todo' : /\ todo'[v] \in BOOLEAN
                                   /\ regs[v] \in Reg
                                   /\ ~ todo'[v] => regs[v].status = "pending"
    BY <2>1 DEF SeatInv, RegsTyped
  <2> HIDE DEF n, o
  <2>6. Relies(t, o, regs, n, excess)
    BY <2>2, <2>3, TakenRelies DEF RegStatus
  <2>7. /\ oldRegs' \in [Procs -> SUBSET Users] /\ oldRegs'[x] = o
        /\ \A y \in Procs \ {x} : oldRegs'[y] = oldRegs[y]
    BY <1>1, <1>2, <2>1, <2>2
  <2> HIDE DEF t, x
  <2> QED
    BY <1>1, <2>1, <2>4, <2>5, <2>6, <2>7, SeatMove DEF n
<1> QED
  BY <1>3, <1>4

LEMMA AgeSeats ==
    ASSUME EventInv, SeatInv, NEW u \in Users, Age(u) PROVE SeatInv'
<1> DEFINE n == Cardinality(Occupied)
           g == [regs[u] EXCEPT !.stale = TRUE]
<1>1. /\ regs' = [regs EXCEPT ![u].stale = TRUE] /\ proc' = proc /\ todo' = todo
      /\ oldRegs' = oldRegs /\ excess' = excess
  BY DEF Age
<1>2. regs[u] \in Reg /\ regs \in [Users -> Reg \cup {NoReg}]
  BY HeldIsReg DEF Age, RegStatus, SeatInv, RegsTyped
<1>3. g \in Reg /\ g.status = regs[u].status /\ regs' = [regs EXCEPT ![u] = g]
  BY <1>1, <1>2 DEF Reg
<1>4. /\ regs' \in [Users -> Reg \cup {NoReg}]
      /\ \A v \in Users : /\ regs[v] \in Reg => regs'[v] \in Reg
                          /\ regs'[v].status = regs[v].status
  BY <1>2, <1>3
<1>5. Occupied' = Occupied
  BY <1>4 DEF Occupied, Has
<1>6. RegsTyped'
  BY <1>1, <1>4 DEF SeatInv, RegsTyped
<1>7. \A v \in DOMAIN todo' : regs'[v] \in Reg /\ (~ todo'[v] => regs'[v].status = "pending")
  BY <1>1, <1>4 DEF SeatInv, RegsTyped
<1>8. ASSUME NEW x \in Procs
      PROVE  Relies(proc'[x], oldRegs'[x], regs', Cardinality(Occupied)', excess')
  <2>1. Relies(proc[x], oldRegs[x], regs, n, excess)
    BY DEF SeatInv
  <2>2. Cardinality(Occupied)' = n
    BY <1>5
  <2> HIDE DEF n
  <2>3. Relies(proc[x], oldRegs[x], regs', n, excess)
    BY <1>4, <2>1 DEF Relies
  <2> QED
    BY <1>1, <2>2, <2>3
<1>9. SeatsBounded'
  BY <1>1, <1>5 DEF SeatInv, SeatsBounded
<1> QED
  BY <1>6, <1>7, <1>8, <1>9 DEF SeatInv

LEMMA RestartSeats ==
    ASSUME SeatInv, Restart PROVE SeatInv'
<1>1. /\ regs' = regs /\ excess' = excess /\ todo' = << >>
      /\ oldRegs' = [x \in Procs |-> {}]
      /\ proc' = [x \in Procs |-> IF At(x, "new") THEN proc[x] ELSE Rest(x)]
  BY DEF Restart, Crash
<1>2. Occupied' = Occupied
  BY <1>1 DEF Occupied, Has
<1>3. \A x \in Procs : Quiet(proc'[x])
  BY <1>1, RestTyped DEF At, Quiet
<1>4. JobTyped(proc'[ExpiryJob])
  <2>1. ~ At(ExpiryJob, "new")
    BY DEF SeatInv, RegsTyped, At
  <2> QED
    BY <1>1, <2>1, JobApart, RestTyped
<1>5. DOMAIN todo' = {}
  BY <1>1
<1>6. RegsTyped'
  BY <1>1, <1>4, <1>5 DEF SeatInv, RegsTyped, JobTyped
<1>7. \A x \in Procs : Relies(proc'[x], oldRegs'[x], regs', Cardinality(Occupied)', excess')
  BY <1>3, QuietRelies
<1>8. SeatsBounded'
  BY <1>1, <1>2 DEF SeatInv, SeatsBounded
<1> QED
  BY <1>5, <1>6, <1>7, <1>8 DEF SeatInv

LEMMA SeatsInitially ==
    ASSUME Init PROVE EventInv /\ SeatInv
<1>1. PICK organizers \in SUBSET Requests, k \in 0 .. NumUsers :
        /\ EventInit(organizers)
        /\ regs = [u \in Users |->
              IF u >= k THEN NoReg
              ELSE [status |-> IF u < MaxAttendees THEN "pending" ELSE "waitlisted",
                    nr |-> u, stale |-> FALSE]]
  BY DEF Init
<1>2. EventInv
  BY <1>1, EventInitially
<1>3. /\ todo = << >> /\ oldRegs = [x \in Procs |-> {}] /\ excess = 0
      /\ proc = [x \in Procs |-> IF x \in Requests
                   THEN New(IF x \in organizers THEN "organizer" ELSE "attendee") ELSE Idle]
  BY <1>1 DEF Init, EventInit
<1>4. \A u \in Users : u \in Nat
  BY RegistrationsAssumption DEF Users
<1>5. regs \in [Users -> Reg \cup {NoReg}]
  BY <1>1, <1>4 DEF Reg, RegStatus
<1>6. \A x \in Procs : Quiet(proc[x])
  BY <1>3 DEF New, Idle, Quiet
<1>7. proc[ExpiryJob].pc = "idle"
  BY <1>3, JobApart DEF Idle
<1>8. DOMAIN todo = {}
  BY <1>3
<1>9. RegsTyped
  BY <1>3, <1>5, <1>7, <1>8 DEF RegsTyped
<1>10. \A x \in Procs : Relies(proc[x], oldRegs[x], regs, Cardinality(Occupied), excess)
  BY <1>6, QuietRelies
<1>11. SeatsBounded
  <2>1. Occupied \subseteq 0 .. MaxAttendees - 1
    <3>1. ASSUME NEW u \in Occupied PROVE u < MaxAttendees /\ u \in Nat
      <4>1. u \in Users /\ regs[u].status \in {"pending", "confirmed"}
        BY DEF Occupied, Has
      <4>2. ~ (u >= k)
        BY <1>1, <4>1 DEF NoReg
      <4>3. regs[u].status = IF u < MaxAttendees THEN "pending" ELSE "waitlisted"
        BY <1>1, <4>1, <4>2
      <4> QED
        BY <1>4, <4>1, <4>3
    <3> QED
      BY <3>1, RegistrationsAssumption
  <2> DEFINE S == 0 .. MaxAttendees - 1
  <2>2. IsFiniteSet(S) /\ Cardinality(S) = MaxAttendees
    BY RegistrationsAssumption, FS_Interval
  <2> HIDE DEF S
  <2>3. Cardinality(Occupied) <= Cardinality(S)
    BY <2>1, <2>2, FS_Subset DEF S
  <2> QED
    BY <1>3, <2>2, <2>3, OccupiedFinite, RegistrationsAssumption DEF SeatsBounded
<1> QED
  BY <1>2, <1>8, <1>9, <1>10, <1>11 DEF SeatInv

LEMMA SeatNext ==
    ASSUME EventInv, SeatInv, [Next]_vars PROVE SeatInv'
<1>1. ASSUME NEW r \in Requests, RegistrationStep(r) PROVE SeatInv'
  <2>1. r \in Procs
    BY DEF Procs
  <2> QED
    BY <1>1, <2>1, AttendeeSeats, CountStep, InsertSeats, AskedSeats, RegLoadSeats,
       RegWriteSeats, PromoteSeats DEF RegistrationStep
<1>2. ASSUME JobStep PROVE SeatInv'
  <2>1. CASE ReadHolds
    <3>1. \E u \in Users : TRUE
      BY <2>1 DEF ReadHolds, StaleHolds
    <3> QED
      BY <2>1, <3>1, HoldSeats
  <2> QED
    BY <1>2, <2>1, HoldSeats, RegLoadSeats, RegWriteSeats, PromoteSeats, JobApart DEF JobStep
<1>3. CASE UNCHANGED regVars /\ proc' = proc
  <2>1. Occupied' = Occupied /\ regs' = regs /\ todo' = todo /\ oldRegs' = oldRegs
        /\ excess' = excess
    BY <1>3 DEF regVars, Occupied, Has
  <2> QED
    BY <1>3, <2>1 DEF SeatInv, RegsTyped, SeatsBounded
<1>4. CASE UNCHANGED vars
  BY <1>3, <1>4 DEF vars, eventVars
<1>5. CASE CacheExpires /\ UNCHANGED regVars
  BY <1>3, <1>5 DEF CacheExpires
<1> QED
  BY <1>1, <1>2, <1>4, <1>5, EventSeats, AgeSeats, RestartSeats DEF Next

-----------------------------------------------------------------------------
(* What holds of every event and its registrations.                        *)

\* The inductive invariant: an event, with what each request may hold of it and
\* each saver of registrations relies on.
THEOREM EventInvariant == Spec => [](EventInv /\ SeatInv)
<1>1. Init => EventInv /\ SeatInv
  BY SeatsInitially
<1>2. EventInv /\ SeatInv /\ [Next]_vars => (EventInv /\ SeatInv)'
  <2>1. SeatInv => RegsTyped
    BY DEF SeatInv
  <2> QED
    BY <2>1, EventNext, SeatNext
<1> QED
  BY <1>1, <1>2, PTL DEF Spec

\* What getEventById answers from Redis is the row, except between a handler's
\* save and its invalidation, or after a write or a fill that forgot about it.
THEOREM RedisStaysCurrent == Spec => []RedisIsCurrent
<1>1. EventInv /\ SeatInv => RedisIsCurrent
  BY DEF EventInv
<1> QED
  BY <1>1, EventInvariant, PTL

\* An event whose cancel-event job is queued stays cancelled, or is deleted: no
\* handler of EventsService takes it back, unless it saves an outdated copy or
\* is the series update that does not ask.
THEOREM RefundedStayCancelled == Spec => []RefundedEventsStayCancelled
<1>1. EventInv /\ SeatInv => RefundedEventsStayCancelled
  BY DEF EventInv, RefundsSound, RefundedEventsStayCancelled
<1> QED
  BY <1>1, EventInvariant, PTL

\* createEscrow and the other writers of the event lose the secrets of no more
\* funded accounts than there were outdated saves, deletions, unanswered
\* submissions and restarts.
THEOREM AccountsRarelyLost == Spec => []LostAccountsBounded
<1>1. EventInv /\ SeatInv => LostAccountsBounded
  <2>1. ASSUME EventInv PROVE LostAccountsBounded
    <3>1. Cardinality(Lost) \in Nat /\ Hidden(secret, row) \in {0, 1}
      BY <2>1, LostIsFinite
    <3>2. /\ Cardinality(Lost) + Hidden(secret, row) <= mishaps.lost + mishaps.dropped
          /\ mishaps.lost \in Nat /\ mishaps.dropped \in Nat
      BY <2>1 DEF EventInv, AccountsSound, EventTyped, Mishaps
    <3>3. Cardinality(Lost) <= mishaps.lost + mishaps.dropped
      BY <3>1, <3>2
    <3> QED
      BY <3>3 DEF LostAccountsBounded, Lost
  <2> QED
    BY <2>1
<1> QED
  BY <1>1, EventInvariant, PTL

\* The registrations that hold a seat are at most the seats there are, and one
\* for each time confirmWaitlist, or somebody on rows written since it read
\* them, took one.
THEOREM SeatsAreBounded == Spec => []SeatsBounded
<1>1. EventInv /\ SeatInv => SeatsBounded
  BY DEF SeatInv
<1> QED
  BY <1>1, EventInvariant, PTL
=============================================================================
