----------------------- MODULE TicketLifecycle_proofs -----------------------
(***************************************************************************)
(* What TicketLifecycle guarantees for any number of users, tickets, gifts *)
(* and requests.  The inductive invariant adds to the properties what a    *)
(* suspended handler holds: as long as nobody else has written the ticket, *)
(* its copy is the row but for the columns the handler means to change.    *)
(* Once somebody has, nothing is known of the copy, and its save is        *)
(* counted as lost.                                                        *)
(***************************************************************************)
EXTENDS TicketLifecycle, TLAPS

Columns == {"owner", "status", "listed", "last"}
GiftStatus == InFlight \cup {"delivered", "unwrapped", "cancelled"}
MaybeDate == Dates \cup {Never}

\* Where a process can be, by what it holds there.
SavingTask ==
    [pc : {"load", "write"}, ticket : Tickets, entity : Ticket,
     dirty : SUBSET Columns,
     then : {"admit", "list", "sell", "record", "deliver", "done"},
     gift : Gifts \cup {NoGift}, date : MaybeDate, outer : Ticket \cup {NoGift}]
CheckInTask  == [pc : {"checkin"}, ticket : Tickets, owner : Users]
TransferTask == [pc : {"transfer"}, gift : Gifts, date : MaybeDate]
RereadTask   == [pc : {"reread"}, ticket : Tickets, outer : Ticket,
                 gift : Gifts, date : MaybeDate]
BatchTask    == [pc : {"batch"}, ticket : Tickets, to : Users]
WrapTask     == [pc : {"seek", "insert"}, ticket : Tickets, from : Users,
                 to : Users, date : MaybeDate]
GiftTask     == [pc : {"giftload", "giftwrite"}, gift : Gifts,
                 status : GiftStatus, date : MaybeDate,
                 dirty : SUBSET {"status", "date", "ticket", "from", "to"}]
LoadingTask  == [pc : {"batchload"},
                 batch : UNION {[B -> Ticket] : B \in SUBSET Tickets}]
WritingTask  == [pc : {"batchwrite"},
                 batch : UNION {[B -> Ticket] : B \in SUBSET Tickets},
                 dirty : UNION {[B -> SUBSET Columns] : B \in SUBSET Tickets}]
ExpiryTask   == LoadingTask \cup {s \in WritingTask : DOMAIN s.dirty = DOMAIN s.batch}

Task == Resting \cup SavingTask \cup CheckInTask \cup TransferTask \cup RereadTask
          \cup BatchTask \cup WrapTask \cup GiftTask \cup ExpiryTask

Given(g, gs) == gs[g] \in Gift

\* What a save that is not late knows of the row.
SavesTrueCopy(s, row) ==
    /\ s.then = "admit" => row.status = "valid"
    /\ s.then # "admit" => s.entity.status = row.status
    /\ s.then = "list" => ~ row.listed
    /\ s.then = "sell" => row.listed
    /\ s.then # "list" => (s.entity.listed => row.listed)
    /\ s.then = "record" => /\ s.entity.listed = row.listed
                            /\ s.outer.listed = row.listed
                            /\ s.outer.status = row.status
    /\ s.pc = "write" => /\ s.then = "admit" => "status" \in s.dirty
                         /\ s.then = "sell" => "listed" \in s.dirty

SavingSound(s, o, ts, gs, hs) ==
    /\ s.then = "admit" => s.entity.status = "used"
    /\ s.then = "sell" => ~ s.entity.listed
    /\ s.then \in {"record", "deliver"} =>
          s.gift \in Gifts /\ Given(s.gift, gs) /\ gs[s.gift].ticket = s.ticket
    /\ s.then = "record" => s.outer \in Ticket /\ s.outer.owner = gs[s.gift].to
    /\ s.then = "deliver" => s.entity.owner = gs[s.gift].to
    /\ s.pc = "write" /\ "owner" \notin s.dirty =>
          s.entity.owner \in hs[s.ticket].owners
    /\ s.ticket \notin o => SavesTrueCopy(s, ts[s.ticket])

\* What a process at s may rely on although others have run since it looked,
\* when the tickets o were written meanwhile.
Sound(s, o, ts, gs, hs) ==
    /\ s \in Task
    /\ s \in SavingTask => SavingSound(s, o, ts, gs, hs)
    /\ s \in TransferTask => Given(s.gift, gs)
    /\ s \in RereadTask =>
          /\ Given(s.gift, gs) /\ gs[s.gift].ticket = s.ticket
          /\ s.outer.owner = gs[s.gift].to
          /\ s.ticket \notin o => /\ s.outer.listed = ts[s.ticket].listed
                                  /\ s.outer.status = ts[s.ticket].status
    /\ s \in GiftTask =>
          /\ Given(s.gift, gs)
          /\ s.status \in {"delivered", "unwrapped"} =>
                gs[s.gift].to \in hs[gs[s.gift].ticket].owners
    /\ s \in ExpiryTask =>
          \A t \in DOMAIN s.batch :
              /\ s.batch[t].status = "expired"
              /\ t \notin o => s.batch[t].listed = ts[t].listed

ProcsSound == \A x \in Procs : Sound(proc[x], old[x], tickets, gifts, history)
OwnersRecorded == \A t \in Tickets : tickets[t].owner \in history[t].owners
QueueGiven == \A e \in todo : Given(e.gift, gifts)

Inv ==
    /\ TicketsTypeOK
    /\ ProcsSound
    /\ OwnersRecorded
    /\ QueueGiven
    /\ AdmissionsBounded
    /\ SalesBounded
    /\ DeliveredGiftsArrived

-----------------------------------------------------------------------------
(* The places a process can be are told apart by pc.                       *)

LEMMA PcOf ==
    ASSUME NEW s
    PROVE  /\ s \in Resting => s.pc \in {"new", "done", "idle"}
           /\ s \in SavingTask => s.pc \in {"load", "write"}
           /\ s \in CheckInTask => s.pc = "checkin"
           /\ s \in TransferTask => s.pc = "transfer"
           /\ s \in RereadTask => s.pc = "reread"
           /\ s \in BatchTask => s.pc = "batch"
           /\ s \in WrapTask => s.pc \in {"seek", "insert"}
           /\ s \in GiftTask => s.pc \in {"giftload", "giftwrite"}
           /\ s \in LoadingTask => s.pc = "batchload"
           /\ s \in WritingTask => s.pc = "batchwrite"
<1>1. s \in Resting => s.pc \in {"new", "done", "idle"}
  BY DEF Resting, New, Done, Idle
<1>2. s \in SavingTask => s.pc \in {"load", "write"}
  BY DEF SavingTask
<1>3. s \in CheckInTask => s.pc = "checkin"
  BY DEF CheckInTask
<1>4. s \in TransferTask => s.pc = "transfer"
  BY DEF TransferTask
<1>5. s \in RereadTask => s.pc = "reread"
  BY DEF RereadTask
<1>6. s \in BatchTask => s.pc = "batch"
  BY DEF BatchTask
<1>7. s \in WrapTask => s.pc \in {"seek", "insert"}
  BY DEF WrapTask
<1>8. s \in GiftTask => s.pc \in {"giftload", "giftwrite"}
  BY DEF GiftTask
<1>9. s \in LoadingTask => s.pc = "batchload"
  BY DEF LoadingTask
<1>10. s \in WritingTask => s.pc = "batchwrite"
  BY DEF WritingTask
<1> QED
  BY <1>1, <1>2, <1>3, <1>4, <1>5, <1>6, <1>7, <1>8, <1>9, <1>10

\* Steps whose task is of a kind need no more than what Sound says of that kind.
LEMMA RestingSound ==
    ASSUME NEW s \in Resting, NEW o, NEW ts, NEW gs, NEW hs
    PROVE  Sound(s, o, ts, gs, hs)
BY PcOf DEF Sound, Task, ExpiryTask

LEMMA OfSaving ==
    ASSUME NEW s \in SavingTask, NEW o, NEW ts, NEW gs, NEW hs
    PROVE  Sound(s, o, ts, gs, hs) <=> SavingSound(s, o, ts, gs, hs)
BY PcOf DEF Sound, Task, ExpiryTask

LEMMA PassiveSound ==
    ASSUME NEW s \in CheckInTask \cup BatchTask \cup WrapTask, NEW o, NEW ts, NEW gs, NEW hs
    PROVE  Sound(s, o, ts, gs, hs)
BY PcOf DEF Sound, Task, ExpiryTask

-----------------------------------------------------------------------------
(* What the steps of others leave as it was.                               *)

\* A step that writes the tickets S at most, and keeps what a gift is about.
Onward(S) ==
    /\ \A t \in Tickets \ S : tickets'[t] = tickets[t]
    /\ \A t \in Tickets : history[t].owners \subseteq history'[t].owners
    /\ \A g \in Gifts : Given(g, gifts) =>
          /\ Given(g, gifts')
          /\ gifts'[g].ticket = gifts[g].ticket
          /\ gifts'[g].to = gifts[g].to

LEMMA SoundPersists ==
    ASSUME NEW S, Onward(S), NEW s, NEW o, NEW p, Sound(s, o, tickets, gifts, history),
           s \in Resting \/ o \cup S \subseteq p
    PROVE  Sound(s, p, tickets', gifts', history')
<1>1. CASE s \in Resting
  BY <1>1, PcOf DEF Sound, Task, ExpiryTask
<1>2. ASSUME s \notin Resting
      PROVE  Sound(s, p, tickets', gifts', history')
  <2>1. o \cup S \subseteq p
    BY <1>2
  <2>2. s \in SavingTask => SavingSound(s, p, tickets', gifts', history')
    <3> SUFFICES ASSUME s \in SavingTask PROVE SavingSound(s, p, tickets', gifts', history')
      OBVIOUS
    <3>1. SavingSound(s, o, tickets, gifts, history) /\ s.ticket \in Tickets
      BY DEF Sound, SavingTask
    <3>2. s.ticket \notin p => SavesTrueCopy(s, tickets'[s.ticket])
      BY <2>1, <3>1 DEF SavingSound, Onward, SavesTrueCopy
    <3> QED
      BY <3>1, <3>2 DEF SavingSound, Onward
  <2>3. s \in TransferTask => Given(s.gift, gifts')
    BY DEF Sound, Onward, TransferTask
  <2>4. s \in RereadTask =>
          /\ Given(s.gift, gifts') /\ gifts'[s.gift].ticket = s.ticket
          /\ s.outer.owner = gifts'[s.gift].to
          /\ s.ticket \notin p =>
                /\ s.outer.listed = tickets'[s.ticket].listed
                /\ s.outer.status = tickets'[s.ticket].status
    BY <2>1 DEF Sound, Onward, RereadTask
  <2>5. s \in GiftTask =>
          /\ Given(s.gift, gifts')
          /\ s.status \in {"delivered", "unwrapped"} =>
                gifts'[s.gift].to \in history'[gifts'[s.gift].ticket].owners
    <3> SUFFICES ASSUME s \in GiftTask
                 PROVE  /\ Given(s.gift, gifts')
                        /\ s.status \in {"delivered", "unwrapped"} =>
                             gifts'[s.gift].to \in history'[gifts'[s.gift].ticket].owners
      OBVIOUS
    <3>1. s.gift \in Gifts /\ Given(s.gift, gifts) /\ gifts[s.gift].ticket \in Tickets
      BY DEF Sound, GiftTask, Given, Gift
    <3> QED
      BY <3>1 DEF Sound, Onward
  <2>6. s \in ExpiryTask =>
          \A t \in DOMAIN s.batch :
              /\ s.batch[t].status = "expired"
              /\ t \notin p => s.batch[t].listed = tickets'[t].listed
    <3>1. s \in ExpiryTask => DOMAIN s.batch \subseteq Tickets
      BY DEF ExpiryTask, LoadingTask, WritingTask
    <3> QED
      BY <2>1, <3>1 DEF Sound, Onward
  <2> QED
    BY <2>2, <2>3, <2>4, <2>5, <2>6 DEF Sound
<1> QED
  BY <1>1, <1>2

\* A process that goes on at n, beside the others.
LEMMA Advance ==
    ASSUME Inv, NEW x \in Procs, NEW n, Goto(x, n), NEW S, Onward(S),
           Sound(n, old'[x], tickets', gifts', history'),
           \A y \in Procs \ {x} : proc[y] \in Resting \/ old[y] \cup S \subseteq old'[y]
    PROVE  DOMAIN proc' = Procs /\ ProcsSound'
<1>1. DOMAIN proc = Procs
  BY DEF Inv, TicketsTypeOK
<1>2. DOMAIN proc' = Procs /\ proc'[x] = n
  BY <1>1 DEF Goto
<1>3. ASSUME NEW y \in Procs \ {x}
      PROVE  Sound(proc[y], old'[y], tickets', gifts', history')
  BY <1>3, SoundPersists DEF Inv, ProcsSound
<1>4. \A y \in Procs \ {x} : proc'[y] = proc[y]
  BY <1>1 DEF Goto
<1> QED
  BY <1>2, <1>3, <1>4 DEF ProcsSound

\* A handler that reads and goes on disturbs nothing.
LEMMA ReadStep ==
    ASSUME Inv, OnlyReads, NEW x \in Procs, NEW n, Goto(x, n),
           old' = old \/ old' = [old EXCEPT ![x] = {}],
           Sound(n, old'[x], tickets, gifts, history),
           todo' \subseteq todo
    PROVE  Inv'
<1> USE DEF OnlyReads
<1>1. old \in [Procs -> SUBSET Tickets] /\ old' \in [Procs -> SUBSET Tickets]
  BY DEF Inv, TicketsTypeOK
<1>2. \A y \in Procs \ {x} : old'[y] = old[y]
  BY <1>1
<1>3. Onward({})
  BY DEF Onward, Given
<1>4. Sound(n, old'[x], tickets', gifts', history')
  BY DEF Sound, SavingSound, SavesTrueCopy, Given
<1>5. DOMAIN proc' = Procs /\ ProcsSound'
  BY <1>2, <1>3, <1>4, Advance
<1>6. TicketsTypeOK' /\ QueueGiven'
  BY <1>1, <1>5 DEF Inv, TicketsTypeOK, QueueGiven, Given
<1>7. OwnersRecorded' /\ AdmissionsBounded' /\ SalesBounded' /\ DeliveredGiftsArrived'
  BY DEF Inv, OwnersRecorded, AdmissionsBounded, SalesBounded, DeliveredGiftsArrived
<1> QED
  BY <1>5, <1>6, <1>7 DEF Inv

-----------------------------------------------------------------------------
(* Handlers that read and decide.                                          *)

LEMMA SaveShape ==
    ASSUME NEW t \in Tickets, NEW e \in Ticket,
           NEW then \in {"admit", "list", "sell", "record", "deliver", "done"}
    PROVE  LET s == Save(t, e, then)
           IN  /\ s \in SavingTask
               /\ s.pc = "load" /\ s.ticket = t /\ s.entity = e /\ s.then = then
BY DEF Save, SavingTask, MaybeDate

\* A copy just taken is true.
LEMMA SaveSound ==
    ASSUME NEW t \in Tickets, NEW e \in Ticket,
           NEW then \in {"admit", "list", "sell", "done"}, NEW o,
           then = "admit" => tickets[t].status = "valid" /\ e.status = "used",
           then # "admit" => e.status = tickets[t].status,
           then = "list" => ~ tickets[t].listed,
           then # "list" => (e.listed => tickets[t].listed),
           then = "sell" => tickets[t].listed /\ ~ e.listed
    PROVE  Sound(Save(t, e, then), o, tickets, gifts, history)
<1> DEFINE s == Save(t, e, then)
<1>1. s \in SavingTask /\ s.pc = "load" /\ s.ticket = t /\ s.entity = e /\ s.then = then
  BY SaveShape
<1> HIDE DEF s
<1>2. SavingSound(s, o, tickets, gifts, history)
  BY <1>1 DEF SavingSound, SavesTrueCopy
<1> QED
  BY <1>1, <1>2, OfSaving DEF s

LEMMA RequestsAreProcs == Requests \subseteq Procs /\ GiftJob \in Procs /\ ExpiryJob \in Procs
BY DEF Procs

LEMMA RestResting == \A x : Rest(x) \in Resting
BY DEF Rest, Resting

LEMMA FinishStep ==
    ASSUME Inv, OnlyReads, NEW x \in Procs, Finish(x), todo' = todo
    PROVE  Inv'
BY ReadStep, RestResting, RestingSound DEF Finish

LEMMA ScanStep ==
    ASSUME Inv, NEW r \in Requests, NEW t \in Tickets,
           \/ VerifyTicket(r, t) \/ ReadForCheckIn(r, t)
           \/ ListForResale(r, t) \/ CancelListing(r, t) \/ ConfirmTransfer(r, t)
           \/ \E u \in Users : BuyResale(r, t, u) \/ ValidateBatch(r, t, u)
    PROVE  Inv'
<1> DEFINE row == tickets[t]
<1>1. row \in Ticket /\ r \in Procs
  BY RequestsAreProcs DEF Inv, TicketsTypeOK
<1> HIDE DEF row
<1>2. ASSUME VerifyTicket(r, t) PROVE Inv'
  <2> DEFINE e == [row EXCEPT !.status = "used"]
  <2>1. e \in Ticket /\ e.status = "used" /\ e.listed = row.listed
    BY <1>1 DEF Ticket
  <2>2. Sound(Save(t, e, "admit"), old'[r], tickets, gifts, history)
    BY <1>2, <2>1, SaveSound DEF VerifyTicket, row
  <2> QED
    BY <1>1, <1>2, <2>2, ReadStep DEF VerifyTicket, row
<1>3. ASSUME ReadForCheckIn(r, t) PROVE Inv'
  <2> DEFINE n == [pc |-> "checkin", ticket |-> t, owner |-> row.owner]
  <2>1. n \in CheckInTask
    BY <1>1 DEF Ticket, CheckInTask
  <2> QED
    BY <1>1, <1>3, <2>1, PassiveSound, ReadStep DEF ReadForCheckIn, row
<1>4. ASSUME ListForResale(r, t) PROVE Inv'
  <2> DEFINE e == [row EXCEPT !.listed = TRUE]
  <2>1. e \in Ticket /\ e.status = row.status
    BY <1>1 DEF Ticket
  <2>2. Sound(Save(t, e, "list"), old'[r], tickets, gifts, history)
    BY <1>4, <2>1, SaveSound DEF ListForResale, row
  <2> QED
    BY <1>1, <1>4, <2>2, ReadStep DEF ListForResale, row
<1>5. ASSUME CancelListing(r, t) PROVE Inv'
  <2> DEFINE e == [row EXCEPT !.listed = FALSE]
  <2>1. e \in Ticket /\ e.status = row.status /\ ~ e.listed
    BY <1>1 DEF Ticket
  <2>2. Sound(Save(t, e, "done"), old'[r], tickets, gifts, history)
    BY <1>5, <2>1, SaveSound DEF CancelListing, row
  <2> QED
    BY <1>1, <1>5, <2>2, ReadStep DEF CancelListing, row
<1>6. ASSUME ConfirmTransfer(r, t) PROVE Inv'
  <2> DEFINE e == [row EXCEPT !.owner = row.last]
  <2>1. e \in Ticket /\ e.status = row.status /\ e.listed = row.listed
    BY <1>1, <1>6 DEF Ticket, ConfirmTransfer, row
  <2>2. Sound(Save(t, e, "done"), old'[r], tickets, gifts, history)
    BY <1>6, <2>1, SaveSound DEF ConfirmTransfer, row
  <2> QED
    BY <1>1, <1>6, <2>2, ReadStep DEF ConfirmTransfer, row
<1>7. ASSUME NEW u \in Users, BuyResale(r, t, u) PROVE Inv'
  <2> DEFINE e == [row EXCEPT !.owner = u, !.listed = FALSE]
  <2>1. e \in Ticket /\ e.status = row.status /\ ~ e.listed
    BY <1>1 DEF Ticket
  <2>2. Sound(Save(t, e, "sell"), old'[r], tickets, gifts, history)
    BY <1>7, <2>1, SaveSound DEF BuyResale, row
  <2> QED
    BY <1>1, <1>7, <2>2, ReadStep DEF BuyResale, row
<1>8. ASSUME NEW u \in Users, ValidateBatch(r, t, u) PROVE Inv'
  <2> DEFINE n == [pc |-> "batch", ticket |-> t, to |-> u]
  <2>1. n \in BatchTask
    BY DEF BatchTask
  <2> QED
    BY <1>1, <1>8, <2>1, PassiveSound, ReadStep DEF ValidateBatch
<1> QED
  BY <1>2, <1>3, <1>4, <1>5, <1>6, <1>7, <1>8

\* What a process is at, from its pc.
LEMMA AtPc ==
    ASSUME Inv, NEW x \in Procs
    PROVE  LET s == proc[x]
           IN  /\ Sound(s, old[x], tickets, gifts, history)
               /\ s.pc \in {"load", "write"} => s \in SavingTask
               /\ s.pc = "checkin" => s \in CheckInTask
               /\ s.pc = "transfer" => s \in TransferTask
               /\ s.pc = "reread" => s \in RereadTask
               /\ s.pc = "batch" => s \in BatchTask
               /\ s.pc \in {"seek", "insert"} => s \in WrapTask
               /\ s.pc \in {"giftload", "giftwrite"} => s \in GiftTask
               /\ s.pc = "batchload" => s \in ExpiryTask /\ s \in LoadingTask
               /\ s.pc = "batchwrite" => s \in ExpiryTask /\ s \in WritingTask
<1> DEFINE s == proc[x]
<1>1. Sound(s, old[x], tickets, gifts, history)
  BY DEF Inv, ProcsSound
<1>2. s \in Task
  BY <1>1 DEF Sound
<1> HIDE DEF s
<1>3. \/ s \in Resting \/ s \in SavingTask \/ s \in CheckInTask \/ s \in TransferTask
      \/ s \in RereadTask \/ s \in BatchTask \/ s \in WrapTask \/ s \in GiftTask
      \/ s \in ExpiryTask /\ s \in LoadingTask
      \/ s \in ExpiryTask /\ s \in WritingTask
  BY <1>2 DEF Task, ExpiryTask
<1>4. /\ s.pc \in {"load", "write"} => s \in SavingTask
      /\ s.pc = "checkin" => s \in CheckInTask
      /\ s.pc = "transfer" => s \in TransferTask
      /\ s.pc = "reread" => s \in RereadTask
      /\ s.pc = "batch" => s \in BatchTask
      /\ s.pc \in {"seek", "insert"} => s \in WrapTask
      /\ s.pc \in {"giftload", "giftwrite"} => s \in GiftTask
      /\ s.pc = "batchload" => s \in ExpiryTask /\ s \in LoadingTask
      /\ s.pc = "batchwrite" => s \in ExpiryTask /\ s \in WritingTask
  BY <1>3, PcOf
<1> QED
  BY <1>1, <1>4 DEF s

-----------------------------------------------------------------------------
(* Transfers.                                                              *)

LEMMA BatchStep ==
    ASSUME Inv, NEW r \in Procs, BatchTransfer(r)
    PROVE  Inv'
<1> DEFINE t == proc[r].ticket
           to == proc[r].to
           e == [tickets[t] EXCEPT !.owner = to, !.last = to]
<1>1. r \in Procs /\ t \in Tickets /\ to \in Users
  BY RequestsAreProcs, AtPc DEF BatchTransfer, BatchTask
<1>2. tickets[t] \in Ticket
  BY <1>1 DEF Inv, TicketsTypeOK
<1>3. e \in Ticket /\ e.status = tickets[t].status /\ e.listed = tickets[t].listed
  BY <1>1, <1>2 DEF Ticket
<1>4. Sound(Save(t, e, "done"), old'[r], tickets, gifts, history)
  BY <1>1, <1>3, SaveSound
<1>5. Goto(r, Save(t, e, "done")) /\ old' = [old EXCEPT ![r] = {}] /\ OnlyReads
      /\ todo' = todo
  BY DEF BatchTransfer
<1> HIDE DEF t, to, e
<1> QED
  BY <1>1, <1>4, <1>5, ReadStep

LEMMA TransferStep ==
    ASSUME Inv, NEW x \in Procs, Transfer(x)
    PROVE  Inv'
<1> DEFINE s == proc[x]
           g == gifts[s.gift]
           row == tickets[g.ticket]
           n == [pc |-> "reread", ticket |-> g.ticket,
                 outer |-> [row EXCEPT !.owner = g.to], gift |-> s.gift, date |-> s.date]
           agreed == row.owner = g.from /\ row.status = "valid"
<1>1. s \in TransferTask /\ Given(s.gift, gifts)
  BY AtPc DEF Transfer, Sound
<1>2. s.gift \in Gifts /\ s.date \in MaybeDate /\ g \in Gift /\ g.ticket \in Tickets
      /\ g.to \in Users
  BY <1>1 DEF TransferTask, Given, Gift
<1>3. row \in Ticket
  BY <1>2 DEF Inv, TicketsTypeOK
<1>4. /\ OnlyReads /\ todo' = todo /\ old' = [old EXCEPT ![x] = {}]
      /\ (agreed /\ Goto(x, n)) \/ Goto(x, Rest(x))
  BY DEF Transfer
<1>5. CASE Goto(x, n)
  <2> DEFINE copy == [row EXCEPT !.owner = g.to]
  <2>1. copy \in Ticket /\ copy.owner = g.to /\ copy.status = row.status
        /\ copy.listed = row.listed
    BY <1>2, <1>3 DEF Ticket
  <2> HIDE DEF copy
  <2> DEFINE m == [pc |-> "reread", ticket |-> g.ticket, outer |-> copy,
                   gift |-> s.gift, date |-> s.date]
  <2>2. m \in RereadTask
    BY <1>2, <2>1 DEF RereadTask
  <2>3. Sound(m, old'[x], tickets, gifts, history)
    BY <1>1, <2>1, <2>2, PcOf DEF Sound, Task, ExpiryTask
  <2>4. Goto(x, m)
    BY <1>5 DEF copy
  <2> HIDE DEF m
  <2> QED
    BY <1>4, <2>3, <2>4, ReadStep
<1>6. CASE Goto(x, Rest(x))
  BY <1>4, <1>6, ReadStep, RestResting, RestingSound
<1> QED
  BY <1>4, <1>5, <1>6

LEMMA RecordTransferStep ==
    ASSUME Inv, NEW x \in Procs, RecordTransfer(x)
    PROVE  Inv'
<1> DEFINE s == proc[x]
           t == s.ticket
           row == tickets[t]
           e == [row EXCEPT !.last = gifts[s.gift].to]
           n == [Save(t, e, "record") EXCEPT !.outer = s.outer, !.gift = s.gift,
                                             !.date = s.date]
<1>1. s \in RereadTask /\ Sound(s, old[x], tickets, gifts, history)
  BY AtPc DEF RecordTransfer
<1>2. /\ t \in Tickets /\ s.outer \in Ticket /\ s.gift \in Gifts /\ s.date \in MaybeDate
      /\ Given(s.gift, gifts) /\ gifts[s.gift].to \in Users
      /\ gifts[s.gift].ticket = t /\ s.outer.owner = gifts[s.gift].to
  BY <1>1 DEF RereadTask, Sound, Given, Gift
<1>3. t \notin old[x] => s.outer.listed = row.listed /\ s.outer.status = row.status
  BY <1>1 DEF Sound
<1>4. row \in Ticket
  BY <1>2 DEF Inv, TicketsTypeOK
<1>5. e \in Ticket /\ e.status = row.status /\ e.listed = row.listed
  BY <1>2, <1>4 DEF Ticket
<1>6. Goto(x, n) /\ OnlyReads /\ old' = old /\ todo' = todo
  BY DEF RecordTransfer
<1> HIDE DEF e
<1>7. /\ n \in SavingTask /\ n.pc = "load" /\ n.ticket = t /\ n.entity = e
      /\ n.then = "record" /\ n.outer = s.outer /\ n.gift = s.gift
  <2> DEFINE b == Save(t, e, "record")
  <2>1. b \in SavingTask /\ b.pc = "load" /\ b.ticket = t /\ b.entity = e
        /\ b.then = "record"
    BY <1>2, <1>5, SaveShape
  <2> HIDE DEF b
  <2>2. LET m == [b EXCEPT !.outer = s.outer, !.gift = s.gift, !.date = s.date]
        IN  /\ m \in SavingTask /\ m.pc = "load" /\ m.ticket = t /\ m.entity = e
            /\ m.then = "record" /\ m.outer = s.outer /\ m.gift = s.gift
    BY <1>2, <2>1 DEF SavingTask
  <2> QED
    BY <2>2 DEF b
<1> HIDE DEF n
<1>8. SavingSound(n, old[x], tickets, gifts, history)
  BY <1>2, <1>3, <1>5, <1>7 DEF SavingSound, SavesTrueCopy
<1>9. Sound(n, old'[x], tickets, gifts, history)
  BY <1>6, <1>7, <1>8, OfSaving
<1> QED
  BY <1>6, <1>9, ReadStep

-----------------------------------------------------------------------------
(* Gifts.                                                                  *)

LEMMA ScheduledType ==
    \A d \in MaybeDate : Scheduled(d) \in MaybeDate
BY DEF Scheduled, MaybeDate

LEMMA InFlightGiven ==
    ASSUME Inv, NEW g \in Gifts, gifts[g].status # "absent"
    PROVE  Given(g, gifts)
BY DEF Inv, TicketsTypeOK, NoGift, Given

LEMMA SaveGiftShape ==
    ASSUME NEW g \in Gifts, NEW status \in GiftStatus, NEW date \in MaybeDate
    PROVE  LET s == SaveGift(g, status, date)
           IN  /\ s \in GiftTask
               /\ s.gift = g /\ s.status = status
BY DEF SaveGift, GiftTask

LEMMA OfGift ==
    ASSUME NEW s \in GiftTask, NEW o, NEW ts, NEW gs, NEW hs
    PROVE  Sound(s, o, ts, gs, hs) <=>
              /\ Given(s.gift, gs)
              /\ s.status \in {"delivered", "unwrapped"} =>
                    gs[s.gift].to \in hs[gs[s.gift].ticket].owners
BY PcOf DEF Sound, Task, ExpiryTask

LEMMA GiftRequestStep ==
    ASSUME Inv, NEW r \in Requests, NEW g \in Gifts,
           \/ CancelGift(r, g) \/ Unwrap(r, g)
           \/ \E d \in Dates \cup {Never} : Reschedule(r, g, d)
    PROVE  Inv'
<1>1. r \in Procs
  BY RequestsAreProcs
<1>2. Given(g, gifts) /\ gifts[g].date \in MaybeDate
  <2>1. gifts[g].status # "absent"
    BY DEF CancelGift, Unwrap, Reschedule, InFlight
  <2> QED
    BY <2>1, InFlightGiven DEF Given, Gift, MaybeDate
<1>3. \E status \in GiftStatus, date \in MaybeDate :
         /\ Goto(r, SaveGift(g, status, date))
         /\ OnlyReads /\ todo' = todo /\ old' = old
         /\ status # "delivered"
         /\ status = "unwrapped" => gifts[g].status = "delivered"
  <2>1. CASE CancelGift(r, g)
    BY <1>2, <2>1 DEF CancelGift, GiftStatus
  <2>2. CASE Unwrap(r, g)
    BY <1>2, <2>2 DEF Unwrap, GiftStatus
  <2>3. ASSUME NEW d \in Dates \cup {Never}, Reschedule(r, g, d)
        PROVE  /\ Goto(r, SaveGift(g, "scheduled", Scheduled(d)))
               /\ OnlyReads /\ todo' = todo /\ old' = old
               /\ Scheduled(d) \in MaybeDate
    BY <2>3, ScheduledType DEF Reschedule, MaybeDate
  <2> QED
    BY <2>1, <2>2, <2>3 DEF GiftStatus, InFlight
<1>4. PICK status \in GiftStatus, date \in MaybeDate :
         /\ Goto(r, SaveGift(g, status, date))
         /\ OnlyReads /\ todo' = todo /\ old' = old
         /\ status # "delivered"
         /\ status = "unwrapped" => gifts[g].status = "delivered"
  BY <1>3
<1> DEFINE n == SaveGift(g, status, date)
<1>5. n \in GiftTask /\ n.gift = g /\ n.status = status
  BY SaveGiftShape
<1> HIDE DEF n
<1>6. status = "unwrapped" => gifts[g].to \in history[gifts[g].ticket].owners
  BY <1>4 DEF Inv, DeliveredGiftsArrived
<1>7. Sound(n, old'[r], tickets, gifts, history)
  BY <1>2, <1>4, <1>5, <1>6, OfGift
<1> QED
  BY <1>1, <1>4, <1>7, ReadStep DEF n

LEMMA WrapStep ==
    ASSUME Inv, NEW r \in Requests, NEW t \in Tickets, NEW to \in Users,
           NEW d \in Dates \cup {Never}, Wrap(r, t, to, d)
    PROVE  Inv'
<1> DEFINE n == [pc |-> "seek", ticket |-> t, from |-> tickets[t].owner,
                 to |-> to, date |-> Scheduled(d)]
<1>1. r \in Procs /\ tickets[t].owner \in Users /\ Scheduled(d) \in MaybeDate
  BY RequestsAreProcs, ScheduledType DEF Inv, TicketsTypeOK, Ticket, MaybeDate
<1>2. n \in WrapTask
  BY <1>1 DEF WrapTask
<1>3. Goto(r, n) /\ OnlyReads /\ todo' = todo /\ old' = old
  BY DEF Wrap
<1> QED
  BY <1>1, <1>2, <1>3, PassiveSound, ReadStep

LEMMA SeekStep ==
    ASSUME Inv, NEW r \in Procs, SeekGift(r)
    PROVE  Inv'
<1>1. r \in Procs /\ proc[r] \in WrapTask
  BY RequestsAreProcs, AtPc DEF SeekGift
<1>2. [proc[r] EXCEPT !.pc = "insert"] \in WrapTask
  BY <1>1 DEF WrapTask
<1>3. /\ OnlyReads /\ todo' = todo
      /\ Finish(r) \/ (Goto(r, [proc[r] EXCEPT !.pc = "insert"]) /\ old' = old)
  BY DEF SeekGift
<1> QED
  BY <1>1, <1>2, <1>3, FinishStep, PassiveSound, ReadStep

LEMMA GiftLoadStep ==
    ASSUME Inv, NEW x \in Procs, GiftLoad(x)
    PROVE  Inv'
<1> DEFINE s == proc[x]
           row == gifts[s.gift]
           entity == [row EXCEPT !.status = s.status, !.date = s.date]
           d == Differing(row, entity)
           n == [s EXCEPT !.pc = "giftwrite", !.dirty = d]
<1>1. s \in GiftTask /\ Sound(s, old[x], tickets, gifts, history)
  BY AtPc DEF GiftLoad
<1>2. row \in Gift
  BY <1>1 DEF Sound, Given
<1>3. d \subseteq {"status", "date", "ticket", "from", "to"}
  BY <1>2 DEF Differing, Gift
<1>4. Goto(x, n) /\ OnlyReads /\ todo' = todo /\ old' = old
  BY DEF GiftLoad
<1> HIDE DEF d
<1>5. n \in GiftTask /\ n.gift = s.gift /\ n.status = s.status
  BY <1>1, <1>3 DEF GiftTask
<1> HIDE DEF n
<1>6. Sound(n, old'[x], tickets, gifts, history)
  BY <1>1, <1>5, OfGift
<1> QED
  BY <1>4, <1>6, ReadStep

LEMMA SweepNextStep ==
    ASSUME Inv, GiftSweepNext
    PROVE  Inv'
<1>1. PICK e \in todo : /\ todo' = todo \ {e}
                        /\ Goto(GiftJob, [pc |-> "transfer", gift |-> e.gift, date |-> e.date])
                        /\ OnlyReads /\ old' = old
  BY DEF GiftSweepNext
<1> DEFINE n == [pc |-> "transfer", gift |-> e.gift, date |-> e.date]
<1>2. e.gift \in Gifts /\ e.date \in MaybeDate /\ Given(e.gift, gifts)
  BY <1>1 DEF Inv, TicketsTypeOK, QueueGiven, MaybeDate
<1>3. n \in TransferTask /\ n.gift = e.gift
  BY <1>2 DEF TransferTask
<1>4. Goto(GiftJob, n)
  BY <1>1
<1> HIDE DEF n
<1>5. Sound(n, old'[GiftJob], tickets, gifts, history)
  BY <1>2, <1>3, PcOf DEF Sound, Task, ExpiryTask
<1> QED
  BY <1>1, <1>4, <1>5, ReadStep, RequestsAreProcs

LEMMA SweepStep ==
    ASSUME Inv, GiftSweep
    PROVE  Inv'
<1>1. OnlyReads /\ proc' = proc /\ old' = old
  BY DEF GiftSweep
<1>2. ASSUME NEW e \in todo'
      PROVE  e \in [gift : Gifts, date : Dates] /\ Given(e.gift, gifts)
  <2>1. PICK g \in Gifts : IsDue(g) /\ e = [gift |-> g, date |-> gifts[g].date]
    BY <1>2 DEF GiftSweep
  <2>2. gifts[g].status = "scheduled" /\ gifts[g].date # Never
    BY <2>1 DEF IsDue
  <2>3. Given(g, gifts) /\ gifts[g].date \in Dates
    BY <2>2, InFlightGiven DEF Given, Gift
  <2> QED
    BY <2>1, <2>3
<1>3. TicketsTypeOK' /\ QueueGiven'
  BY <1>1, <1>2 DEF OnlyReads, Inv, TicketsTypeOK, QueueGiven
<1>4. ProcsSound' /\ OwnersRecorded' /\ AdmissionsBounded' /\ SalesBounded'
      /\ DeliveredGiftsArrived'
  BY <1>1 DEF OnlyReads, Inv, ProcsSound, OwnersRecorded, AdmissionsBounded,
              SalesBounded, DeliveredGiftsArrived
<1> QED
  BY <1>3, <1>4 DEF Inv

\* A step that writes the gift g only: what it is about stays, and it counts
\* as delivered only if its recipient was an owner.
LEMMA GiftWritten ==
    ASSUME Inv, NEW x \in Procs, NEW n, Goto(x, n), NEW g \in Gifts, NEW row \in Gift,
           gifts' = [gifts EXCEPT ![g] = row],
           Given(g, gifts) => row.ticket = gifts[g].ticket /\ row.to = gifts[g].to,
           row.status \in {"delivered", "unwrapped"} =>
              row.to \in history[row.ticket].owners,
           UNCHANGED <<tickets, todo, now, crashes, history>>,
           old' = old \/ old' = [old EXCEPT ![x] = {}],
           Sound(n, old'[x], tickets', gifts', history')
    PROVE  Inv'
<1>1. old \in [Procs -> SUBSET Tickets] /\ old' \in [Procs -> SUBSET Tickets]
      /\ \A y \in Procs \ {x} : old'[y] = old[y]
  BY DEF Inv, TicketsTypeOK
<1>2. \A h \in Gifts : gifts'[h] = IF h = g THEN row ELSE gifts[h]
  BY DEF Inv, TicketsTypeOK
<1>3. Onward({})
  BY <1>2 DEF Onward, Given
<1>4. DOMAIN proc' = Procs /\ ProcsSound'
  BY <1>1, <1>3, Advance
<1>5. TicketsTypeOK'
  BY <1>1, <1>4 DEF Inv, TicketsTypeOK
<1>6. QueueGiven'
  BY <1>2 DEF Inv, QueueGiven, TicketsTypeOK, Given
<1>7. OwnersRecorded' /\ AdmissionsBounded' /\ SalesBounded'
  BY DEF Inv, OwnersRecorded, AdmissionsBounded, SalesBounded
<1>8. DeliveredGiftsArrived'
  BY <1>2 DEF Inv, DeliveredGiftsArrived
<1> QED
  BY <1>4, <1>5, <1>6, <1>7, <1>8 DEF Inv

LEMMA InsertGiftStep ==
    ASSUME Inv, NEW r \in Requests, NEW g \in Gifts, InsertGift(r, g)
    PROVE  Inv'
<1> DEFINE s == proc[r]
           atOnce == s.date = Never
           row == [status |-> IF atOnce THEN "wrapped" ELSE "scheduled",
                   date |-> s.date, ticket |-> s.ticket, from |-> s.from, to |-> s.to]
           n == [pc |-> "transfer", gift |-> g, date |-> Never]
<1>1. r \in Procs /\ s \in WrapTask
  BY RequestsAreProcs, AtPc DEF InsertGift
<1>2. row \in Gift /\ row.status \notin {"delivered", "unwrapped"}
  BY <1>1 DEF WrapTask, Gift, MaybeDate, InFlight
<1>3. /\ gifts' = [gifts EXCEPT ![g] = row] /\ gifts[g] = NoGift
      /\ UNCHANGED <<tickets, todo, now, crashes, history>>
      /\ (Goto(r, n) /\ old' = old) \/ Finish(r)
  BY DEF InsertGift
<1>4. ~ Given(g, gifts)
  BY <1>3 DEF Given, NoGift, Gift, InFlight
<1> HIDE DEF row
<1>5. gifts'[g] = row
  BY <1>3 DEF Inv, TicketsTypeOK
<1>6. n \in TransferTask /\ n.gift = g
  BY DEF TransferTask, MaybeDate
<1> HIDE DEF n
<1>7. Sound(n, old'[r], tickets', gifts', history')
  BY <1>2, <1>5, <1>6, PcOf DEF Sound, Task, ExpiryTask, Given
<1>8. CASE Goto(r, n) /\ old' = old
  BY <1>1, <1>2, <1>3, <1>4, <1>7, <1>8, GiftWritten
<1>9. CASE Finish(r)
  <2>1. Sound(Rest(r), old'[r], tickets', gifts', history')
    BY RestResting, RestingSound
  <2>2. Goto(r, Rest(r)) /\ old' = [old EXCEPT ![r] = {}]
    BY <1>9 DEF Finish
  <2> QED
    BY <1>1, <1>2, <1>3, <1>4, <2>1, <2>2, GiftWritten
<1> QED
  BY <1>3, <1>8, <1>9

LEMMA GiftWriteStep ==
    ASSUME Inv, NEW x \in Procs, GiftWrite(x)
    PROVE  Inv'
<1> DEFINE s == proc[x]
           g == s.gift
           entity == [gifts[g] EXCEPT !.status = s.status, !.date = s.date]
           row == Updated(gifts[g], entity, s.dirty)
<1>1. s \in GiftTask /\ Sound(s, old[x], tickets, gifts, history)
  BY AtPc DEF GiftWrite
<1>2. g \in Gifts /\ gifts[g] \in Gift /\ s.status \in GiftStatus /\ s.date \in MaybeDate
  BY <1>1 DEF Sound, Given, GiftTask
<1>3. row \in Gift /\ row.ticket = gifts[g].ticket /\ row.to = gifts[g].to
      /\ row.status \in {s.status, gifts[g].status}
  BY <1>2 DEF Updated, Gift, GiftStatus, MaybeDate
<1>4. gifts' = [gifts EXCEPT ![g] = row]
  BY <1>2 DEF GiftWrite, Inv, TicketsTypeOK
<1>5. Finish(x) /\ UNCHANGED <<tickets, todo, now, crashes, history>>
  BY DEF GiftWrite
<1> HIDE DEF row
<1>6. row.status \in {"delivered", "unwrapped"} => row.to \in history[row.ticket].owners
  BY <1>1, <1>2, <1>3 DEF Sound, Inv, DeliveredGiftsArrived
<1> HIDE DEF g
<1>7. Sound(Rest(x), old'[x], tickets', gifts', history')
  BY RestResting, RestingSound
<1> QED
  BY <1>2, <1>3, <1>4, <1>5, <1>6, <1>7, GiftWritten DEF Finish

-----------------------------------------------------------------------------
(* Saving tickets.                                                         *)

LEMMA UpdatedTicket ==
    ASSUME NEW row \in Ticket, NEW e \in Ticket, NEW d
    PROVE  LET new == Updated(row, e, d)
           IN  /\ new \in Ticket
               /\ new.owner = IF "owner" \in d THEN e.owner ELSE row.owner
               /\ new.status = IF "status" \in d THEN e.status ELSE row.status
               /\ new.listed = IF "listed" \in d THEN e.listed ELSE row.listed
BY DEF Updated, Ticket

LEMMA DifferingTicket ==
    ASSUME NEW row \in Ticket, NEW e \in Ticket
    PROVE  LET d == Differing(row, e)
           IN  /\ d \subseteq Columns
               /\ "owner" \in d <=> row.owner # e.owner
               /\ "status" \in d <=> row.status # e.status
               /\ "listed" \in d <=> row.listed # e.listed
BY DEF Differing, Ticket, Columns

LEMMA SaveLoadStep ==
    ASSUME Inv, NEW x \in Procs, SaveLoad(x)
    PROVE  Inv'
<1> DEFINE s == proc[x]
           t == s.ticket
           d == Differing(tickets[t], s.entity)
           n == [s EXCEPT !.pc = "write", !.dirty = d]
<1>1. s \in SavingTask /\ s.pc = "load" /\ SavingSound(s, old[x], tickets, gifts, history)
  BY AtPc DEF SaveLoad, Sound
<1>2. t \in Tickets /\ s.entity \in Ticket
  BY <1>1 DEF SavingTask
<1>3. tickets[t] \in Ticket /\ tickets[t].owner \in history[t].owners
  BY <1>2 DEF Inv, TicketsTypeOK, OwnersRecorded
<1>4. /\ d \subseteq Columns
      /\ "owner" \in d <=> tickets[t].owner # s.entity.owner
      /\ "status" \in d <=> tickets[t].status # s.entity.status
      /\ "listed" \in d <=> tickets[t].listed # s.entity.listed
  BY <1>2, <1>3, DifferingTicket
<1>5. Goto(x, n) /\ OnlyReads /\ todo' = todo /\ old' = old
  BY DEF SaveLoad
<1> HIDE DEF d
<1>6. /\ n \in SavingTask /\ n.pc = "write" /\ n.ticket = t /\ n.entity = s.entity
      /\ n.dirty = d /\ n.then = s.then /\ n.gift = s.gift /\ n.outer = s.outer
  BY <1>1, <1>4 DEF SavingTask
<1> HIDE DEF n
<1>7. t \notin old[x] => SavesTrueCopy(n, tickets[t])
  BY <1>1, <1>4, <1>6 DEF SavingSound, SavesTrueCopy
<1>8. SavingSound(n, old[x], tickets, gifts, history)
  BY <1>1, <1>3, <1>4, <1>6, <1>7 DEF SavingSound
<1>9. Sound(n, old'[x], tickets, gifts, history)
  BY <1>5, <1>6, <1>8, OfSaving
<1> QED
  BY <1>5, <1>9, ReadStep

\* A save for the purpose `for` that turns `row` into `new`, and what it may do:
\* unless it is late it neither admits nor sells twice, nor undoes either.
Allowed(row, new, for, late) ==
    /\ for = "admit" =>
          /\ new.status = "valid" => row.status = "valid"
          /\ ~ late => row.status = "valid" /\ new.status # "valid"
    /\ for # "admit" => (~ late /\ new.status = "valid" => row.status = "valid")
    /\ for = "sell" =>
          /\ new.listed => row.listed
          /\ ~ late => row.listed /\ ~ new.listed
    /\ for = "list" => (~ late => ~ row.listed)
    /\ for \notin {"sell", "list"} => (~ late /\ new.listed => row.listed)

AdmittedOnce(h, row) == h.admitted + (IF row.status = "valid" THEN 1 ELSE 0) <= 1 + h.lost
SoldOnce(h, row) == h.sold + (IF row.listed THEN 1 ELSE 0) <= h.listings + h.lost

LEMMA AllowedKeeps ==
    ASSUME NEW h \in History, NEW row \in Ticket, NEW new \in Ticket, NEW for,
           NEW late \in BOOLEAN,
           AdmittedOnce(h, row), SoldOnce(h, row), Allowed(row, new, for, late)
    PROVE  LET k == Recorded(h, for, late, new)
           IN  /\ k \in History
               /\ k.owners = h.owners \cup {new.owner}
               /\ AdmittedOnce(k, new) /\ SoldOnce(k, new)
<1> DEFINE k == Recorded(h, for, late, new)
           a == h.admitted + (IF for = "admit" THEN 1 ELSE 0)
           i == h.listings + (IF for = "list" THEN 1 ELSE 0)
           b == h.sold + (IF for = "sell" THEN 1 ELSE 0)
           l == h.lost + (IF late THEN 1 ELSE 0)
           u == h.owners \cup {new.owner}
<1>1. a \in Nat /\ i \in Nat /\ b \in Nat /\ l \in Nat
  BY DEF History
<1>2. u \in SUBSET Users
  BY DEF History, Ticket
<1>3. k = [h EXCEPT !.admitted = a, !.listings = i, !.sold = b, !.lost = l, !.owners = u]
  BY DEF Recorded
<1> HIDE DEF k, a, i, b, l, u
<1>4. /\ k \in History
      /\ k.admitted = a /\ k.listings = i /\ k.sold = b /\ k.lost = l /\ k.owners = u
  BY <1>1, <1>2, <1>3 DEF History
<1>5. /\ h.admitted \in Nat /\ h.listings \in Nat /\ h.sold \in Nat /\ h.lost \in Nat
  BY DEF History
<1>6. AdmittedOnce(k, new)
  BY <1>4, <1>5 DEF AdmittedOnce, Allowed, a, l
<1>7. SoldOnce(k, new)
  BY <1>4, <1>5 DEF SoldOnce, Allowed, i, b, l
<1> QED
  BY <1>4, <1>6, <1>7 DEF k, u

\* A step that writes the tickets S, each for an allowed purpose.
LEMMA TicketsWritten ==
    ASSUME Inv, NEW x \in Procs, NEW n, Goto(x, n), NEW S \in SUBSET Tickets,
           NEW for, NEW late \in [Tickets -> BOOLEAN],
           tickets' \in [Tickets -> Ticket],
           history' = [t \in Tickets |-> history'[t]],
           \A t \in Tickets \ S : tickets'[t] = tickets[t] /\ history'[t] = history[t],
           \A t \in S :
              /\ history'[t] = Recorded(history[t], for, late[t], tickets'[t])
              /\ Allowed(tickets[t], tickets'[t], for, late[t]),
           old' \in [Procs -> SUBSET Tickets],
           \A y \in Procs \ {x} : old'[y] = Outdated(x, S)[y],
           UNCHANGED <<gifts, todo, now, crashes>>,
           Sound(n, old'[x], tickets', gifts', history')
    PROVE  Inv'
<1>1. \A t \in Tickets : /\ tickets[t] \in Ticket /\ tickets'[t] \in Ticket
                         /\ history[t] \in History
                         /\ AdmittedOnce(history[t], tickets[t])
                         /\ SoldOnce(history[t], tickets[t])
                         /\ tickets[t].owner \in history[t].owners
  BY DEF Inv, TicketsTypeOK, AdmissionsBounded, SalesBounded, AdmittedOnce, SoldOnce,
         OwnersRecorded
<1>2. \A t \in S :
         /\ history'[t] \in History
         /\ history'[t].owners = history[t].owners \cup {tickets'[t].owner}
         /\ AdmittedOnce(history'[t], tickets'[t])
         /\ SoldOnce(history'[t], tickets'[t])
  <2> TAKE t \in S
  <2>1. late[t] \in BOOLEAN
    OBVIOUS
  <2> QED
    BY <1>1, <2>1, AllowedKeeps
<1>3. \A t \in Tickets :
         /\ history'[t] \in History
         /\ history[t].owners \subseteq history'[t].owners
         /\ AdmittedOnce(history'[t], tickets'[t])
         /\ SoldOnce(history'[t], tickets'[t])
         /\ tickets'[t].owner \in history'[t].owners
  BY <1>1, <1>2
<1>4. Onward(S)
  BY <1>3 DEF Onward, Given
<1>5. \A y \in Procs \ {x} : proc[y] \in Resting \/ old[y] \cup S \subseteq old'[y]
  BY DEF Outdated
<1>6. DOMAIN proc' = Procs /\ ProcsSound'
  BY <1>4, <1>5, Advance
<1>7. TicketsTypeOK'
  BY <1>3, <1>6 DEF Inv, TicketsTypeOK
<1>8. OwnersRecorded' /\ AdmissionsBounded' /\ SalesBounded'
  BY <1>3 DEF OwnersRecorded, AdmissionsBounded, SalesBounded, AdmittedOnce, SoldOnce
<1>9. QueueGiven'
  BY DEF Inv, QueueGiven
<1>10. DeliveredGiftsArrived'
  <2> SUFFICES ASSUME NEW g \in Gifts, gifts[g].status \in {"delivered", "unwrapped"}
               PROVE  gifts[g].to \in history'[gifts[g].ticket].owners
    BY DEF DeliveredGiftsArrived
  <2>1. gifts[g].ticket \in Tickets
    BY InFlightGiven DEF Given, Gift
  <2> QED
    BY <1>3, <2>1 DEF Inv, DeliveredGiftsArrived
<1> QED
  BY <1>6, <1>7, <1>8, <1>9, <1>10 DEF Inv

\* What a save leads to.
LEMMA ContinueSound ==
    ASSUME Inv, NEW x \in Procs, NEW s \in SavingTask, NEW new \in Ticket, NEW o,
           NEW ts, NEW hs,
           SavingSound(s, o, tickets, gifts, history),
           ts[s.ticket] = new,
           \/ s.ticket \in o
           \/ /\ new.status = tickets[s.ticket].status
              /\ new.listed = tickets[s.ticket].listed
           \/ s.then # "record",
           history[s.ticket].owners \cup {new.owner} \subseteq hs[s.ticket].owners,
           new.owner = IF "owner" \in s.dirty THEN s.entity.owner
                       ELSE tickets[s.ticket].owner,
           s.pc = "write"
    PROVE  LET n == Continue(x, s)
           IN  Sound(n, IF n.pc = "load" THEN o ELSE {}, ts, gifts, hs)
<1> DEFINE n == Continue(x, s)
           p == IF n.pc = "load" THEN o ELSE {}
           t == s.ticket
<1>1. t \in Tickets /\ s.date \in MaybeDate
  BY DEF SavingTask
<1>2. CASE s.then = "record"
  <2> DEFINE e == [s.outer EXCEPT !.last = s.entity.last]
             b == Save(t, e, "deliver")
             m == [b EXCEPT !.gift = s.gift, !.date = s.date]
  <2>1. /\ s.gift \in Gifts /\ Given(s.gift, gifts) /\ gifts[s.gift].ticket = t
        /\ s.outer \in Ticket /\ s.outer.owner = gifts[s.gift].to
    BY <1>2 DEF SavingSound
  <2>2. e \in Ticket /\ e.owner = gifts[s.gift].to /\ e.status = s.outer.status
        /\ e.listed = s.outer.listed
    BY <2>1 DEF SavingTask, Ticket
  <2>3. t \notin o => e.status = new.status /\ e.listed = new.listed
    BY <1>2, <2>2 DEF SavingSound, SavesTrueCopy
  <2>4. n = m
    BY <1>2 DEF Continue
  <2> HIDE DEF e
  <2>5. b \in SavingTask /\ b.pc = "load" /\ b.ticket = t /\ b.entity = e
        /\ b.then = "deliver"
    BY <1>1, <2>2, SaveShape
  <2> HIDE DEF b
  <2>6. /\ m \in SavingTask /\ m.pc = "load" /\ m.ticket = t /\ m.entity = e
        /\ m.then = "deliver" /\ m.gift = s.gift
    BY <1>1, <2>1, <2>5 DEF SavingTask
  <2> HIDE DEF m
  <2>7. SavingSound(m, o, ts, gifts, hs)
    BY <2>1, <2>2, <2>3, <2>6 DEF SavingSound, SavesTrueCopy
  <2> QED
    BY <2>4, <2>6, <2>7, OfSaving
<1>3. CASE s.then = "deliver"
  <2> DEFINE m == SaveGift(s.gift, "delivered", s.date)
  <2>1. /\ s.gift \in Gifts /\ Given(s.gift, gifts) /\ gifts[s.gift].ticket = t
        /\ s.entity.owner = gifts[s.gift].to
        /\ "owner" \notin s.dirty => s.entity.owner \in history[t].owners
    BY <1>3 DEF SavingSound
  <2>2. gifts[s.gift].to \in hs[t].owners
    BY <2>1
  <2>3. n = m
    BY <1>3 DEF Continue
  <2>4. m \in GiftTask /\ m.gift = s.gift /\ m.status = "delivered"
    <3>1. "delivered" \in GiftStatus
      BY DEF GiftStatus
    <3> QED
      BY <1>1, <2>1, <3>1, SaveGiftShape
  <2> HIDE DEF m
  <2> QED
    BY <2>1, <2>2, <2>3, <2>4, OfGift
<1>4. CASE s.then \notin {"record", "deliver"}
  <2>1. n = Rest(x)
    BY <1>4 DEF Continue
  <2> QED
    BY <2>1, RestResting, RestingSound
<1> QED
  BY <1>2, <1>3, <1>4

LEMMA SaveWriteStep ==
    ASSUME Inv, NEW x \in Procs, SaveWrite(x)
    PROVE  Inv'
<1> DEFINE s == proc[x]
           t == s.ticket
           row == tickets[t]
           new == Updated(row, s.entity, s.dirty)
           next == Continue(x, s)
           late == [u \in Tickets |-> u \in old[x]]
           rest == IF next.pc = "load" THEN old[x] ELSE {}
<1>1. /\ s \in SavingTask /\ s.pc = "write"
      /\ SavingSound(s, old[x], tickets, gifts, history)
  BY AtPc DEF SaveWrite, Sound
<1>2. t \in Tickets /\ s.entity \in Ticket
  BY <1>1 DEF SavingTask
<1>3. row \in Ticket /\ history[t] \in History
  BY <1>2 DEF Inv, TicketsTypeOK
<1>4. /\ new \in Ticket
      /\ new.owner = IF "owner" \in s.dirty THEN s.entity.owner ELSE row.owner
      /\ new.status = IF "status" \in s.dirty THEN s.entity.status ELSE row.status
      /\ new.listed = IF "listed" \in s.dirty THEN s.entity.listed ELSE row.listed
  BY <1>2, <1>3, UpdatedTicket
<1>5. /\ tickets' = [tickets EXCEPT ![t] = new]
      /\ history' = [history EXCEPT ![t] = Recorded(@, s.then, t \in old[x], new)]
      /\ Goto(x, next)
      /\ old' = [Outdated(x, {t}) EXCEPT ![x] = IF next.pc = "load" THEN @ ELSE {}]
      /\ UNCHANGED <<gifts, todo, now, crashes>>
  BY DEF SaveWrite
<1> HIDE DEF new
<1>6. Allowed(row, new, s.then, t \in old[x])
  BY <1>1, <1>4 DEF SavingSound, SavesTrueCopy, Allowed
<1>7. /\ tickets' \in [Tickets -> Ticket] /\ tickets'[t] = new
      /\ history' = [u \in Tickets |-> history'[u]]
      /\ history'[t] = Recorded(history[t], s.then, late[t], new)
      /\ \A u \in Tickets \ {t} : tickets'[u] = tickets[u] /\ history'[u] = history[u]
  BY <1>2, <1>4, <1>5 DEF Inv, TicketsTypeOK
<1>8. /\ old' \in [Procs -> SUBSET Tickets] /\ old'[x] = rest
      /\ \A y \in Procs \ {x} : old'[y] = Outdated(x, {t})[y]
  <2>1. /\ Outdated(x, {t}) \in [Procs -> SUBSET Tickets]
        /\ Outdated(x, {t})[x] = old[x]
    BY <1>2 DEF Outdated, Inv, TicketsTypeOK
  <2> HIDE DEF next
  <2> QED
    BY <1>5, <2>1
<1>9. history[t].owners \cup {new.owner} \subseteq history'[t].owners
  BY <1>3, <1>7 DEF Recorded, History
<1>10. \/ t \in old[x]
       \/ new.status = row.status /\ new.listed = row.listed
       \/ s.then # "record"
  BY <1>1, <1>4 DEF SavingSound, SavesTrueCopy
<1>11. Sound(next, rest, tickets', gifts', history')
  <2>1. /\ tickets'[s.ticket] = new /\ gifts' = gifts
        /\ \/ s.ticket \in old[x]
           \/ /\ new.status = tickets[s.ticket].status
              /\ new.listed = tickets[s.ticket].listed
           \/ s.then # "record"
        /\ history[s.ticket].owners \cup {new.owner} \subseteq history'[s.ticket].owners
        /\ new.owner = IF "owner" \in s.dirty THEN s.entity.owner
                       ELSE tickets[s.ticket].owner
        /\ new \in Ticket
    BY <1>4, <1>5, <1>7, <1>9, <1>10
  <2>2. Sound(next, rest, tickets', gifts, history')
    BY ONLY <1>1, <2>1, ContinueSound, Inv, x \in Procs
  <2> QED
    BY <2>1, <2>2
<1>12. Sound(next, old'[x], tickets', gifts', history')
  BY <1>8, <1>11
<1>13. late \in [Tickets -> BOOLEAN] /\ late[t] = (t \in old[x])
  BY <1>2
<1> HIDE DEF next, late, rest, t
<1>14. {t} \in SUBSET Tickets
  BY <1>2
<1> DEFINE for == s.then
<1>15. \A u \in {t} : /\ history'[u] = Recorded(history[u], for, late[u], tickets'[u])
                      /\ Allowed(tickets[u], tickets'[u], for, late[u])
  BY <1>6, <1>7, <1>13
<1>16. Goto(x, next) /\ UNCHANGED <<gifts, todo, now, crashes>>
  BY <1>5
<1> HIDE DEF for
<1> QED
  BY <1>7, <1>8, <1>12, <1>13, <1>14, <1>15, <1>16, TicketsWritten

LEMMA CheckInStep ==
    ASSUME Inv, NEW x \in Procs, CheckIn(x)
    PROVE  Inv'
<1> DEFINE t == proc[x].ticket
           hit == tickets[t].status = "valid" /\ tickets[t].owner = proc[x].owner
           row == [tickets[t] EXCEPT !.status = "used"]
<1>1. t \in Tickets /\ tickets[t] \in Ticket
  BY AtPc DEF CheckIn, CheckInTask, Inv, TicketsTypeOK
<1>2. row \in Ticket /\ row.status = "used" /\ row.listed = tickets[t].listed
  BY <1>1 DEF Ticket
<1>3. Goto(x, Done) /\ UNCHANGED <<gifts, todo, now, crashes>>
  BY DEF CheckIn
<1>4. Done \in Resting
  BY DEF Resting
<1>5. CASE hit
  <2>1. /\ tickets' = [tickets EXCEPT ![t] = row]
        /\ history' = [history EXCEPT ![t] = Recorded(@, "admit", FALSE, row)]
        /\ old' = [Outdated(x, {t}) EXCEPT ![x] = {}]
    BY <1>5 DEF CheckIn
  <2> HIDE DEF row
  <2> DEFINE late == [u \in Tickets |-> FALSE]
  <2>2. /\ tickets' \in [Tickets -> Ticket]
        /\ history' = [u \in Tickets |-> history'[u]]
        /\ \A u \in Tickets \ {t} : tickets'[u] = tickets[u] /\ history'[u] = history[u]
    BY <1>1, <1>2, <2>1 DEF Inv, TicketsTypeOK
  <2>3. Allowed(tickets[t], row, "admit", FALSE)
    BY <1>2, <1>5 DEF Allowed
  <2>4. /\ tickets'[t] = row
        /\ history'[t] = Recorded(history[t], "admit", late[t], row)
    BY <1>1, <2>1 DEF Inv, TicketsTypeOK
  <2>5. /\ old' \in [Procs -> SUBSET Tickets]
        /\ \A y \in Procs \ {x} : old'[y] = Outdated(x, {t})[y]
    BY <1>1, <2>1 DEF Outdated, Inv, TicketsTypeOK
  <2>6. Sound(Done, old'[x], tickets', gifts', history')
    BY <1>4, RestingSound
  <2>7. late \in [Tickets -> BOOLEAN] /\ late[t] = FALSE /\ {t} \in SUBSET Tickets
    BY <1>1
  <2> HIDE DEF t, late
  <2>8. \A u \in {t} : /\ history'[u] = Recorded(history[u], "admit", late[u], tickets'[u])
                       /\ Allowed(tickets[u], tickets'[u], "admit", late[u])
    BY <2>3, <2>4, <2>7
  <2> QED
    BY <1>3, <2>2, <2>5, <2>6, <2>7, <2>8, TicketsWritten
<1>6. CASE ~ hit
  <2>1. OnlyReads /\ old' = [old EXCEPT ![x] = {}]
    BY <1>6 DEF CheckIn, OnlyReads
  <2>2. Sound(Done, old'[x], tickets, gifts, history)
    BY <1>4, RestingSound
  <2> QED
    BY <1>3, <2>1, <2>2, ReadStep
<1> QED
  BY <1>5, <1>6

-----------------------------------------------------------------------------
(* The expiry job.                                                         *)

LEMMA OfExpiry ==
    ASSUME NEW s \in ExpiryTask, NEW o, NEW ts, NEW gs, NEW hs
    PROVE  Sound(s, o, ts, gs, hs) <=>
              \A t \in DOMAIN s.batch :
                  /\ s.batch[t].status = "expired"
                  /\ t \notin o => s.batch[t].listed = ts[t].listed
BY PcOf DEF Sound, Task, ExpiryTask

LEMMA ExpiryReadStep ==
    ASSUME Inv, ExpiryRead
    PROVE  Inv'
<1> DEFINE b == [t \in Expirable |-> [tickets[t] EXCEPT !.status = "expired"]]
           n == [pc |-> "batchload", batch |-> b]
<1>1. Goto(ExpiryJob, n) /\ OnlyReads /\ todo' = todo /\ old' = old
  BY DEF ExpiryRead
<1>2. Expirable \in SUBSET Tickets
  BY DEF Expirable
<1>3. \A t \in Expirable : /\ b[t] \in Ticket /\ b[t].status = "expired"
                           /\ b[t].listed = tickets[t].listed
  BY <1>2 DEF Inv, TicketsTypeOK, Ticket
<1>4. b \in [Expirable -> Ticket] /\ DOMAIN b = Expirable
  BY <1>3
<1> HIDE DEF b
<1>5. n \in LoadingTask /\ n.batch = b
  BY <1>2, <1>4 DEF LoadingTask
<1> HIDE DEF n
<1>6. Sound(n, old'[ExpiryJob], tickets, gifts, history)
  BY <1>3, <1>4, <1>5, OfExpiry DEF ExpiryTask
<1> QED
  BY <1>1, <1>6, ReadStep, RequestsAreProcs

LEMMA ExpiryLoadStep ==
    ASSUME Inv, ExpiryLoad
    PROVE  Inv'
<1> DEFINE b == proc[ExpiryJob].batch
           d == [t \in DOMAIN b |-> Differing(tickets[t], b[t])]
           n == [pc |-> "batchwrite", batch |-> b, dirty |-> d]
<1>1. Goto(ExpiryJob, n) /\ OnlyReads /\ todo' = todo /\ old' = old
  BY DEF ExpiryLoad
<1>2. proc[ExpiryJob] \in ExpiryTask /\ proc[ExpiryJob] \in LoadingTask
      /\ Sound(proc[ExpiryJob], old[ExpiryJob], tickets, gifts, history)
  BY AtPc, RequestsAreProcs DEF ExpiryLoad
<1>3. PICK B \in SUBSET Tickets : b \in [B -> Ticket]
  BY <1>2 DEF LoadingTask
<1>4. \A t \in B : Differing(tickets[t], b[t]) \subseteq Columns
  BY <1>3, DifferingTicket DEF Inv, TicketsTypeOK
<1>5. d \in [B -> SUBSET Columns] /\ DOMAIN d = DOMAIN b
  BY <1>3, <1>4
<1>6. \A t \in DOMAIN b :
         /\ b[t].status = "expired"
         /\ t \notin old[ExpiryJob] => b[t].listed = tickets[t].listed
  BY <1>2, OfExpiry
<1> HIDE DEF b, d
<1>7. n \in WritingTask /\ n.batch = b /\ n.dirty = d
  BY <1>3, <1>5 DEF WritingTask
<1> HIDE DEF n
<1>8. n \in ExpiryTask
  BY <1>5, <1>7 DEF ExpiryTask
<1>9. Sound(n, old'[ExpiryJob], tickets, gifts, history)
  BY <1>1, <1>6, <1>7, <1>8, OfExpiry
<1> QED
  BY <1>1, <1>9, ReadStep, RequestsAreProcs

LEMMA ExpiryWriteStep ==
    ASSUME Inv, ExpiryWrite
    PROVE  Inv'
<1> DEFINE x == ExpiryJob
           s == proc[x]
           B == DOMAIN s.batch
           row(t) == Updated(tickets[t], s.batch[t], s.dirty[t])
           late == [t \in Tickets |-> t \in old[x]]
<1>1. s \in ExpiryTask /\ s \in WritingTask /\ Sound(s, old[x], tickets, gifts, history)
      /\ x \in Procs
  BY AtPc, RequestsAreProcs DEF ExpiryWrite
<1>2. B \in SUBSET Tickets /\ \A t \in B : s.batch[t] \in Ticket
  BY <1>1 DEF WritingTask
<1>3. \A t \in B : /\ s.batch[t].status = "expired"
                   /\ t \notin old[x] => s.batch[t].listed = tickets[t].listed
  BY <1>1, OfExpiry
<1>4. /\ tickets' = [t \in Tickets |-> IF t \in B THEN row(t) ELSE tickets[t]]
      /\ history' = [t \in Tickets |->
            IF t \in B THEN Recorded(history[t], "expire", t \in old[x], row(t))
            ELSE history[t]]
      /\ old' = [Outdated(x, B) EXCEPT ![x] = {}]
      /\ Goto(x, Idle) /\ UNCHANGED <<gifts, todo, now, crashes>>
  BY DEF ExpiryWrite
<1>5. \A t \in B : /\ tickets[t] \in Ticket /\ row(t) \in Ticket
                   /\ row(t).status \in {"expired", tickets[t].status}
                   /\ t \notin old[x] => row(t).listed = tickets[t].listed
  <2> TAKE t \in B
  <2>1. tickets[t] \in Ticket
    BY <1>2 DEF Inv, TicketsTypeOK
  <2> QED
    BY <1>2, <1>3, <2>1, UpdatedTicket
<1> HIDE DEF row, s, B
<1>6. \A t \in B : Allowed(tickets[t], row(t), "expire", t \in old[x])
  BY <1>5 DEF Allowed
<1>7. /\ tickets' \in [Tickets -> Ticket]
      /\ history' = [t \in Tickets |-> history'[t]]
      /\ \A t \in Tickets \ B : tickets'[t] = tickets[t] /\ history'[t] = history[t]
      /\ \A t \in B : tickets'[t] = row(t)
  BY <1>2, <1>4, <1>5 DEF Inv, TicketsTypeOK
<1>8. late \in [Tickets -> BOOLEAN] /\ \A t \in B : late[t] = (t \in old[x])
  BY <1>2
<1> HIDE DEF late
<1>9. \A t \in B : /\ history'[t] = Recorded(history[t], "expire", late[t], tickets'[t])
                   /\ Allowed(tickets[t], tickets'[t], "expire", late[t])
  BY <1>2, <1>4, <1>6, <1>7, <1>8
<1>10. /\ old' \in [Procs -> SUBSET Tickets]
       /\ \A y \in Procs \ {x} : old'[y] = Outdated(x, B)[y]
  BY <1>2, <1>4 DEF Outdated, Inv, TicketsTypeOK
<1>11. Sound(Idle, old'[x], tickets', gifts', history')
  BY RestingSound DEF Resting
<1>12. Goto(x, Idle) /\ UNCHANGED <<gifts, todo, now, crashes>>
  BY <1>4
<1> HIDE DEF x
<1> QED
  BY <1>1, <1>2, <1>7, <1>8, <1>9, <1>10, <1>11, <1>12, TicketsWritten

-----------------------------------------------------------------------------
(* The whole.                                                              *)

LEMMA InvInit ==
    ASSUME Init
    PROVE  Inv
<1>1. PICK listed \in [Tickets -> BOOLEAN] :
         /\ tickets = [t \in Tickets |-> Issued(listed[t])]
         /\ history = [t \in Tickets |-> Unscanned(listed[t])]
  BY DEF Init
<1>2. /\ gifts = [g \in Gifts |-> NoGift]
      /\ proc = [x \in Procs |-> IF x \in Requests THEN New ELSE Idle]
      /\ todo = {} /\ now = 0 /\ crashes = 0 /\ old = [x \in Procs |-> {}]
  BY DEF Init
<1>3. \A t \in Tickets : /\ tickets[t] \in Ticket /\ history[t] \in History
                         /\ tickets[t].owner \in history[t].owners
                         /\ AdmittedOnce(history[t], tickets[t])
                         /\ SoldOnce(history[t], tickets[t])
  <2> TAKE t \in Tickets
  <2>1. tickets[t] = Issued(listed[t]) /\ history[t] = Unscanned(listed[t])
        /\ listed[t] \in BOOLEAN
    BY <1>1
  <2> QED
    BY <2>1, TicketsAssumption
       DEF Issued, Unscanned, Ticket, History, AdmittedOnce, SoldOnce, TicketsAssumption
<1>4. TicketsTypeOK
  <2>1. 0 \in 0 .. Start /\ 0 \in 0 .. MaxCrashes
    BY TicketsAssumption DEF TicketsAssumption
  <2>2. tickets \in [Tickets -> Ticket] /\ history \in [Tickets -> History]
    BY <1>1, <1>3
  <2>3. gifts \in [Gifts -> Gift \cup {NoGift}] /\ DOMAIN proc = Procs
        /\ old \in [Procs -> SUBSET Tickets] /\ todo \subseteq [gift : Gifts, date : Dates]
    BY <1>2
  <2> QED
    BY <1>2, <2>1, <2>2, <2>3 DEF TicketsTypeOK
<1>5. ProcsSound
  <2>1. \A x \in Procs : proc[x] \in Resting
    BY <1>2 DEF Resting
  <2> QED
    BY <2>1, RestingSound DEF ProcsSound
<1>6. OwnersRecorded /\ AdmissionsBounded /\ SalesBounded
  BY <1>3 DEF OwnersRecorded, AdmissionsBounded, SalesBounded, AdmittedOnce, SoldOnce
<1>7. QueueGiven /\ DeliveredGiftsArrived
  BY <1>2 DEF QueueGiven, DeliveredGiftsArrived, NoGift
<1> QED
  BY <1>4, <1>5, <1>6, <1>7 DEF Inv

LEMMA CrashStep ==
    ASSUME Inv, Crash
    PROVE  Inv'
<1>1. /\ crashes' = crashes + 1 /\ crashes < MaxCrashes
      /\ proc' = [x \in Procs |-> IF proc[x] = New THEN New ELSE Rest(x)]
      /\ todo' = {} /\ old' = [x \in Procs |-> {}]
      /\ UNCHANGED <<tickets, gifts, now, history>>
  BY DEF Crash
<1>2. \A x \in Procs : proc'[x] \in Resting
  BY <1>1 DEF Resting, Rest
<1>3. ProcsSound'
  BY <1>2, RestingSound DEF ProcsSound
<1>4. crashes' \in 0 .. MaxCrashes
  BY <1>1, TicketsAssumption DEF TicketsAssumption, Inv, TicketsTypeOK
<1>5. TicketsTypeOK' /\ QueueGiven'
  BY <1>1, <1>4 DEF Inv, TicketsTypeOK, QueueGiven
<1>6. OwnersRecorded' /\ AdmissionsBounded' /\ SalesBounded' /\ DeliveredGiftsArrived'
  BY <1>1 DEF Inv, OwnersRecorded, AdmissionsBounded, SalesBounded, DeliveredGiftsArrived
<1> QED
  BY <1>3, <1>5, <1>6 DEF Inv

\* Time passes, or nothing happens.
LEMMA QuietStep ==
    ASSUME Inv, UNCHANGED <<tickets, gifts, proc, todo, crashes, old, history>>,
           now' \in 0 .. Start
    PROVE  Inv'
<1>1. TicketsTypeOK'
  BY DEF Inv, TicketsTypeOK
<1>2. ProcsSound' /\ QueueGiven'
  BY DEF Inv, ProcsSound, QueueGiven
<1>3. OwnersRecorded' /\ AdmissionsBounded' /\ SalesBounded' /\ DeliveredGiftsArrived'
  BY DEF Inv, OwnersRecorded, AdmissionsBounded, SalesBounded, DeliveredGiftsArrived
<1> QED
  BY <1>1, <1>2, <1>3 DEF Inv

LEMMA ResumeStep ==
    ASSUME Inv, NEW x \in Procs, Resume(x)
    PROVE  Inv'
BY SaveLoadStep, SaveWriteStep, CheckInStep, BatchStep, SeekStep, TransferStep,
   RecordTransferStep, GiftLoadStep, GiftWriteStep DEF Resume

LEMMA InvStep ==
    ASSUME Inv, [Next]_vars
    PROVE  Inv'
<1>1. ASSUME NEW r \in Requests, Resume(r) PROVE Inv'
  BY <1>1, ResumeStep, RequestsAreProcs
<1>2. ASSUME NEW r \in Requests, NEW t \in Tickets, TicketRequest(r, t) PROVE Inv'
  BY <1>2, ScanStep, WrapStep DEF TicketRequest
<1>3. ASSUME NEW r \in Requests, NEW g \in Gifts, GiftRequest(r, g) PROVE Inv'
  BY <1>3, GiftRequestStep, InsertGiftStep DEF GiftRequest
<1>4. ASSUME GiftJobStep PROVE Inv'
  BY <1>4, SweepStep, SweepNextStep, ResumeStep, RequestsAreProcs DEF GiftJobStep
<1>5. ASSUME ExpiryJobStep PROVE Inv'
  BY <1>5, ExpiryReadStep, ExpiryLoadStep, ExpiryWriteStep DEF ExpiryJobStep
<1>6. ASSUME Tick PROVE Inv'
  <2>1. now' \in 0 .. Start
    BY <1>6, TicketsAssumption DEF Tick, TicketsAssumption, Inv, TicketsTypeOK
  <2> QED
    BY <1>6, <2>1, QuietStep DEF Tick
<1>7. ASSUME UNCHANGED vars PROVE Inv'
  BY <1>7, QuietStep DEF vars, Inv, TicketsTypeOK
<1> QED
  BY <1>1, <1>2, <1>3, <1>4, <1>5, <1>6, <1>7, CrashStep DEF Next

LEMMA InvAlways == Spec => []Inv
<1>1. Init => Inv
  BY InvInit
<1>2. Inv /\ [Next]_vars => Inv'
  BY InvStep
<1> QED
  BY <1>1, <1>2, PTL DEF Spec

\* The types of the tables, the clock and what is noted of every ticket.
THEOREM TicketsTyped == Spec => []TicketsTypeOK
<1>1. Inv => TicketsTypeOK
  BY DEF Inv
<1> QED
  BY <1>1, InvAlways, PTL

\* However many scanners, buyers and jobs save the entity of a ticket over each
\* other, it admits one person and one more for each save that came late
\* (tickets.service.ts, verifyTicket and verifyQrCheckIn).
THEOREM TicketAdmitsOnce == Spec => []AdmissionsBounded
<1>1. Inv => AdmissionsBounded
  BY DEF Inv
<1> QED
  BY <1>1, InvAlways, PTL

\* A listing is sold once, and once more for each save that came late
\* (resale.service.ts, buyResaleTicket).
THEOREM ListingSoldOnce == Spec => []SalesBounded
<1>1. Inv => SalesBounded
  BY DEF Inv
<1> QED
  BY <1>1, InvAlways, PTL

\* A gift is marked as delivered only after its recipient was made the owner,
\* whatever restarts and races come between (ticket-gifting.service.ts).
THEOREM GiftsArrive == Spec => []DeliveredGiftsArrived
<1>1. Inv => DeliveredGiftsArrived
  BY DEF Inv
<1> QED
  BY <1>1, InvAlways, PTL
=============================================================================
