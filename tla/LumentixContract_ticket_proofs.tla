------------------- MODULE LumentixContract_ticket_proofs -------------------
(***************************************************************************)
(* The safety of events, tickets, seats and escrow, and the refinement of  *)
(* TicketPromise, for every value of the constants.                        *)
(***************************************************************************)
EXTENDS LumentixContract_proofs

-----------------------------------------------------------------------------
(* Final statuses.                                                         *)

\* An event that is over keeps its status and its price in every step.
LEMMA TerminalStep ==
    ASSUME TypeOK, [Next]_vars, NEW e \in Events,
           events[e].status \in Terminal
    PROVE  /\ events'[e].status = events[e].status
           /\ events'[e].price = events[e].price
<1> DEFINE Kept == /\ events'[e].status = events[e].status
                   /\ events'[e].price = events[e].price
<1>1. events \in [Events -> Event] /\ events[e] \in Event
  BY DEF TypeOK
<1>2. /\ events[e].status \notin {"Absent", "Draft", "Published"}
  BY DEF Terminal
<1>3. ASSUME NEW f \in Events, LifecycleStep(f) PROVE Kept
  <2>1. CASE f = e
    <3>1. ~ (Created(f) /\ events[f].status \in {"Draft", "Published"})
          /\ Created(f)
      BY <1>2, <2>1 DEF Created
    <3>2. \A p, end, c : /\ ~ CreateEvent(f, p, end, c)
                         /\ ~ UpdateEvent(f, p, end, c)
                         /\ ~ UpdateEventMetadata(f, p, end, c)
      BY <1>2, <2>1 DEF CreateEvent, UpdateEvent, UpdateEventMetadata,
         Created, Published
    <3>3. /\ \A s : ~ UpdateEventStatus(f, s)
          /\ ~ CancelEvent(f) /\ ~ CompleteEvent(f)
          /\ \A end : ~ ExtendEventEndTime(f, end)
          /\ ~ PauseTicketSales(f)
      BY <1>2, <2>1 DEF UpdateEventStatus, CancelEvent, CompleteEvent,
         ExtendEventEndTime, PauseTicketSales, Published
    <3>4. CASE ResumeTicketSales(f)
      BY <1>1, <2>1, <3>4 DEF ResumeTicketSales, Event
    <3>5. ASSUME NEW c \in Capacities, SetEventCapacity(f, c) PROVE Kept
      BY <1>1, <2>1, <3>5 DEF SetEventCapacity, Event
    <3> QED
      BY <1>3, <3>2, <3>3, <3>4, <3>5 DEF LifecycleStep
  <2>2. CASE f # e
    <3>1. events'[e] = events[e]
      BY <1>1, <1>3, <2>2 DEF LifecycleStep, CreateEvent, UpdateEvent,
         UpdateEventMetadata, Edit, UpdateEventStatus, CancelEvent,
         CompleteEvent, SetStatus, ExtendEventEndTime, PauseTicketSales,
         ResumeTicketSales, SetEventCapacity
    <3> QED
      BY <3>1
  <2> QED
    BY <2>1, <2>2
<1>4. ASSUME NEW f \in Events, NEW b, NEW q, NEW a, Sell(f, b, q, a)
      PROVE  Kept
  BY <1>1, <1>4 DEF Sell, Event
<1>5. ASSUME NEW f \in Events, SaleStep(f) PROVE Kept
  BY <1>4, <1>5 DEF SaleStep, PurchaseTicket, BatchPurchaseTickets
<1>6. ASSUME NEW f \in Events, NEW T, PayBack(f, T) PROVE Kept
  BY <1>1, <1>6 DEF PayBack, Event
<1>7. ASSUME TicketStep PROVE Kept
  <2>1. ASSUME NEW i \in Ids, RefundTicket(i) PROVE Kept
    BY <1>6, <2>1, TicketIsTyped DEF RefundTicket
  <2> QED
    BY <1>7, <2>1 DEF TicketStep, UseTickets, RevokeTicket, TransferTicket
<1>8. ASSUME NEW f \in Events, MoneyStep(f) PROVE Kept
  <2>1. CASE ExecuteMassRefund(f)
    BY <1>6, <2>1 DEF ExecuteMassRefund
  <2> QED
    BY <1>8, <2>1 DEF MoneyStep, ReleaseEscrow, DepositFunds, WithdrawFunds,
       DistributeRoyalties, CreateEscrowSplit, ReleaseEscrowFunds,
       DisputeEscrowSplit, SetVenueCapacity, IncrementAttendanceCounter
<1>9. ASSUME NEW f \in Events, WaitlistStep(f) PROVE Kept
  BY <1>9 DEF WaitlistStep, JoinWaitlist, ProcessWaitlistQueue,
     NotifyWaitlistAvailability, ReleaseSpotToNextInLine,
     ExpireWaitlistOffer, SetWaitlist
<1>10. ASSUME AdminStep \/ Tick \/ UNCHANGED vars PROVE Kept
  BY <1>10 DEF AdminStep, WithdrawPlatformFees, SetPlatformFee, Tick, vars
<1> QED
  BY <1>3, <1>5, <1>7, <1>8, <1>9, <1>10 DEF Next

\* Whatever anyone calls afterwards, a completed or cancelled event stays
\* one, and the price its refunds are paid at no longer moves.
THEOREM TerminalIsFinal == Spec => TerminalFrozen
<1> DEFINE Frozen ==
        \A e \in Events :
            events[e].status \in Terminal =>
                /\ events'[e].status = events[e].status
                /\ events'[e].price = events[e].price
<1>1. TypeOK /\ [Next]_vars => Frozen
  BY TerminalStep
<1>2. Spec => [][Frozen]_vars
  BY <1>1, TypeCorrect, PTL DEF Spec
<1> QED
  BY <1>2 DEF TerminalFrozen

-----------------------------------------------------------------------------
(* The venue.                                                              *)

LEMMA LifecycleKeepsSold ==
    ASSUME TypeOK, NEW e \in Events, NEW f \in Events, LifecycleStep(f)
    PROVE  \/ events'[e].sold = events[e].sold
           \/ ~ Created(e) /\ events'[e].sold = 0
<1> DEFINE Kept == \/ events'[e].sold = events[e].sold
                   \/ ~ Created(e) /\ events'[e].sold = 0
<1>1. events \in [Events -> Event] /\ events[e] \in Event
  BY DEF TypeOK
<1>2. ASSUME NEW p, NEW end, NEW c, CreateEvent(f, p, end, c) PROVE Kept
  BY <1>1, <1>2 DEF CreateEvent, Event
<1>3. ASSUME NEW p, NEW end, NEW c, Edit(f, p, end, c) PROVE Kept
  BY <1>1, <1>3 DEF Edit, Event
<1>4. ASSUME NEW x, SetStatus(f, x) PROVE Kept
  BY <1>1, <1>4 DEF SetStatus, Event
<1>5. ASSUME NEW end, ExtendEventEndTime(f, end) PROVE Kept
  BY <1>1, <1>5 DEF ExtendEventEndTime, Event
<1>6. CASE PauseTicketSales(f)
  BY <1>1, <1>6 DEF PauseTicketSales, Event
<1>7. CASE ResumeTicketSales(f)
  BY <1>1, <1>7 DEF ResumeTicketSales, Event
<1>8. ASSUME NEW c, SetEventCapacity(f, c) PROVE Kept
  BY <1>1, <1>8 DEF SetEventCapacity, Event
<1> QED
  BY <1>2, <1>3, <1>4, <1>5, <1>6, <1>7, <1>8
  DEF LifecycleStep, UpdateEvent, UpdateEventMetadata, UpdateEventStatus,
      CancelEvent, CompleteEvent

SeatsFit(r, v) == v.configured => r.sold <= v.minted /\ v.minted <= v.max

\* The minted counter moves with tickets_sold, and a sale or a manual
\* increment that would pass the venue limit is turned away.
THEOREM VenueNeverOverbooked == Spec => []VenueNeverOverfilled
<1>1. Init => VenueNeverOverfilled
  BY DEF Init, VenueNeverOverfilled, Unlimited
<1>2. TypeOK /\ VenueNeverOverfilled /\ [Next]_vars => VenueNeverOverfilled'
  <2> SUFFICES ASSUME TypeOK, VenueNeverOverfilled, [Next]_vars,
                      NEW e \in Events
               PROVE  SeatsFit(events'[e], venue'[e])
    BY DEF VenueNeverOverfilled, SeatsFit
  <2>1. /\ events \in [Events -> Event] /\ events[e] \in Event
        /\ venue \in [Events -> VenueState] /\ venue[e] \in VenueState
    BY DEF TypeOK
  <2>2. SeatsFit(events[e], venue[e])
    BY DEF VenueNeverOverfilled, SeatsFit
  <2>3. ASSUME venue'[e] = venue[e], events'[e].sold <= events[e].sold,
               events'[e].sold \in Nat
        PROVE  SeatsFit(events'[e], venue'[e])
    BY <2>1, <2>2, <2>3 DEF SeatsFit, Event, VenueState
  <2>4. ASSUME NEW f \in Events, LifecycleStep(f)
        PROVE  SeatsFit(events'[e], venue'[e])
    <3>1. venue' = venue
      BY <2>4 DEF LifecycleStep, CreateEvent, UpdateEvent,
         UpdateEventMetadata, Edit, UpdateEventStatus, CancelEvent,
         CompleteEvent, SetStatus, ExtendEventEndTime, PauseTicketSales,
         ResumeTicketSales, SetEventCapacity, seats
    <3>2. events'[e].sold = events[e].sold \/ events'[e].sold = 0
      BY <2>4, LifecycleKeepsSold
    <3> QED
      BY <2>1, <2>3, <3>1, <3>2 DEF Event
  <2>5. ASSUME NEW f \in Events, NEW b, NEW q \in Nat, NEW a,
               Sell(f, b, q, a)
        PROVE  SeatsFit(events'[e], venue'[e])
    <3>1. CASE f = e
      <4>1. events'[e].sold = events[e].sold + q
        BY <2>1, <2>5, <3>1 DEF Sell, Event
      <4>2. Fits(venue[e], q) /\ venue'[e] = Increment(venue[e], q)
        BY <2>1, <2>5, <3>1 DEF Sell
      <4> QED
        BY <2>1, <2>2, <4>1, <4>2
        DEF SeatsFit, Fits, Increment, Event, VenueState
    <3>2. CASE f # e
      <4>1. events'[e] = events[e] /\ venue'[e] = venue[e]
        BY <2>1, <2>5, <3>2 DEF Sell
      <4> QED
        BY <2>2, <4>1
    <3> QED
      BY <3>1, <3>2
  <2>6. ASSUME NEW f \in Events, SaleStep(f)
        PROVE  SeatsFit(events'[e], venue'[e])
    BY <2>5, <2>6, ConstantTypes
    DEF SaleStep, PurchaseTicket, BatchPurchaseTickets
  <2>7. ASSUME NEW f \in Events, NEW T \in SUBSET Ids, PayBack(f, T)
        PROVE  events'[e].sold \in Nat /\ events'[e].sold <= events[e].sold
    <3>1. events'[e].sold = events[e].sold
          \/ events'[e].sold = SatSub(events[e].sold, Cardinality(T))
      BY <2>1, <2>7 DEF PayBack, Event
    <3>2. Cardinality(T) \in Nat
      BY IdsFinite
    <3> QED
      BY <2>1, <3>1, <3>2 DEF SatSub, Event
  <2>8. ASSUME NEW i \in Ids, RefundTicket(i)
        PROVE  SeatsFit(events'[e], venue'[e])
    <3> DEFINE f == tickets[i].event
               k == Cardinality({i})
    <3>1. f \in Events
      BY TicketIsTyped
    <3>2. PayBack(f, {i}) /\ venue' = [venue EXCEPT ![f] =
                                         Decrement(venue[f], 1)]
      BY <2>8 DEF RefundTicket
    <3>3. CASE f = e
      <4>1. k = 1
        BY FS_Singleton
      <4>2. events'[e].sold = SatSub(events[e].sold, k)
        BY <2>1, <3>2, <3>3 DEF PayBack, Event
      <4>3. venue'[e] = Decrement(venue[e], 1)
        BY <2>1, <3>2, <3>3
      <4> QED
        BY <2>1, <2>2, <4>1, <4>2, <4>3
        DEF SeatsFit, SatSub, Decrement, Event, VenueState
    <3>4. CASE f # e
      BY <2>1, <2>3, <2>7, <3>1, <3>2, <3>4
    <3> QED
      BY <3>3, <3>4
  <2>9. ASSUME TicketStep PROVE SeatsFit(events'[e], venue'[e])
    <3>1. CASE events' = events /\ venue' = venue
      BY <2>2, <3>1
    <3> QED
      BY <2>8, <2>9, <3>1 DEF TicketStep, UseTickets, RevokeTicket,
         TransferTicket, seats
  <2>10. ASSUME NEW f \in Events, MoneyStep(f)
         PROVE  SeatsFit(events'[e], venue'[e])
    <3>1. CASE events' = events /\ venue' = venue
      BY <2>2, <3>1
    <3>2. CASE ExecuteMassRefund(f)
      BY <2>3, <2>7, <3>2 DEF ExecuteMassRefund, Eligible, Outstanding
    <3>3. ASSUME NEW c \in VenueLimits, SetVenueCapacity(f, c)
          PROVE  SeatsFit(events'[e], venue'[e])
      <4>1. CASE f = e
        <5>1. /\ events'[e] = events[e]
              /\ venue'[e] = Configure(venue[e], c, events[e].sold)
              /\ CanConfigure(venue[e], c, events[e].sold)
          BY <2>1, <3>3, <4>1 DEF SetVenueCapacity
        <5>2. c \in Nat
          BY ConstantTypes
        <5> QED
          BY <2>1, <2>2, <5>1, <5>2 DEF SeatsFit, Configure, CanConfigure,
             MintedSoFar, Event, VenueState
      <4>2. CASE f # e
        <5>1. events'[e] = events[e] /\ venue'[e] = venue[e]
          BY <2>1, <3>3, <4>2 DEF SetVenueCapacity
        <5> QED
          BY <2>2, <5>1
      <4> QED
        BY <4>1, <4>2
    <3>4. ASSUME NEW q \in Quantities, IncrementAttendanceCounter(f, q)
          PROVE  SeatsFit(events'[e], venue'[e])
      <4>1. CASE f = e
        <5>1. /\ events'[e] = events[e]
              /\ venue'[e] = Increment(venue[e], q)
              /\ Fits(venue[e], q)
          BY <2>1, <3>4, <4>1 DEF IncrementAttendanceCounter
        <5>2. q \in Nat
          BY ConstantTypes
        <5> QED
          BY <2>1, <2>2, <5>1, <5>2 DEF SeatsFit, Increment, Fits,
             Event, VenueState
      <4>2. CASE f # e
        <5>1. events'[e] = events[e] /\ venue'[e] = venue[e]
          BY <2>1, <3>4, <4>2 DEF IncrementAttendanceCounter
        <5> QED
          BY <2>2, <5>1
      <4> QED
        BY <4>1, <4>2
    <3> QED
      BY <2>10, <3>1, <3>2, <3>3, <3>4 DEF MoneyStep, ReleaseEscrow,
         DepositFunds, WithdrawFunds, DistributeRoyalties,
         CreateEscrowSplit, ReleaseEscrowFunds, DisputeEscrowSplit, seats
  <2>11. ASSUME NEW f \in Events, WaitlistStep(f)
         PROVE  SeatsFit(events'[e], venue'[e])
    BY <2>2, <2>11 DEF WaitlistStep, JoinWaitlist, ProcessWaitlistQueue,
       NotifyWaitlistAvailability, ReleaseSpotToNextInLine,
       ExpireWaitlistOffer, SetWaitlist
  <2>12. ASSUME AdminStep \/ Tick \/ UNCHANGED vars
         PROVE  SeatsFit(events'[e], venue'[e])
    BY <2>2, <2>12 DEF AdminStep, WithdrawPlatformFees, SetPlatformFee,
       Tick, vars, seats
  <2> QED
    BY <2>4, <2>6, <2>9, <2>10, <2>11, <2>12 DEF Next
<1> QED
  BY <1>1, <1>2, TypeCorrect, PTL DEF Spec

-----------------------------------------------------------------------------
(* What can become of a ticket.                                            *)

\* No step takes a published event back to a draft.
LEMMA NeverDraftAgain ==
    ASSUME TypeOK, [Next]_vars, NEW e \in Events,
           events[e].status \notin {"Absent", "Draft"}
    PROVE  events'[e].status \notin {"Absent", "Draft"}
<1> DEFINE Kept == events'[e].status \notin {"Absent", "Draft"}
<1>1. events \in [Events -> Event] /\ events[e] \in Event
  BY DEF TypeOK
<1>2. CASE events[e].status \in Terminal
  BY <1>2, TerminalStep
<1>3. CASE events[e].status = "Published"
  <2>1. ASSUME NEW f \in Events, LifecycleStep(f) PROVE Kept
    <3>1. ASSUME NEW p, NEW end, NEW c, CreateEvent(f, p, end, c) PROVE Kept
      BY <1>1, <1>3, <3>1 DEF CreateEvent, Created, Event
    <3>2. ASSUME NEW p, NEW end, NEW c, Edit(f, p, end, c) PROVE Kept
      BY <1>1, <1>3, <3>2 DEF Edit, Event
    <3>3. ASSUME NEW x \in {"Published", "Cancelled", "Completed"},
                 SetStatus(f, x)
          PROVE  Kept
      BY <1>1, <1>3, <3>3 DEF SetStatus, Event
    <3>4. ASSUME NEW end, ExtendEventEndTime(f, end) PROVE Kept
      BY <1>1, <1>3, <3>4 DEF ExtendEventEndTime, Event
    <3>5. CASE PauseTicketSales(f)
      BY <1>1, <1>3, <3>5 DEF PauseTicketSales, Event
    <3>6. CASE ResumeTicketSales(f)
      BY <1>1, <1>3, <3>6 DEF ResumeTicketSales, Event
    <3>7. ASSUME NEW c, SetEventCapacity(f, c) PROVE Kept
      BY <1>1, <1>3, <3>7 DEF SetEventCapacity, Event
    <3> QED
      BY <2>1, <3>1, <3>2, <3>3, <3>4, <3>5, <3>6, <3>7
      DEF LifecycleStep, UpdateEvent, UpdateEventMetadata,
          UpdateEventStatus, CancelEvent, CompleteEvent
  <2>2. ASSUME NEW f \in Events, NEW b, NEW q, NEW a, Sell(f, b, q, a)
        PROVE  Kept
    BY <1>1, <1>3, <2>2 DEF Sell, Event
  <2>3. ASSUME NEW f \in Events, SaleStep(f) PROVE Kept
    BY <2>2, <2>3 DEF SaleStep, PurchaseTicket, BatchPurchaseTickets
  <2>4. ASSUME NEW f \in Events, NEW T, PayBack(f, T) PROVE Kept
    BY <1>1, <1>3, <2>4 DEF PayBack, Event
  <2>5. ASSUME TicketStep PROVE Kept
    <3>1. ASSUME NEW i \in Ids, RefundTicket(i) PROVE Kept
      BY <2>4, <3>1, TicketIsTyped DEF RefundTicket
    <3> QED
      BY <1>3, <2>5, <3>1
      DEF TicketStep, UseTickets, RevokeTicket, TransferTicket
  <2>6. ASSUME NEW f \in Events, MoneyStep(f) PROVE Kept
    <3>1. CASE ExecuteMassRefund(f)
      BY <2>4, <3>1 DEF ExecuteMassRefund
    <3> QED
      BY <1>3, <2>6, <3>1 DEF MoneyStep, ReleaseEscrow, DepositFunds,
         WithdrawFunds, DistributeRoyalties, CreateEscrowSplit,
         ReleaseEscrowFunds, DisputeEscrowSplit, SetVenueCapacity,
         IncrementAttendanceCounter
  <2>7. ASSUME NEW f \in Events, WaitlistStep(f) PROVE Kept
    BY <1>3, <2>7 DEF WaitlistStep, JoinWaitlist, ProcessWaitlistQueue,
       NotifyWaitlistAvailability, ReleaseSpotToNextInLine,
       ExpireWaitlistOffer, SetWaitlist
  <2>8. ASSUME AdminStep \/ Tick \/ UNCHANGED vars PROVE Kept
    BY <1>3, <2>8 DEF AdminStep, WithdrawPlatformFees, SetPlatformFee, Tick,
       vars
  <2> QED
    BY <2>1, <2>3, <2>5, <2>6, <2>7, <2>8 DEF Next
<1> QED
  BY <1>1, <1>2, <1>3 DEF Event, Statuses, Terminal

\* How one step changes the ticket table.
Minted == \E e \in Events, b \in Users, q, a \in Nat :
             Published(e) /\ Sell(e, b, q, a)

Repaid == \E e \in Events : \E T \in SUBSET Eligible(e) : PayBack(e, T)

Kept == /\ tickets' = tickets
        /\ \A e \in Events :
              \/ events'[e].sold = events[e].sold
              \/ ~ Created(e) /\ events'[e].sold = 0

LEMMA SaleMints ==
    ASSUME TypeOK, NEW f \in Events, SaleStep(f)
    PROVE  Minted
<1>1. PICK b \in Users :
        \/ \E p \in RequiredPrices(f), tip \in Tips :
              PurchaseTicket(f, b, p + tip)
        \/ \E q \in Quantities, unit \in RequiredPrices(f) :
              BatchPurchaseTickets(f, b, q, unit)
  BY DEF SaleStep
<1>2. ASSUME NEW p \in RequiredPrices(f), NEW tip \in Tips,
             PurchaseTicket(f, b, p + tip)
      PROVE  Minted
  <2>1. p + tip \in Nat
    BY RequiredPriceType, ConstantTypes
  <2>2. Published(f) /\ Sell(f, b, 1, p + tip)
    BY <1>2 DEF PurchaseTicket, OnSale
  <2> QED
    BY <2>1, <2>2 DEF Minted
<1>3. ASSUME NEW q \in Quantities, NEW unit \in RequiredPrices(f),
             BatchPurchaseTickets(f, b, q, unit)
      PROVE  Minted
  <2>1. q \in Nat /\ unit \in Nat
    BY RequiredPriceType, ConstantTypes
  <2>2. unit * q \in Nat
    BY <2>1
  <2>3. Published(f) /\ Sell(f, b, q, unit * q)
    BY <1>3 DEF BatchPurchaseTickets, OnSale
  <2> QED
    BY <2>1, <2>2, <2>3 DEF Minted
<1> QED
  BY <1>1, <1>2, <1>3

LEMMA TicketSteps ==
    ASSUME TypeOK, [Next]_vars
    PROVE  \/ Kept
           \/ Minted
           \/ Repaid
           \/ \E T \in SUBSET Ids : UseTickets(T)
           \/ \E i \in Ids : RevokeTicket(i)
           \/ \E i \in Ids, to \in Users : TransferTicket(i, to)
<1>1. ASSUME NEW f \in Events, LifecycleStep(f) PROVE Kept
  <2>1. tickets' = tickets
    BY <1>1 DEF LifecycleStep, CreateEvent, UpdateEvent,
       UpdateEventMetadata, Edit, UpdateEventStatus, CancelEvent,
       CompleteEvent, SetStatus, ExtendEventEndTime, PauseTicketSales,
       ResumeTicketSales, SetEventCapacity
  <2> QED
    BY <1>1, <2>1, LifecycleKeepsSold DEF Kept
<1>2. ASSUME NEW f \in Events, SaleStep(f) PROVE Minted
  BY <1>2, SaleMints
<1>3. ASSUME NEW i \in Ids, RefundTicket(i) PROVE Repaid
  <2>1. tickets[i].event \in Events
    BY TicketIsTyped
  <2> QED
    BY <1>3, <2>1 DEF RefundTicket, Repaid
<1>4. ASSUME NEW f \in Events, MoneyStep(f) PROVE Kept \/ Repaid
  <2>1. CASE ExecuteMassRefund(f)
    BY <2>1 DEF ExecuteMassRefund, Repaid
  <2> QED
    BY <1>4, <2>1 DEF Kept, MoneyStep, ReleaseEscrow, DepositFunds,
       WithdrawFunds, DistributeRoyalties, CreateEscrowSplit,
       ReleaseEscrowFunds, DisputeEscrowSplit, SetVenueCapacity,
       IncrementAttendanceCounter
<1>5. ASSUME NEW f \in Events, WaitlistStep(f) PROVE Kept
  BY <1>5 DEF Kept, WaitlistStep, JoinWaitlist, ProcessWaitlistQueue,
     NotifyWaitlistAvailability, ReleaseSpotToNextInLine,
     ExpireWaitlistOffer, SetWaitlist
<1>6. ASSUME AdminStep \/ Tick \/ UNCHANGED vars PROVE Kept
  BY <1>6 DEF Kept, AdminStep, WithdrawPlatformFees, SetPlatformFee, Tick,
     vars
<1> QED
  BY <1>1, <1>2, <1>3, <1>4, <1>5, <1>6 DEF Next, TicketStep

Fate(t, status) ==
    /\ status \notin {"Absent", "Draft"}
    /\ t.refunded => status = "Cancelled"
    /\ ~ (t.revoked /\ (t.used \/ t.refunded))

LEMMA FatesStep ==
    ASSUME TypeOK, TicketFates, [Next]_vars
    PROVE  TicketFates'
<1>0. \A i \in Ids : Fate(tickets[i], events[tickets[i].event].status)
  BY DEF TicketFates, Fate
<1>1. SUFFICES ASSUME NEW i \in Ids'
               PROVE  Fate(tickets'[i], events'[tickets'[i].event].status)
  BY DEF TicketFates, Fate
<1>2. ASSUME i \in Ids PROVE Fate(tickets[i], events'[tickets[i].event].status)
  <2> DEFINE e == tickets[i].event
  <2>1. e \in Events
    BY <1>2, TicketIsTyped
  <2>2. Fate(tickets[i], events[e].status)
    BY <1>0, <1>2
  <2>3. events'[e].status \notin {"Absent", "Draft"}
    BY <2>1, <2>2, NeverDraftAgain DEF Fate
  <2>4. events[e].status = "Cancelled" => events'[e].status = "Cancelled"
    BY <2>1, TerminalStep DEF Terminal
  <2> QED
    BY <2>2, <2>3, <2>4 DEF Fate
<1>3. CASE tickets' = tickets
  BY <1>1, <1>2, <1>3 DEF Ids
<1>4. CASE Minted
  <2>1. PICK e \in Events, b \in Users, q \in Nat, a \in Nat :
          Published(e) /\ Sell(e, b, q, a)
    BY <1>4 DEF Minted
  <2>2. tickets' = tickets \o [j \in 1 .. q |-> NewTicket(e, b)]
    BY <2>1 DEF Sell
  <2>3. /\ Len(tickets') = Len(tickets) + q
        /\ \A j \in Ids : tickets'[j] = tickets[j]
        /\ \A j \in Len(tickets) + 1 .. Len(tickets) + q :
              tickets'[j] = NewTicket(e, b)
    BY <2>2, MintAppends
  <2>4. CASE i \in Ids
    BY <1>2, <2>3, <2>4
  <2>5. CASE i \notin Ids
    <3>1. Len(tickets) \in Nat
      BY DEF TypeOK
    <3>2. tickets'[i] = NewTicket(e, b)
      BY <1>1, <2>3, <2>5, <3>1 DEF Ids
    <3>3. events'[e].status \notin {"Absent", "Draft"}
      BY <2>1, NeverDraftAgain DEF Published
    <3> QED
      BY <3>2, <3>3 DEF Fate, NewTicket
  <2> QED
    BY <2>4, <2>5
<1>5. ASSUME NEW T \in SUBSET Ids, UseTickets(T)
      PROVE  Fate(tickets'[i], events'[tickets'[i].event].status)
  <2>1. /\ Len(tickets') = Len(tickets)
        /\ \A j \in Ids :
              /\ tickets'[j].event = tickets[j].event
              /\ tickets'[j].refunded = tickets[j].refunded
              /\ tickets'[j].revoked = tickets[j].revoked
              /\ tickets'[j].used = (tickets[j].used \/ j \in T)
    BY <1>5, UseTicketsTable
  <2>2. i \in Ids
    BY <1>1, <2>1 DEF Ids
  <2>3. i \in T => ~ tickets[i].revoked
    BY <1>5 DEF UseTickets
  <2> QED
    BY <1>2, <2>1, <2>2, <2>3 DEF Fate
<1>6. ASSUME NEW j \in Ids, RevokeTicket(j)
      PROVE  Fate(tickets'[i], events'[tickets'[i].event].status)
  <2>1. tickets \in Seq(Ticket) /\ tickets[j] \in Ticket
    BY TicketIsTyped DEF TypeOK
  <2>2. tickets' = [tickets EXCEPT ![j] = [tickets[j] EXCEPT !.revoked = TRUE]]
    BY <1>6 DEF RevokeTicket
  <2>3. i \in Ids
    BY <1>1, <2>1, <2>2 DEF Ids
  <2>4. CASE i # j
    <3>1. tickets'[i] = tickets[i]
      BY <2>1, <2>2, <2>3, <2>4 DEF Ids
    <3> QED
      BY <1>2, <2>3, <3>1
  <2>5. CASE i = j
    <3>1. i \in DOMAIN tickets
      BY <2>1, <2>3 DEF Ids
    <3>2. /\ tickets'[i].event = tickets[i].event
          /\ tickets'[i].refunded = tickets[i].refunded
          /\ tickets'[i].used = tickets[i].used
      BY <2>1, <2>2, <2>5, <3>1 DEF Ticket
    <3>3. ~ tickets[i].used /\ ~ tickets[i].refunded
      BY <1>6, <2>5 DEF RevokeTicket
    <3> QED
      BY <1>2, <2>3, <3>2, <3>3 DEF Fate
  <2> QED
    BY <2>4, <2>5
<1>7. ASSUME NEW j \in Ids, NEW to \in Users, TransferTicket(j, to)
      PROVE  Fate(tickets'[i], events'[tickets'[i].event].status)
  <2>1. tickets \in Seq(Ticket) /\ tickets[j] \in Ticket
    BY TicketIsTyped DEF TypeOK
  <2>2. tickets' = [tickets EXCEPT ![j] = [tickets[j] EXCEPT !.owner = to]]
    BY <1>7 DEF TransferTicket
  <2>3. i \in Ids
    BY <1>1, <2>1, <2>2 DEF Ids
  <2>4. /\ tickets'[i].event = tickets[i].event
        /\ tickets'[i].refunded = tickets[i].refunded
        /\ tickets'[i].revoked = tickets[i].revoked
        /\ tickets'[i].used = tickets[i].used
    BY <2>1, <2>2, <2>3 DEF Ids, Ticket
  <2> QED
    BY <1>2, <2>3, <2>4 DEF Fate
<1>8. CASE Repaid
  <2>1. PICK e \in Events : \E T \in SUBSET Eligible(e) : PayBack(e, T)
    BY <1>8 DEF Repaid
  <2>2. PICK T \in SUBSET Eligible(e) : PayBack(e, T)
    BY <2>1
  <2>3. T \in SUBSET Ids
    BY DEF Eligible, Outstanding
  <2>4. /\ Len(tickets') = Len(tickets)
        /\ \A j \in Ids :
              /\ tickets'[j].event = tickets[j].event
              /\ tickets'[j].used = tickets[j].used
              /\ tickets'[j].revoked = tickets[j].revoked
              /\ tickets'[j].refunded = (tickets[j].refunded \/ j \in T)
    BY <2>2, <2>3, PayBackTable
  <2>5. i \in Ids
    BY <1>1, <2>4 DEF Ids
  <2>6. i \in T => ~ tickets[i].revoked /\ tickets[i].event = e
    BY DEF Eligible, Outstanding
  <2>7. events[e].status = "Cancelled"
    BY <2>2 DEF PayBack
  <2>8. events'[e].status = "Cancelled"
    BY <2>7, TerminalStep DEF Terminal
  <2> QED
    BY <1>2, <2>4, <2>5, <2>6, <2>8 DEF Fate
<1> QED
  BY <1>3, <1>4, <1>5, <1>6, <1>7, <1>8, TicketSteps DEF Kept

\* A ticket's event was published; a refunded ticket's event is cancelled;
\* and a revoked ticket is neither admitted nor paid back.
THEOREM TicketFatesHold == Spec => []TicketFates
<1>1. Init => TicketFates
  BY DEF Init, TicketFates, Ids
<1>2. TypeOK /\ TicketFates /\ [Next]_vars => TicketFates'
  BY FatesStep
<1> QED
  BY <1>1, <1>2, TypeCorrect, PTL DEF Spec

-----------------------------------------------------------------------------
(* tickets_sold counts the unrefunded tickets.                             *)

LEMMA OutstandingFinite ==
    ASSUME TypeOK, NEW e \in Events
    PROVE  IsFiniteSet(Outstanding(e)) /\ Cardinality(Outstanding(e)) \in Nat
BY IdsFinite DEF Outstanding

LEMMA CardinalityOfUnion ==
    ASSUME NEW A, NEW B, IsFiniteSet(A), IsFiniteSet(B), A \cap B = {}
    PROVE  Cardinality(A \cup B) = Cardinality(A) + Cardinality(B)
<1>1. Cardinality(A \cup B) =
        Cardinality(A) + Cardinality(B) - Cardinality(A \cap B)
  BY FS_Union
<1>2. Cardinality(A \cap B) = 0
  BY FS_EmptySet
<1>3. Cardinality(A) \in Nat /\ Cardinality(B) \in Nat
  BY FS_CardinalityType
<1> QED
  BY <1>1, <1>2, <1>3

LEMMA OutstandingAfterSale ==
    ASSUME TypeOK, NEW e \in Events, NEW b \in Users, NEW q \in Nat,
           NEW a \in Nat, Sell(e, b, q, a), NEW f \in Events
    PROVE  Outstanding(f)' =
             IF f = e
             THEN Outstanding(e) \cup (Len(tickets) + 1 .. Len(tickets) + q)
             ELSE Outstanding(f)
<1>1. tickets' = tickets \o [j \in 1 .. q |-> NewTicket(e, b)]
  BY DEF Sell
<1>2. /\ Len(tickets') = Len(tickets) + q
      /\ \A j \in Ids : tickets'[j] = tickets[j]
      /\ \A j \in Len(tickets) + 1 .. Len(tickets) + q :
            tickets'[j] = NewTicket(e, b)
  BY <1>1, MintAppends
<1>3. Len(tickets) \in Nat
  BY DEF TypeOK
<1>4. Ids' = Ids \cup (Len(tickets) + 1 .. Len(tickets) + q)
      /\ Ids \cap (Len(tickets) + 1 .. Len(tickets) + q) = {}
  BY <1>2, <1>3 DEF Ids
<1>5. /\ NewTicket(e, b).event = e
      /\ NewTicket(e, b).refunded = FALSE
  BY DEF NewTicket
<1> QED
  BY <1>2, <1>4, <1>5 DEF Outstanding

LEMMA OutstandingAfterPayBack ==
    ASSUME TypeOK, NEW e \in Events, NEW T \in SUBSET Eligible(e),
           PayBack(e, T), NEW f \in Events
    PROVE  Outstanding(f)' = Outstanding(f) \ T
<1>1. T \in SUBSET Ids
  BY DEF Eligible, Outstanding
<1>2. /\ Len(tickets') = Len(tickets)
      /\ \A j \in Ids :
            /\ tickets'[j].event = tickets[j].event
            /\ tickets'[j].refunded = (tickets[j].refunded \/ j \in T)
  BY <1>1, PayBackTable
<1> QED
  BY <1>2 DEF Outstanding, Ids

LEMMA OutstandingUntouched ==
    ASSUME TypeOK, NEW f \in Events,
           \/ \E T \in SUBSET Ids : UseTickets(T)
           \/ \E i \in Ids : RevokeTicket(i)
           \/ \E i \in Ids, to \in Users : TransferTicket(i, to)
    PROVE  Outstanding(f)' = Outstanding(f)
<1> SUFFICES /\ Len(tickets') = Len(tickets)
             /\ \A j \in Ids :
                   /\ tickets'[j].event = tickets[j].event
                   /\ tickets'[j].refunded = tickets[j].refunded
  BY DEF Outstanding, Ids
<1>0. tickets \in Seq(Ticket) /\ \A j \in Ids : tickets[j] \in Ticket
  BY TicketIsTyped DEF TypeOK
<1>1. CASE \E T \in SUBSET Ids : UseTickets(T)
  BY <1>1, UseTicketsTable
<1>2. ASSUME NEW i \in Ids, RevokeTicket(i)
      PROVE  /\ Len(tickets') = Len(tickets)
             /\ \A j \in Ids :
                   /\ tickets'[j].event = tickets[j].event
                   /\ tickets'[j].refunded = tickets[j].refunded
  BY <1>0, <1>2 DEF RevokeTicket, Ids, Ticket
<1>3. ASSUME NEW i \in Ids, NEW to \in Users, TransferTicket(i, to)
      PROVE  /\ Len(tickets') = Len(tickets)
             /\ \A j \in Ids :
                   /\ tickets'[j].event = tickets[j].event
                   /\ tickets'[j].refunded = tickets[j].refunded
  BY <1>0, <1>3 DEF TransferTicket, Ids, Ticket
<1> QED
  BY <1>1, <1>2, <1>3

LEMMA SoldCountsStep ==
    ASSUME TypeOK, TicketFates, SoldCountsTickets, [Next]_vars
    PROVE  SoldCountsTickets'
<1> SUFFICES ASSUME NEW f \in Events
             PROVE  events'[f].sold = Cardinality(Outstanding(f)')
  BY DEF SoldCountsTickets
<1>0. /\ events \in [Events -> Event] /\ events[f] \in Event
      /\ events[f].sold = Cardinality(Outstanding(f))
      /\ IsFiniteSet(Outstanding(f)) /\ Cardinality(Outstanding(f)) \in Nat
  BY OutstandingFinite DEF TypeOK, SoldCountsTickets
<1>1. CASE Kept
  <2>1. Outstanding(f)' = Outstanding(f)
    BY <1>1 DEF Kept, Outstanding, Ids
  <2>2. CASE events'[f].sold = events[f].sold
    BY <1>0, <2>1, <2>2
  <2>3. CASE ~ Created(f) /\ events'[f].sold = 0
    <3>1. Outstanding(f) = {}
      BY <2>3 DEF TicketFates, Outstanding, Created
    <3> QED
      BY <2>1, <2>3, <3>1, FS_EmptySet
  <2> QED
    BY <1>1, <2>2, <2>3 DEF Kept
<1>2. CASE Minted
  <2>1. PICK e \in Events, b \in Users, q \in Nat, a \in Nat :
          Published(e) /\ Sell(e, b, q, a)
    BY <1>2 DEF Minted
  <2>2. CASE f = e
    <3> DEFINE new == Len(tickets) + 1 .. Len(tickets) + q
    <3>1. Len(tickets) \in Nat
      BY DEF TypeOK
    <3>2. IsFiniteSet(new) /\ Cardinality(new) = q
      BY <3>1, CardinalityOfInterval
    <3>3. Outstanding(f) \cap new = {}
      BY <3>1 DEF Outstanding, Ids
    <3>4. Outstanding(f)' = Outstanding(f) \cup new
      BY <2>1, <2>2, OutstandingAfterSale
    <3> HIDE DEF new
    <3>5. Cardinality(Outstanding(f) \cup new)
            = Cardinality(Outstanding(f)) + q
      <4>1. Cardinality(Outstanding(f) \cup new)
              = Cardinality(Outstanding(f)) + Cardinality(new)
        BY <1>0, <3>2, <3>3, CardinalityOfUnion
      <4> QED
        BY <3>2, <4>1
    <3>6. events'[f].sold = events[f].sold + q
      BY <1>0, <2>1, <2>2 DEF Sell, Event
    <3> QED
      BY <1>0, <3>4, <3>5, <3>6
  <2>3. CASE f # e
    <3>1. Outstanding(f)' = Outstanding(f)
      BY <2>1, <2>3, OutstandingAfterSale
    <3>2. events'[f] = events[f]
      BY <1>0, <2>1, <2>3 DEF Sell
    <3> QED
      BY <1>0, <3>1, <3>2
  <2> QED
    BY <2>2, <2>3
<1>3. CASE Repaid
  <2>1. PICK e \in Events : \E T \in SUBSET Eligible(e) : PayBack(e, T)
    BY <1>3 DEF Repaid
  <2>2. PICK T \in SUBSET Eligible(e) : PayBack(e, T)
    BY <2>1
  <2>3. Outstanding(f)' = Outstanding(f) \ T
    BY <2>2, OutstandingAfterPayBack
  <2>4. CASE f = e
    <3>1. T \subseteq Outstanding(f)
      BY <2>4 DEF Eligible
    <3>2. IsFiniteSet(T) /\ Cardinality(T) \in Nat
          /\ Cardinality(T) <= Cardinality(Outstanding(f))
      BY <1>0, <3>1, FS_Subset, FS_CardinalityType
    <3>4. Cardinality(Outstanding(f) \ T)
            = Cardinality(Outstanding(f)) - Cardinality(T)
      BY <1>0, <3>1, CardinalityOfDifference
    <3>5. events'[f].sold = SatSub(events[f].sold, Cardinality(T))
      BY <1>0, <2>2, <2>4 DEF PayBack, Event
    <3> QED
      BY <1>0, <2>3, <3>2, <3>4, <3>5 DEF SatSub
  <2>5. CASE f # e
    <3>1. Outstanding(f) \ T = Outstanding(f)
      BY <2>5 DEF Eligible, Outstanding
    <3>2. events'[f] = events[f]
      BY <1>0, <2>2, <2>5 DEF PayBack
    <3> QED
      BY <1>0, <2>3, <3>1, <3>2
  <2> QED
    BY <2>4, <2>5
<1>4. CASE \/ \E T \in SUBSET Ids : UseTickets(T)
           \/ \E i \in Ids : RevokeTicket(i)
           \/ \E i \in Ids, to \in Users : TransferTicket(i, to)
  <2>1. Outstanding(f)' = Outstanding(f)
    BY <1>4, OutstandingUntouched
  <2>2. events' = events
    BY <1>4 DEF UseTickets, RevokeTicket, TransferTicket
  <2> QED
    BY <1>0, <2>1, <2>2
<1> QED
  BY <1>1, <1>2, <1>3, <1>4, TicketSteps

\* The counter that sales check against the ticket limit is the number of
\* tickets not refunded: the saturating subtraction of a refund never hits
\* its floor, and neither does anything forget to move the counter.
THEOREM SoldIsExact == Spec => []SoldCountsTickets
<1>1. Init => SoldCountsTickets
  <2> SUFFICES ASSUME Init, NEW e \in Events
               PROVE  events[e].sold = Cardinality(Outstanding(e))
    BY DEF SoldCountsTickets
  <2>1. Outstanding(e) = {}
    BY DEF Init, Outstanding, Ids
  <2> QED
    BY <2>1, FS_EmptySet DEF Init
<1>2. TypeOK /\ TicketFates /\ SoldCountsTickets /\ [Next]_vars
        => SoldCountsTickets'
  BY SoldCountsStep
<1> QED
  BY <1>1, <1>2, TypeCorrect, TicketFatesHold, PTL DEF Spec

-----------------------------------------------------------------------------
(* The escrow of a cancelled event.                                        *)

LEMMA CancelledEscrowSteps ==
    ASSUME TypeOK, [Next]_vars, NEW e \in Events,
           events[e].status = "Cancelled"
    PROVE  \/ escrow'[e] = escrow[e] /\ Outstanding(e) \ Outstanding(e)' = {}
           \/ \E T \in SUBSET Eligible(e) : PayBack(e, T)
           \/ escrow'[e] = 0 /\ splits'[e] # splits[e]
<1> DEFINE Idle ==
        escrow'[e] = escrow[e] /\ Outstanding(e) \ Outstanding(e)' = {}
           Pays == \E T \in SUBSET Eligible(e) : PayBack(e, T)
           Splits == escrow'[e] = 0 /\ splits'[e] # splits[e]
<1>0. /\ escrow \in [Events -> Nat]
      /\ splits \in [Events -> Seq(Split)]
  BY DEF TypeOK
<1>1. ASSUME tickets' = tickets, escrow'[e] = escrow[e] PROVE Idle
  BY <1>1 DEF Outstanding, Ids
<1>2. ASSUME NEW f \in Events, LifecycleStep(f) PROVE Idle
  <2>1. tickets' = tickets /\ escrow' = escrow
    BY <1>2 DEF LifecycleStep, CreateEvent, UpdateEvent,
       UpdateEventMetadata, Edit, UpdateEventStatus, CancelEvent,
       CompleteEvent, SetStatus, ExtendEventEndTime, PauseTicketSales,
       ResumeTicketSales, SetEventCapacity, money
  <2> QED
    BY <1>1, <2>1
<1>3. CASE Minted
  <2>1. PICK f \in Events, b \in Users, q \in Nat, a \in Nat :
          Published(f) /\ Sell(f, b, q, a)
    BY <1>3 DEF Minted
  <2>2. f # e
    BY <2>1 DEF Published
  <2>3. Outstanding(e)' = Outstanding(e)
    BY <2>1, <2>2, OutstandingAfterSale
  <2>4. escrow'[e] = escrow[e]
    BY <1>0, <2>1, <2>2 DEF Sell
  <2> QED
    BY <2>3, <2>4
<1>4. ASSUME NEW f \in Events, NEW T \in SUBSET Eligible(f), PayBack(f, T)
      PROVE  Idle \/ Pays
  <2>1. CASE f = e
    BY <1>4, <2>1
  <2>2. CASE f # e
    <3>1. Outstanding(e)' = Outstanding(e) \ T
      BY <1>4, OutstandingAfterPayBack
    <3>2. Outstanding(e) \ T = Outstanding(e)
      BY <2>2 DEF Eligible, Outstanding
    <3>3. escrow'[e] = escrow[e]
      BY <1>0, <1>4, <2>2 DEF PayBack
    <3> QED
      BY <3>1, <3>2, <3>3
  <2> QED
    BY <2>1, <2>2
<1>5. ASSUME NEW f \in Events, MoneyStep(f) PROVE Idle \/ Pays \/ Splits
  <2>1. CASE ExecuteMassRefund(f)
    BY <1>4, <2>1 DEF ExecuteMassRefund
  <2>2. ASSUME NEW i \in 1 .. Len(splits[f]), ReleaseEscrowFunds(f, i)
        PROVE  Idle \/ Splits
    <3>1. CASE f = e
      <4> DEFINE x == splits[e]
      <4>1. x \in Seq(Split) /\ i \in 1 .. Len(x) /\ x[i] \in Split
        BY <1>0, <3>1, ElementOfSeq
      <4>2. splits'[e] = [x EXCEPT ![i] = Release(x[i])]
        BY <1>0, <2>2, <3>1 DEF ReleaseEscrowFunds
      <4>3. ~ x[i].released
        BY <2>2, <3>1 DEF ReleaseEscrowFunds, IsOpen
      <4>4. escrow'[e] = 0
        BY <1>0, <2>2, <3>1 DEF ReleaseEscrowFunds
      <4>5. Release(x[i]) # x[i]
        BY <4>1, <4>3 DEF Release, Split
      <4> HIDE DEF x
      <4>6. splits'[e][i] = Release(x[i])
        BY <4>1, <4>2
      <4>7. splits'[e] # x
        BY <4>5, <4>6
      <4> QED
        BY <4>4, <4>7 DEF x
    <3>2. CASE f # e
      BY <1>0, <1>1, <2>2, <3>2 DEF ReleaseEscrowFunds
    <3> QED
      BY <3>1, <3>2
  <2>3. ASSUME \/ ReleaseEscrow(f)
               \/ \E a \in Transfers : \/ DepositFunds(f, a)
                                       \/ WithdrawFunds(f, a)
                                       \/ DistributeRoyalties(f, a)
        PROVE  Idle
    <3>1. f # e
      BY <2>3 DEF ReleaseEscrow, DepositFunds, WithdrawFunds,
         DistributeRoyalties
    <3>2. tickets' = tickets /\ escrow'[e] = escrow[e]
      BY <1>0, <2>3, <3>1 DEF ReleaseEscrow, DepositFunds, WithdrawFunds,
         DistributeRoyalties
    <3> QED
      BY <1>1, <3>2
  <2>4. ASSUME \/ \E i \in 1 .. Len(splits[f]) : DisputeEscrowSplit(f, i)
               \/ CreateEscrowSplit(f)
               \/ \E c \in VenueLimits : SetVenueCapacity(f, c)
               \/ \E q \in Quantities : IncrementAttendanceCounter(f, q)
        PROVE  Idle
    BY <1>1, <2>4 DEF CreateEscrowSplit, DisputeEscrowSplit,
       SetVenueCapacity, IncrementAttendanceCounter, money
  <2> QED
    BY <1>5, <2>1, <2>2, <2>3, <2>4 DEF MoneyStep
<1>6. CASE TicketStep
  <2>1. ASSUME NEW i \in Ids, RefundTicket(i) PROVE Idle \/ Pays
    <3>1. tickets[i].event \in Events
      BY TicketIsTyped
    <3> QED
      BY <1>4, <2>1, <3>1 DEF RefundTicket
  <2>2. ASSUME \/ \E T \in SUBSET Ids : UseTickets(T)
               \/ \E i \in Ids : RevokeTicket(i)
               \/ \E i \in Ids, to \in Users : TransferTicket(i, to)
        PROVE  Idle
    <3>1. Outstanding(e)' = Outstanding(e)
      BY <2>2, OutstandingUntouched
    <3>2. escrow' = escrow
      BY <2>2 DEF UseTickets, RevokeTicket, TransferTicket, money
    <3> QED
      BY <3>1, <3>2
  <2> QED
    BY <1>6, <2>1, <2>2 DEF TicketStep
<1>7. ASSUME NEW f \in Events, WaitlistStep(f) PROVE Idle
  BY <1>1, <1>7 DEF WaitlistStep, JoinWaitlist, ProcessWaitlistQueue,
     NotifyWaitlistAvailability, ReleaseSpotToNextInLine,
     ExpireWaitlistOffer, SetWaitlist, money
<1>8. ASSUME AdminStep \/ Tick \/ UNCHANGED vars PROVE Idle
  BY <1>1, <1>8 DEF AdminStep, WithdrawPlatformFees, SetPlatformFee, Tick,
     vars, money
<1>9. ASSUME NEW f \in Events, SaleStep(f) PROVE Minted
  BY <1>9, SaleMints
<1> QED
  BY <1>2, <1>3, <1>5, <1>6, <1>7, <1>8, <1>9 DEF Next

\* Nothing but refunds, each at the net price, and the release of a split
\* touches the escrow of a cancelled event.
THEOREM CancelledEscrow == Spec => CancelledEscrowRefundsOrSplits
<1> DEFINE Serves ==
        \A e \in Events :
          events[e].status = "Cancelled" =>
              \/ escrow[e] - escrow'[e] =
                    Cardinality(Outstanding(e) \ Outstanding(e)')
                        * Net(events[e].price)
              \/ escrow'[e] = 0 /\ splits'[e] # splits[e]
<1>1. TypeOK /\ [Next]_vars => Serves
  <2> SUFFICES ASSUME TypeOK, [Next]_vars, NEW e \in Events,
                      events[e].status = "Cancelled",
                      ~ (escrow'[e] = 0 /\ splits'[e] # splits[e])
               PROVE  escrow[e] - escrow'[e] =
                         Cardinality(Outstanding(e) \ Outstanding(e)')
                             * Net(events[e].price)
    OBVIOUS
  <2>1. escrow \in [Events -> Nat] /\ escrow[e] \in Nat
    BY DEF TypeOK
  <2>2. Net(events[e].price) \in Nat
    <3>1. events[e].price \in Nat /\ feeBps \in 0 .. 10000
      BY DEF TypeOK, Event
    <3> QED
      BY <3>1, FeeBounds
  <2>3. CASE escrow'[e] = escrow[e]
             /\ Outstanding(e) \ Outstanding(e)' = {}
    BY <2>1, <2>2, <2>3, FS_EmptySet
  <2>4. ASSUME NEW T \in SUBSET Eligible(e), PayBack(e, T)
        PROVE  escrow[e] - escrow'[e] =
                  Cardinality(Outstanding(e) \ Outstanding(e)')
                      * Net(events[e].price)
    <3> DEFINE k == Cardinality(T)
               n == Net(events[e].price)
               g == k * n
    <3>1. Outstanding(e) \ Outstanding(e)' = T
      BY <2>4, OutstandingAfterPayBack DEF Eligible
    <3>2. k \in Nat
      BY IdsFinite DEF Eligible, Outstanding
    <3>3. g \in Nat
      BY <2>2, <3>2
    <3>4. escrow'[e] = escrow[e] - g
      BY <2>1, <2>4 DEF PayBack
    <3> HIDE DEF g
    <3>5. escrow[e] - escrow'[e] = g
      BY <2>1, <3>3, <3>4
    <3> QED
      BY <3>1, <3>5 DEF g
  <2> QED
    BY <2>3, <2>4, CancelledEscrowSteps
<1>2. Spec => [][Serves]_vars
  BY <1>1, TypeCorrect, PTL DEF Spec
<1> QED
  BY <1>2 DEF CancelledEscrowRefundsOrSplits

-----------------------------------------------------------------------------
(* The books.                                                              *)

\* The tokens held for one event are as many as its balance, whatever is
\* held for the others.
LEMMA BalanceMoves ==
    ASSUME NEW f \in [Events -> Nat], IsFiniteSet(TokensIn(f)),
           NEW e \in Events, NEW n \in Nat,
           NEW g, \A d \in Events : g[d] = IF d = e THEN n ELSE f[d]
    PROVE  /\ IsFiniteSet(TokensIn(g))
           /\ Cardinality(TokensIn(g)) =
                 Cardinality(TokensIn(f)) - f[e] + n
<1> DEFINE rest == UNION {{d} \X (1 .. f[d]) : d \in Events \ {e}}
           own(k) == {e} \X (1 .. k)
<1>1. TokensIn(f) = rest \cup own(f[e])
  BY DEF TokensIn
<1>2. TokensIn(g) = rest \cup own(n)
  <2>1. \A d \in Events \ {e} : {d} \X (1 .. g[d]) = {d} \X (1 .. f[d])
    OBVIOUS
  <2>2. rest = UNION {{d} \X (1 .. g[d]) : d \in Events \ {e}}
    BY <2>1
  <2>3. own(n) = {e} \X (1 .. g[e])
    OBVIOUS
  <2> HIDE DEF own, rest
  <2> QED
    BY <2>2, <2>3 DEF TokensIn
<1>3. \A k \in Nat : rest \cap own(k) = {}
  OBVIOUS
<1>4. \A k \in Nat : IsFiniteSet(own(k)) /\ Cardinality(own(k)) = k
  BY SeatsOfOne
<1>5. f[e] \in Nat
  OBVIOUS
<1> HIDE DEF own, rest
<1>6. IsFiniteSet(rest)
  BY <1>1, FS_Subset
<1>7. Cardinality(rest) \in Nat
  BY <1>6, FS_CardinalityType
<1>8. ASSUME NEW k \in Nat
      PROVE  /\ IsFiniteSet(rest \cup own(k))
             /\ Cardinality(rest \cup own(k)) = Cardinality(rest) + k
  <2>1. /\ IsFiniteSet(own(k)) /\ Cardinality(own(k)) = k
        /\ rest \cap own(k) = {}
    BY <1>3, <1>4
  <2>2. IsFiniteSet(rest \cup own(k))
    BY <1>6, <2>1, FS_Union
  <2>3. Cardinality(rest \cup own(k)) =
          Cardinality(rest) + Cardinality(own(k))
    BY <1>6, <2>1, CardinalityOfUnion
  <2> QED
    BY <2>1, <2>2, <2>3
<1>9. Cardinality(TokensIn(f)) = Cardinality(rest) + f[e]
  BY <1>1, <1>5, <1>8
<1>10. /\ IsFiniteSet(TokensIn(g))
       /\ Cardinality(TokensIn(g)) = Cardinality(rest) + n
  BY <1>2, <1>8
<1> QED
  BY <1>5, <1>7, <1>9, <1>10

\* How one step changes the money: not at all, by a sale, by refunds, by
\* equal amounts of one event's escrow and of the tokens, or by paying the
\* platform out.
LEMMA MoneySteps ==
    ASSUME TypeOK, [Next]_vars
    PROVE  \/ UNCHANGED money
           \/ Minted
           \/ Repaid
           \/ \E e \in Events, n \in Nat :
                 /\ escrow' = [escrow EXCEPT ![e] = n]
                 /\ tokens' = tokens - escrow[e] + n
                 /\ platform' = platform
           \/ /\ escrow' = escrow
              /\ platform' = 0
              /\ tokens' = tokens - platform
<1> DEFINE Moved(e, n) == /\ escrow' = [escrow EXCEPT ![e] = n]
                          /\ tokens' = tokens - escrow[e] + n
                          /\ platform' = platform
           Shifted == \E e \in Events, n \in Nat : Moved(e, n)
<1>1. escrow \in [Events -> Nat] /\ tokens \in Nat
  BY DEF TypeOK
<1>2. ASSUME NEW f \in Events, LifecycleStep(f) PROVE UNCHANGED money
  BY <1>2 DEF LifecycleStep, CreateEvent, UpdateEvent,
     UpdateEventMetadata, Edit, UpdateEventStatus, CancelEvent,
     CompleteEvent, SetStatus, ExtendEventEndTime, PauseTicketSales,
     ResumeTicketSales, SetEventCapacity, money
<1>3. ASSUME NEW f \in Events, SaleStep(f) PROVE Minted
  BY <1>3, SaleMints
<1>4. ASSUME NEW f \in Events, MoneyStep(f)
      PROVE  UNCHANGED money \/ Repaid \/ Shifted
  <2>1. escrow[f] \in Nat
    BY <1>1
  <2>2. ASSUME ExecuteMassRefund(f) PROVE Repaid
    BY <2>2 DEF ExecuteMassRefund, Repaid
  <2>3. ASSUME \/ ReleaseEscrow(f)
               \/ \E i \in 1 .. Len(splits[f]) : ReleaseEscrowFunds(f, i)
        PROVE  Shifted
    <3>1. Moved(f, 0)
      BY <1>1, <2>1, <2>3 DEF ReleaseEscrow, ReleaseEscrowFunds
    <3> QED
      BY <3>1
  <2>4. ASSUME NEW a \in Transfers, DepositFunds(f, a) PROVE Shifted
    <3>1. a \in Nat /\ escrow[f] + a \in Nat
      BY <2>1, ConstantTypes
    <3>2. Moved(f, escrow[f] + a)
      BY <1>1, <2>1, <2>4, <3>1 DEF DepositFunds
    <3> QED
      BY <3>1, <3>2
  <2>5. ASSUME NEW a \in Transfers, WithdrawFunds(f, a) PROVE Shifted
    <3>1. a \in Nat /\ escrow[f] - a \in Nat
      BY <2>1, <2>5, ConstantTypes DEF WithdrawFunds
    <3>2. Moved(f, escrow[f] - a)
      BY <1>1, <2>1, <2>5, <3>1 DEF WithdrawFunds
    <3> QED
      BY <3>1, <3>2
  <2>6. ASSUME \/ CreateEscrowSplit(f)
               \/ \E i \in 1 .. Len(splits[f]) : DisputeEscrowSplit(f, i)
               \/ \E c \in VenueLimits : SetVenueCapacity(f, c)
               \/ \E q \in Quantities : IncrementAttendanceCounter(f, q)
        PROVE  UNCHANGED money
    BY <2>6 DEF CreateEscrowSplit, DisputeEscrowSplit, SetVenueCapacity,
       IncrementAttendanceCounter
  <2> HIDE DEF Shifted
  <2> QED
    BY <1>4, <2>2, <2>3, <2>4, <2>5, <2>6
    DEF MoneyStep, DistributeRoyalties
<1>5. ASSUME TicketStep PROVE UNCHANGED money \/ Repaid
  <2>1. ASSUME NEW i \in Ids, RefundTicket(i) PROVE Repaid
    BY <2>1, TicketIsTyped DEF RefundTicket, Repaid
  <2> QED
    BY <1>5, <2>1 DEF TicketStep, UseTickets, RevokeTicket, TransferTicket
<1>6. ASSUME NEW f \in Events, WaitlistStep(f) PROVE UNCHANGED money
  BY <1>6 DEF WaitlistStep, JoinWaitlist, ProcessWaitlistQueue,
     NotifyWaitlistAvailability, ReleaseSpotToNextInLine,
     ExpireWaitlistOffer, SetWaitlist
<1>7. ASSUME AdminStep \/ Tick \/ UNCHANGED vars
      PROVE  \/ UNCHANGED money
             \/ /\ escrow' = escrow
                /\ platform' = 0
                /\ tokens' = tokens - platform
  BY <1>7 DEF AdminStep, WithdrawPlatformFees, SetPlatformFee, Tick, vars,
     money
<1> HIDE DEF Moved
<1> QED
  BY <1>2, <1>3, <1>4, <1>5, <1>6, <1>7 DEF Next, Moved

\* A refunded ticket stays refunded.
NoneRefunded == \A i \in Ids : ~ tickets[i].refunded

LEMMA RefundsLast ==
    ASSUME TypeOK, [Next]_vars, NoneRefunded'
    PROVE  /\ NoneRefunded
           /\ \A e \in Events : \A T \in SUBSET Eligible(e) :
                 PayBack(e, T) => T = {}
<1> DEFINE Same(i) == tickets'[i].refunded = tickets[i].refunded
<1>0. tickets \in Seq(Ticket) /\ Len(tickets) \in Nat
  BY DEF TypeOK
<1>1. ASSUME NEW e \in Events, NEW T \in SUBSET Eligible(e), PayBack(e, T)
      PROVE  NoneRefunded /\ T = {}
  <2>1. T \in SUBSET Ids
    BY DEF Eligible, Outstanding
  <2>2. \A i \in Ids :
          tickets'[i].refunded = (tickets[i].refunded \/ i \in T)
    BY <1>1, <2>1, PayBackTable
  <2>3. Ids' = Ids
    BY <1>1, <2>1, PayBackTable DEF Ids
  <2>4. \A i \in Ids : ~ tickets'[i].refunded
    BY <2>3 DEF NoneRefunded
  <2> QED
    BY <2>1, <2>2, <2>4 DEF NoneRefunded
<1>2. ASSUME \A i \in Ids : i \in Ids' /\ Same(i) PROVE NoneRefunded
  BY <1>2 DEF NoneRefunded
<1>3. ASSUME Minted PROVE NoneRefunded
  <2>1. PICK e \in Events, b \in Users, q \in Nat, a \in Nat :
          Sell(e, b, q, a)
    BY <1>3 DEF Minted
  <2>2. /\ Len(tickets') = Len(tickets) + q
        /\ \A i \in Ids : tickets'[i] = tickets[i]
    BY <2>1, MintAppends DEF Sell
  <2>3. \A i \in Ids : i \in Ids'
    BY <1>0, <2>2 DEF Ids
  <2> QED
    BY <1>2, <2>2, <2>3
<1>4. ASSUME Kept PROVE NoneRefunded
  BY <1>2, <1>4 DEF Kept, Ids
<1>5. ASSUME NEW T \in SUBSET Ids, UseTickets(T) PROVE NoneRefunded
  <2>1. Len(tickets') = Len(tickets)
        /\ \A i \in Ids : tickets'[i].refunded = tickets[i].refunded
    BY <1>5, UseTicketsTable
  <2> QED
    BY <1>2, <2>1 DEF Ids
<1>6. ASSUME NEW j \in Ids,
             RevokeTicket(j) \/ \E to \in Users : TransferTicket(j, to)
      PROVE  NoneRefunded
  <2>1. Len(tickets') = Len(tickets)
    BY <1>0, <1>6 DEF RevokeTicket, TransferTicket
  <2>2. \A i \in Ids : tickets'[i].refunded = tickets[i].refunded
    BY <1>0, <1>6, TicketIsTyped DEF RevokeTicket, TransferTicket, Ticket, Ids
  <2> QED
    BY <1>2, <2>1, <2>2 DEF Ids
<1>7. NoneRefunded
  BY <1>1, <1>3, <1>4, <1>5, <1>6, TicketSteps DEF Repaid
<1> QED
  BY <1>1, <1>7

\* What a sale takes it books, part to the escrow and part to the platform;
\* what is deposited, withdrawn, released or paid out leaves tokens and books
\* alike; and a refund takes from the tokens at least what it takes from the
\* escrow.  The number of tokens held in escrow is that of a finite set,
\* because each step changes one event's balance.
THEOREM BooksBalance == Spec => []RecordedBalancesAccountForTokens
<1> DEFINE Balanced == /\ IsFiniteSet(TokensIn(escrow))
                       /\ RecordedBalancesAccountForTokens
<1>1. Init => Balanced
  <2> SUFFICES ASSUME Init PROVE Balanced
    OBVIOUS
  <2>1. TokensIn(escrow) = {}
    BY DEF Init, TokensIn
  <2>2. IsFiniteSet(TokensIn(escrow)) /\ TotalEscrow = 0
    BY <2>1, FS_EmptySet DEF TotalEscrow
  <2>3. tokens = 0 /\ platform = 0
    BY DEF Init
  <2>4. tokens = TotalEscrow + platform /\ tokens <= TotalEscrow + platform
    BY <2>2, <2>3
  <2> QED
    BY <2>2, <2>4 DEF RecordedBalancesAccountForTokens
<1>2. TypeOK /\ Balanced /\ [Next]_vars => Balanced'
  <2> SUFFICES ASSUME TypeOK, Balanced, [Next]_vars
               PROVE  Balanced'
    OBVIOUS
  <2>1. /\ escrow \in [Events -> Nat] /\ tokens \in Nat /\ platform \in Nat
        /\ feeBps \in 0 .. 10000
    BY DEF TypeOK
  <2>2. TotalEscrow \in Nat
    BY FS_CardinalityType DEF TotalEscrow
  <2>3. NoneRefunded' => NoneRefunded
    BY RefundsLast
  <2>4. /\ tokens <= TotalEscrow + platform
        /\ NoneRefunded => tokens = TotalEscrow + platform
    BY DEF RecordedBalancesAccountForTokens, NoneRefunded
  <2>5. ASSUME IsFiniteSet(TokensIn(escrow')),
               tokens' <= TotalEscrow' + platform',
               NoneRefunded' => tokens' = TotalEscrow' + platform'
        PROVE  Balanced'
    BY <2>5 DEF RecordedBalancesAccountForTokens, NoneRefunded, TokensIn
  <2> HIDE DEF Balanced
  <2>6. ASSUME NEW e \in Events, NEW n \in Nat,
               escrow' = [escrow EXCEPT ![e] = n]
        PROVE  /\ IsFiniteSet(TokensIn(escrow'))
               /\ TotalEscrow' = TotalEscrow - escrow[e] + n
    <3>1. IsFiniteSet(TokensIn(escrow))
      BY DEF Balanced
    <3>2. /\ IsFiniteSet(TokensIn(escrow'))
          /\ Cardinality(TokensIn(escrow')) =
                Cardinality(TokensIn(escrow)) - escrow[e] + n
      <4>1. \A d \in Events : escrow'[d] = IF d = e THEN n ELSE escrow[d]
        BY <2>1, <2>6
      <4> QED
        BY <2>1, <3>1, <4>1, BalanceMoves
    <3>3. TotalEscrow' = Cardinality(TokensIn(escrow'))
      BY DEF TotalEscrow, TokensIn
    <3> QED
      BY <3>2, <3>3 DEF TotalEscrow
  <2>7. ASSUME escrow' = escrow
        PROVE  IsFiniteSet(TokensIn(escrow')) /\ TotalEscrow' = TotalEscrow
    BY <2>7 DEF TotalEscrow, Balanced, TokensIn
  <2>8. CASE UNCHANGED money
    BY <2>3, <2>4, <2>5, <2>7, <2>8 DEF money
  <2>9. CASE Minted
    <3>1. PICK e \in Events, b \in Users, q \in Nat, a \in Nat :
            Sell(e, b, q, a)
      BY <2>9 DEF Minted
    <3>2. /\ Fee(a) \in Nat /\ Net(a) \in Nat /\ Net(a) + Fee(a) = a
          /\ escrow[e] \in Nat
      BY <2>1, FeeBounds DEF Net
    <3>3. TotalEscrow' = TotalEscrow - escrow[e] + (escrow[e] + Net(a))
          /\ IsFiniteSet(TokensIn(escrow'))
      <4> DEFINE n == escrow[e] + Net(a)
      <4>1. n \in Nat
        BY <3>2
      <4>2. escrow' = [escrow EXCEPT ![e] = n]
        BY <3>1 DEF Sell
      <4> HIDE DEF n
      <4>3. TotalEscrow' = TotalEscrow - escrow[e] + n
            /\ IsFiniteSet(TokensIn(escrow'))
        BY <2>6, <4>1, <4>2
      <4> QED
        BY <4>3 DEF n
    <3>4. tokens' = tokens + a /\ platform' = platform + Fee(a)
      BY <3>1 DEF Sell
    <3>5. /\ tokens' <= TotalEscrow' + platform'
          /\ NoneRefunded => tokens' = TotalEscrow' + platform'
      <4> DEFINE net == Net(a)
                 fee == Fee(a)
                 total == TotalEscrow
      <4>1. /\ net \in Nat /\ fee \in Nat /\ net + fee = a
            /\ escrow[e] \in Nat /\ total \in Nat
        BY <2>2, <3>2
      <4>2. /\ TotalEscrow' = total - escrow[e] + (escrow[e] + net)
            /\ tokens' = tokens + a /\ platform' = platform + fee
        BY <3>3, <3>4
      <4>3. /\ tokens <= total + platform
            /\ NoneRefunded => tokens = total + platform
        BY <2>4
      <4> HIDE DEF net, fee, total
      <4> QED
        BY <2>1, <4>1, <4>2, <4>3
    <3> QED
      BY <2>3, <2>5, <3>3, <3>5
  <2>10. CASE Repaid
    <3>1. PICK e \in Events : \E T \in SUBSET Eligible(e) : PayBack(e, T)
      BY <2>10 DEF Repaid
    <3>2. PICK T \in SUBSET Eligible(e) : PayBack(e, T)
      BY <3>1
    <3> DEFINE k == Cardinality(T)
               p == events[e].price
               n == k * Net(p)
               m == k * p
    <3>3. p \in Nat /\ Net(p) \in Nat /\ Net(p) <= p
      <4>1. p \in Nat
        BY DEF TypeOK, Event
      <4> QED
        BY <2>1, <4>1, FeeBounds DEF Net
    <3>4. k \in Nat
      BY IdsFinite DEF Eligible, Outstanding
    <3>5. n \in Nat /\ m \in Nat /\ n <= m /\ (k = 0 => n = 0 /\ m = 0)
      <4> HIDE DEF k, p
      <4> QED
        BY <3>3, <3>4
    <3>6. /\ escrow' = [escrow EXCEPT ![e] = escrow[e] - n]
          /\ escrow[e] >= n
          /\ tokens' = tokens - m
          /\ platform' = platform
      BY <3>2 DEF PayBack
    <3>7. NoneRefunded' => k = 0
      BY <3>2, RefundsLast, FS_EmptySet
    <3> HIDE DEF k, n, m, p
    <3>8. escrow[e] \in Nat /\ escrow[e] - n \in Nat
      BY <2>1, <3>5, <3>6
    <3>9. TotalEscrow' = TotalEscrow - escrow[e] + (escrow[e] - n)
          /\ IsFiniteSet(TokensIn(escrow'))
      BY <2>6, <3>6, <3>8
    <3>10. /\ tokens' <= TotalEscrow' + platform'
           /\ NoneRefunded /\ k = 0 => tokens' = TotalEscrow' + platform'
      BY <2>1, <2>2, <2>4, <3>5, <3>6, <3>8, <3>9
    <3> QED
      BY <2>3, <2>5, <3>7, <3>9, <3>10
  <2>11. ASSUME NEW e \in Events, NEW n \in Nat,
                escrow' = [escrow EXCEPT ![e] = n],
                tokens' = tokens - escrow[e] + n, platform' = platform
         PROVE  Balanced'
    <3>1. TotalEscrow' = TotalEscrow - escrow[e] + n
          /\ IsFiniteSet(TokensIn(escrow'))
      BY <2>6, <2>11
    <3>2. escrow[e] \in Nat
      BY <2>1
    <3>3. /\ tokens' <= TotalEscrow' + platform'
          /\ NoneRefunded => tokens' = TotalEscrow' + platform'
      BY <2>1, <2>2, <2>4, <2>11, <3>1, <3>2
    <3> QED
      BY <2>3, <2>5, <3>1, <3>3
  <2>12. CASE escrow' = escrow /\ platform' = 0
              /\ tokens' = tokens - platform
    <3>1. /\ tokens' <= TotalEscrow' + platform'
          /\ NoneRefunded => tokens' = TotalEscrow' + platform'
      BY <2>1, <2>2, <2>4, <2>7, <2>12
    <3> QED
      BY <2>3, <2>5, <2>7, <2>12, <3>1
  <2> QED
    BY <2>8, <2>9, <2>10, <2>11, <2>12, MoneySteps
<1>3. Balanced => RecordedBalancesAccountForTokens
  OBVIOUS
<1> HIDE DEF Balanced
<1> QED
  BY <1>1, <1>2, <1>3, TypeCorrect, PTL DEF Spec

-----------------------------------------------------------------------------
(* Seats set aside.                                                        *)

LEMMA OnlySalesMint ==
    ASSUME TypeOK, [Next]_vars, ~ Kept, ~ Repaid, events' # events
    PROVE  \E f \in Events : SaleStep(f)
<1>1. ASSUME NEW f \in Events, LifecycleStep(f) PROVE Kept
  <2>1. tickets' = tickets
    BY <1>1 DEF LifecycleStep, CreateEvent, UpdateEvent,
       UpdateEventMetadata, Edit, UpdateEventStatus, CancelEvent,
       CompleteEvent, SetStatus, ExtendEventEndTime, PauseTicketSales,
       ResumeTicketSales, SetEventCapacity
  <2> QED
    BY <1>1, <2>1, LifecycleKeepsSold DEF Kept
<1>2. ASSUME NEW i \in Ids, RefundTicket(i) PROVE Repaid
  <2>1. tickets[i].event \in Events
    BY TicketIsTyped
  <2> QED
    BY <1>2, <2>1 DEF RefundTicket, Repaid
<1>3. ASSUME NEW f \in Events, MoneyStep(f)
      PROVE  events' = events \/ Repaid
  <2>1. CASE ExecuteMassRefund(f)
    BY <2>1 DEF ExecuteMassRefund, Repaid
  <2> QED
    BY <1>3, <2>1 DEF MoneyStep, ReleaseEscrow, DepositFunds,
       WithdrawFunds, DistributeRoyalties, CreateEscrowSplit,
       ReleaseEscrowFunds, DisputeEscrowSplit, SetVenueCapacity,
       IncrementAttendanceCounter
<1>4. ASSUME NEW f \in Events, WaitlistStep(f) PROVE events' = events
  BY <1>4 DEF WaitlistStep, JoinWaitlist, ProcessWaitlistQueue,
     NotifyWaitlistAvailability, ReleaseSpotToNextInLine,
     ExpireWaitlistOffer, SetWaitlist
<1>5. ASSUME AdminStep \/ Tick \/ UNCHANGED vars PROVE events' = events
  BY <1>5 DEF AdminStep, WithdrawPlatformFees, SetPlatformFee, Tick, vars
<1>6. ASSUME \/ \E T \in SUBSET Ids : UseTickets(T)
             \/ \E i \in Ids : RevokeTicket(i)
             \/ \E i \in Ids, to \in Users : TransferTicket(i, to)
      PROVE  events' = events
  BY <1>6 DEF UseTickets, RevokeTicket, TransferTicket
<1> QED
  BY <1>1, <1>2, <1>3, <1>4, <1>5, <1>6 DEF Next, TicketStep

\* A sale to the public leaves a seat for everything the waitlist reserves.
THEOREM ReservedSeatsSpared == Spec => PublicSalesSpareReservations
<1> DEFINE Spares ==
        \A e \in Events :
          /\ events'[e].sold > events[e].sold
          /\ \A b \in Users :
                Live(waitlist[e].offer[b], now) =>
                    waitlist'[e].offer[b] = waitlist[e].offer[b]
          => events'[e].sold + waitlist'[e].reserved <= events[e].max
<1>1. TypeOK /\ [Next]_vars => Spares
  <2> SUFFICES ASSUME TypeOK, [Next]_vars, NEW e \in Events,
                      events'[e].sold > events[e].sold,
                      \A b \in Users :
                         Live(waitlist[e].offer[b], now) =>
                             waitlist'[e].offer[b] = waitlist[e].offer[b]
               PROVE  events'[e].sold + waitlist'[e].reserved
                         <= events[e].max
    OBVIOUS
  <2>1. /\ events \in [Events -> Event] /\ events[e] \in Event
        /\ waitlist \in [Events -> WaitlistState]
        /\ waitlist[e] \in WaitlistState /\ now \in Nat
    BY DEF TypeOK
  <2>2. events[e].sold \in Nat /\ events[e].max \in Nat
    BY <2>1 DEF Event
  <2>3. ~ Kept /\ ~ Repaid /\ events' # events
    <3>1. ~ Kept
      BY <2>2 DEF Kept
    <3>2. ASSUME NEW f \in Events, NEW T \in SUBSET Eligible(f),
                 PayBack(f, T)
          PROVE  FALSE
      <4>1. Cardinality(T) \in Nat
        BY IdsFinite DEF Eligible, Outstanding
      <4>2. \/ events'[e].sold = events[e].sold
            \/ events'[e].sold = SatSub(events[e].sold, Cardinality(T))
        BY <2>1, <3>2 DEF PayBack, Event
      <4> QED
        BY <2>2, <4>1, <4>2 DEF SatSub
    <3> QED
      BY <2>2, <3>1, <3>2 DEF Repaid
  <2>4. PICK f \in Events : SaleStep(f)
    BY <2>3, OnlySalesMint
  <2> DEFINE w == Cleanup(waitlist[e], now)
  <2>5. w \in WaitlistState /\ w.reserved \in Nat
    <3>1. w \in WaitlistState
      BY <2>1, CleanupType
    <3> QED
      BY <3>1 DEF WaitlistState
  <2>6. ASSUME NEW b, NEW q \in Nat, NEW a, Sell(f, b, q, a)
        PROVE  f = e /\ events'[e].sold = events[e].sold + q
    <3>1. f = e
      BY <2>1, <2>2, <2>6 DEF Sell
    <3> QED
      BY <2>1, <2>6, <3>1 DEF Sell, Event
  <2>7. ASSUME NEW b \in Users, NEW a, PurchaseTicket(f, b, a)
        PROVE  events'[e].sold + waitlist'[e].reserved <= events[e].max
    <3>1. f = e /\ events'[e].sold = events[e].sold + 1
      BY <2>6, <2>7 DEF PurchaseTicket
    <3>2. ~ Live(w.offer[b], now)
      <4> SUFFICES ASSUME Live(w.offer[b], now) PROVE FALSE
        OBVIOUS
      <4>1. w.offer[b] = waitlist[e].offer[b]
        BY <2>1 DEF Cleanup, Stale, Live, WaitlistState, NoOffer
      <4>2. waitlist'[e] = Consume(w, b)
        BY <2>1, <2>7, <3>1 DEF PurchaseTicket
      <4>3. waitlist'[e].offer[b] = w.offer[b]
        BY <4>1
      <4>4. w.offer[b] \in Offer /\ w.offer[b].quantity > 0
        BY <2>5 DEF WaitlistState, Live
      <4> HIDE DEF w
      <4>5. \/ Consume(w, b).offer[b] = NoOffer
            \/ Consume(w, b).offer[b] =
                 [w.offer[b] EXCEPT !.quantity = w.offer[b].quantity - 1]
        BY <2>5 DEF Consume, WaitlistState
      <4>6. Consume(w, b).offer[b].quantity # w.offer[b].quantity
        BY <4>4, <4>5 DEF NoOffer, Offer
      <4> QED
        BY <4>2, <4>3, <4>6
    <3>3. waitlist'[e] = w /\ events[e].sold + w.reserved < events[e].max
      BY <2>1, <2>7, <3>1, <3>2 DEF PurchaseTicket
    <3> HIDE DEF w
    <3> QED
      BY <2>2, <2>5, <3>1, <3>3
  <2>8. ASSUME NEW b \in Users, NEW q \in Quantities, NEW u,
               BatchPurchaseTickets(f, b, q, u)
        PROVE  events'[e].sold + waitlist'[e].reserved <= events[e].max
    <3>0. q \in Nat /\ q > 0
      BY ContractAssumption
    <3>1. f = e /\ events'[e].sold = events[e].sold + q
      BY <2>6, <2>8, <3>0 DEF BatchPurchaseTickets
    <3>2. /\ waitlist'[e] = w
          /\ Available(events[e].max, events[e].sold, w) >= q
      BY <2>1, <2>8, <3>1 DEF BatchPurchaseTickets
    <3> HIDE DEF w
    <3> QED
      BY <2>2, <2>5, <3>0, <3>1, <3>2 DEF Available, SatSub
  <2> QED
    BY <2>4, <2>7, <2>8 DEF SaleStep
<1>2. Spec => [][Spares]_vars
  BY <1>1, TypeCorrect, PTL DEF Spec
<1> QED
  BY <1>2 DEF PublicSalesSpareReservations

-----------------------------------------------------------------------------
(***************************************************************************)
(* The contract implements TicketPromise.  Each call is one of the few     *)
(* kinds of step told apart above, and each kind is one step of the        *)
(* promise.                                                                *)
(***************************************************************************)

\* The contract's state as the promise sees it.
StatusOf == [e \in Events |-> events[e].status]
EventOf  == [i \in Ids |-> tickets[i].event]
HolderOf == [i \in Ids |-> tickets[i].owner]
Used     == {i \in Ids : tickets[i].used}
PaidBack == {i \in Ids : tickets[i].refunded}
Revoked  == {i \in Ids : tickets[i].revoked}

LotsSame  == UNCHANGED <<Len(tickets), EventOf, HolderOf>>
MarksSame == UNCHANGED <<Used, PaidBack, Revoked>>

LEMMA TicketsSame ==
    ASSUME tickets' = tickets
    PROVE  LotsSame /\ MarksSame
BY DEF LotsSame, MarksSame, EventOf, HolderOf, Used, PaidBack, Revoked, Ids

\* No call but those of the lifecycle writes a status.
LEMMA StatusStep ==
    ASSUME TypeOK, [Next]_vars
    PROVE  \/ StatusOf' = StatusOf
           \/ /\ tickets' = tickets
              /\ \E e \in Events,
                    s \in {"Draft", "Published", "Completed", "Cancelled"} :
                    Promise!Advance(e, s)
<1> DEFINE Moves == \E e \in Events,
                       s \in {"Draft", "Published", "Completed", "Cancelled"} :
                       Promise!Advance(e, s)
           Same == StatusOf' = StatusOf
<1>0. events \in [Events -> Event]
  BY DEF TypeOK
<1>1. ASSUME NEW f \in Events, NEW r \in Event, r.status = events[f].status,
             events' = [events EXCEPT ![f] = r]
      PROVE  Same
  BY <1>0, <1>1 DEF StatusOf
<1>2. ASSUME NEW f \in Events, NEW r \in Event, tickets' = tickets,
             NEW s \in {"Draft", "Published", "Completed", "Cancelled"},
             s \in Promise!Follows(events[f].status), r.status = s,
             events' = [events EXCEPT ![f] = r]
      PROVE  Moves
  <2>1. StatusOf' = [StatusOf EXCEPT ![f] = s]
    BY <1>0, <1>2 DEF StatusOf
  <2>2. LotsSame /\ MarksSame
    BY <1>2, TicketsSame
  <2>3. s \in Promise!Follows(StatusOf[f])
    BY <1>2 DEF StatusOf
  <2>4. Promise!Advance(f, s)
    BY <2>1, <2>2, <2>3 DEF Promise!Advance, Promise!lots, Promise!marks,
       LotsSame, MarksSame, StatusOf, EventOf, HolderOf, Used, PaidBack,
       Revoked
  <2> QED
    BY <2>4
<1>3. ASSUME NEW f \in Events, LifecycleStep(f)
      PROVE  Same \/ (tickets' = tickets /\ Moves)
  <2>0. events[f] \in Event /\ f \in Events
    BY <1>0
  <2>1. ASSUME NEW p \in Prices, NEW end \in EndTimes, NEW c \in Capacities,
               CreateEvent(f, p, end, c)
        PROVE  tickets' = tickets /\ Moves
    <3> DEFINE r == [status |-> "Draft", price |-> p, end |-> end, max |-> c,
                     sold |-> 0, paused |-> FALSE]
    <3>1. r \in Event /\ r.status = "Draft"
      BY ConstantTypes DEF Event, Statuses
    <3>2. events' = [events EXCEPT ![f] = r] /\ tickets' = tickets
      BY <2>1 DEF CreateEvent
    <3>3. "Draft" \in Promise!Follows(events[f].status)
      BY <2>1 DEF CreateEvent, Created, Promise!Follows
    <3> QED
      BY <1>2, <3>1, <3>2, <3>3
  <2>2. ASSUME NEW p \in Prices, NEW end \in EndTimes, NEW c \in Capacities,
               Edit(f, p, end, c)
        PROVE  Same
    <3> DEFINE r == [events[f] EXCEPT !.price = p, !.end = end, !.max = c]
    <3>1. r \in Event /\ r.status = events[f].status
      BY <2>0, ConstantTypes DEF Event
    <3>2. events' = [events EXCEPT ![f] = r]
      BY <2>2 DEF Edit
    <3> QED
      BY <1>1, <3>1, <3>2
  <2>3. ASSUME NEW s \in {"Published", "Completed", "Cancelled"},
               s \in Promise!Follows(events[f].status), SetStatus(f, s)
        PROVE  tickets' = tickets /\ Moves
    <3> DEFINE r == [events[f] EXCEPT !.status = s]
    <3>1. r \in Event /\ r.status = s
      BY <2>0 DEF Event, Statuses
    <3>2. events' = [events EXCEPT ![f] = r] /\ tickets' = tickets
      BY <2>3 DEF SetStatus
    <3> QED
      BY <1>2, <2>3, <3>1, <3>2
  <2>4. ASSUME NEW s \in Statuses, UpdateEventStatus(f, s)
        PROVE  tickets' = tickets /\ Moves
    <3>1. /\ s \in {"Published", "Completed", "Cancelled"}
          /\ s \in Promise!Follows(events[f].status)
          /\ SetStatus(f, s)
      BY <2>4 DEF UpdateEventStatus, Published, Promise!Follows
    <3> QED
      BY <2>3, <3>1
  <2>5. CASE CancelEvent(f) \/ CompleteEvent(f)
    BY <2>3, <2>5 DEF CancelEvent, CompleteEvent, Published, Promise!Follows
  <2>6. ASSUME NEW end \in EndTimes, ExtendEventEndTime(f, end) PROVE Same
    <3> DEFINE r == [events[f] EXCEPT !.end = end]
    <3>1. r \in Event /\ r.status = events[f].status
      BY <2>0, ConstantTypes DEF Event
    <3>2. events' = [events EXCEPT ![f] = r]
      BY <2>6 DEF ExtendEventEndTime
    <3> QED
      BY <1>1, <3>1, <3>2
  <2>7. ASSUME NEW x \in BOOLEAN, events' = [events EXCEPT ![f].paused = x]
        PROVE  Same
    <3> DEFINE r == [events[f] EXCEPT !.paused = x]
    <3>1. r \in Event /\ r.status = events[f].status
      BY <2>0 DEF Event
    <3> QED
      BY <1>1, <2>7, <3>1
  <2>8. CASE PauseTicketSales(f) \/ ResumeTicketSales(f)
    BY <2>7, <2>8 DEF PauseTicketSales, ResumeTicketSales
  <2>9. ASSUME NEW c \in Capacities, SetEventCapacity(f, c) PROVE Same
    <3> DEFINE r == [events[f] EXCEPT !.max = c]
    <3>1. r \in Event /\ r.status = events[f].status
      BY <2>0, ConstantTypes DEF Event
    <3>2. events' = [events EXCEPT ![f] = r]
      BY <2>9 DEF SetEventCapacity
    <3> QED
      BY <1>1, <3>1, <3>2
  <2> QED
    BY <1>3, <2>1, <2>2, <2>4, <2>5, <2>6, <2>8, <2>9
    DEF LifecycleStep, UpdateEvent, UpdateEventMetadata
<1>4. ASSUME NEW f \in Events, NEW k \in Nat,
             events' = [events EXCEPT ![f].sold = k]
      PROVE  Same
  <2> DEFINE r == [events[f] EXCEPT !.sold = k]
  <2>1. r \in Event /\ r.status = events[f].status
    BY <1>0 DEF Event
  <2> QED
    BY <1>1, <1>4, <2>1
<1>5. CASE Minted
  <2>1. PICK f \in Events, b \in Users, q \in Nat, a \in Nat : Sell(f, b, q, a)
    BY <1>5 DEF Minted
  <2>2. events' = [events EXCEPT ![f].sold = events[f].sold + q]
    BY <2>1 DEF Sell
  <2>3. events[f].sold + q \in Nat
    BY <1>0, <2>1 DEF Event
  <2> QED
    BY <1>4, <2>2, <2>3
<1>6. ASSUME NEW f \in Events, NEW T \in SUBSET Eligible(f), PayBack(f, T)
      PROVE  Same
  <2>1. Cardinality(T) \in Nat
    BY IdsFinite DEF Eligible, Outstanding
  <2>2. SatSub(events[f].sold, Cardinality(T)) \in Nat
    BY <1>0, <2>1 DEF SatSub, Event
  <2>3. events' =
          [events EXCEPT ![f].sold = SatSub(events[f].sold, Cardinality(T))]
    BY <1>6 DEF PayBack
  <2> QED
    BY <1>4, <2>2, <2>3
<1>7. CASE Repaid
  BY <1>6, <1>7 DEF Repaid
<1>8. CASE events' = events
  BY <1>8 DEF StatusOf
<1>9. CASE ~ Repaid /\ ~ Minted /\ events' # events
  <2>1. ASSUME NEW i \in Ids, RefundTicket(i) PROVE FALSE
    BY <1>9, <2>1, TicketIsTyped DEF RefundTicket, Repaid
  <2>2. ~ TicketStep
    BY <1>9, <2>1 DEF TicketStep, UseTickets, RevokeTicket, TransferTicket
  <2>3. \A f \in Events : ~ MoneyStep(f)
    BY <1>9 DEF Repaid, MoneyStep, ExecuteMassRefund, ReleaseEscrow,
       DepositFunds, WithdrawFunds, DistributeRoyalties, CreateEscrowSplit,
       ReleaseEscrowFunds, DisputeEscrowSplit, SetVenueCapacity,
       IncrementAttendanceCounter
  <2>4. \A f \in Events : ~ WaitlistStep(f)
    BY <1>9 DEF WaitlistStep, JoinWaitlist, ProcessWaitlistQueue,
       NotifyWaitlistAvailability, ReleaseSpotToNextInLine,
       ExpireWaitlistOffer, SetWaitlist
  <2>5. ~ (AdminStep \/ Tick \/ UNCHANGED vars)
    BY <1>9 DEF AdminStep, WithdrawPlatformFees, SetPlatformFee, Tick, vars
  <2>6. \A f \in Events : ~ SaleStep(f)
    BY <1>9, SaleMints
  <2> QED
    BY <1>3, <2>2, <2>3, <2>4, <2>5, <2>6 DEF Next
<1> QED
  BY <1>5, <1>7, <1>8, <1>9

LEMMA InitPromised == Init => Promise!Init
<1> SUFFICES ASSUME Init PROVE Promise!Init
  OBVIOUS
<1>1. Len(tickets) = 0 /\ Ids = {}
  BY DEF Init, Ids
<1>2. StatusOf = [e \in Events |-> "Absent"]
  BY DEF Init, StatusOf
<1>3. EventOf = << >> /\ HolderOf = << >>
  BY <1>1 DEF EventOf, HolderOf
<1>4. Used = {} /\ PaidBack = {} /\ Revoked = {}
  BY <1>1 DEF Used, PaidBack, Revoked
<1> QED
  BY <1>1, <1>2, <1>3, <1>4
  DEF Promise!Init, StatusOf, EventOf, HolderOf, Used, PaidBack, Revoked

LEMMA SalePromised ==
    ASSUME TypeOK, NEW f \in Events, SaleStep(f), StatusOf' = StatusOf
    PROVE  \E b \in Users, n \in 1 .. 10 : Promise!Issue(f, b, n)
<1>1. PICK b \in Users, n \in 1 .. 10 :
        /\ Published(f)
        /\ tickets' = tickets \o [i \in 1 .. n |-> NewTicket(f, b)]
  <2>1. PICK b \in Users :
          \/ \E p \in RequiredPrices(f), tip \in Tips :
                PurchaseTicket(f, b, p + tip)
          \/ \E q \in Quantities, unit \in RequiredPrices(f) :
                BatchPurchaseTickets(f, b, q, unit)
    BY DEF SaleStep
  <2>2. ASSUME NEW a, PurchaseTicket(f, b, a)
        PROVE  /\ Published(f)
               /\ tickets' = tickets \o [i \in 1 .. 1 |-> NewTicket(f, b)]
    <3>1. Published(f) /\ Sell(f, b, 1, a)
      BY <2>2 DEF PurchaseTicket, OnSale
    <3> QED
      BY <3>1 DEF Sell
  <2>3. ASSUME NEW q \in Quantities, NEW unit,
               BatchPurchaseTickets(f, b, q, unit)
        PROVE  /\ Published(f) /\ q \in 1 .. 10
               /\ tickets' = tickets \o [i \in 1 .. q |-> NewTicket(f, b)]
    <3>1. Published(f) /\ Sell(f, b, q, unit * q)
      BY <2>3 DEF BatchPurchaseTickets, OnSale
    <3>2. q \in 1 .. 10
      BY ContractAssumption
    <3> QED
      BY <3>1, <3>2 DEF Sell
  <2>4. 1 \in 1 .. 10
    OBVIOUS
  <2> QED
    BY <2>1, <2>2, <2>3, <2>4
<1>2. /\ Len(tickets') = Len(tickets) + n
      /\ \A i \in Ids : tickets'[i] = tickets[i]
      /\ \A i \in Len(tickets) + 1 .. Len(tickets) + n :
            tickets'[i] = NewTicket(f, b)
  <2>1. n \in Nat
    OBVIOUS
  <2> QED
    BY <1>1, <2>1, MintAppends
<1>3. Len(tickets) \in Nat /\ Ids' = 1 .. Len(tickets) + n
  BY <1>2 DEF TypeOK, Ids
<1>4. \A i \in Ids' : i \in Ids \/ i \in Len(tickets) + 1 .. Len(tickets) + n
  BY <1>3 DEF Ids
<1>5. \A i \in Ids' : i > Len(tickets) <=> i \notin Ids
  BY <1>3 DEF Ids
<1>6. \A i \in Ids' :
        tickets'[i] = IF i > Len(tickets) THEN NewTicket(f, b) ELSE tickets[i]
  BY <1>2, <1>4, <1>5
<1>7. /\ NewTicket(f, b).event = f /\ NewTicket(f, b).owner = b
      /\ ~ NewTicket(f, b).used /\ ~ NewTicket(f, b).refunded
      /\ ~ NewTicket(f, b).revoked
  BY DEF NewTicket
<1>8. /\ EventOf' = [i \in 1 .. Len(tickets) + n |->
                        IF i > Len(tickets) THEN f ELSE EventOf[i]]
      /\ HolderOf' = [i \in 1 .. Len(tickets) + n |->
                        IF i > Len(tickets) THEN b ELSE HolderOf[i]]
  BY <1>3, <1>5, <1>6, <1>7 DEF EventOf, HolderOf
<1>9. MarksSame
  <2>1. Ids \subseteq Ids'
    BY <1>3 DEF Ids
  <2> QED
    BY <1>5, <1>6, <1>7, <2>1 DEF MarksSame, Used, PaidBack, Revoked
<1>10. StatusOf[f] = "Published"
  BY <1>1 DEF StatusOf, Published
<1>11. Promise!Issue(f, b, n)
  BY <1>2, <1>8, <1>9, <1>10 DEF Promise!Issue, Promise!marks, MarksSame,
     StatusOf, EventOf, HolderOf, Used, PaidBack, Revoked
<1> QED
  BY <1>11

LEMMA UsePromised ==
    ASSUME TypeOK, NEW T \in SUBSET Ids, UseTickets(T)
    PROVE  Promise!Admit(T)
<1>1. /\ Len(tickets') = Len(tickets)
      /\ \A i \in Ids :
            /\ tickets'[i].event = tickets[i].event
            /\ tickets'[i].owner = tickets[i].owner
            /\ tickets'[i].refunded = tickets[i].refunded
            /\ tickets'[i].revoked = tickets[i].revoked
            /\ tickets'[i].used = (tickets[i].used \/ i \in T)
  BY UseTicketsTable
<1>2. Ids' = Ids
  BY <1>1 DEF Ids
<1>3. LotsSame
  BY <1>1, <1>2 DEF LotsSame, EventOf, HolderOf
<1>4. Used' = Used \cup T /\ PaidBack' = PaidBack /\ Revoked' = Revoked
  BY <1>1, <1>2 DEF Used, PaidBack, Revoked
<1>5. StatusOf' = StatusOf
  BY DEF UseTickets, StatusOf
<1>6. T \cap (Used \cup Revoked) = {}
  BY DEF UseTickets, Used, Revoked
<1> QED
  BY <1>3, <1>4, <1>5, <1>6 DEF Promise!Admit, Promise!lots, LotsSame,
     StatusOf, EventOf, HolderOf, Used, PaidBack, Revoked

LEMMA RefundPromised ==
    ASSUME TypeOK, NEW e \in Events, NEW T \in SUBSET Eligible(e),
           PayBack(e, T), StatusOf' = StatusOf
    PROVE  T \in SUBSET Ids /\ Promise!Refund(e, T)
<1>0. T \in SUBSET Ids
  BY DEF Eligible, Outstanding
<1>1. /\ Len(tickets') = Len(tickets)
      /\ \A i \in Ids :
            /\ tickets'[i].event = tickets[i].event
            /\ tickets'[i].owner = tickets[i].owner
            /\ tickets'[i].used = tickets[i].used
            /\ tickets'[i].revoked = tickets[i].revoked
            /\ tickets'[i].refunded = (tickets[i].refunded \/ i \in T)
  BY <1>0, PayBackTable
<1>2. Ids' = Ids
  BY <1>1 DEF Ids
<1>3. LotsSame
  BY <1>1, <1>2 DEF LotsSame, EventOf, HolderOf
<1>4. PaidBack' = PaidBack \cup T /\ Used' = Used /\ Revoked' = Revoked
  BY <1>0, <1>1, <1>2 DEF Used, PaidBack, Revoked
<1>5. StatusOf[e] = "Cancelled"
  BY DEF PayBack, StatusOf
<1>6. \A i \in T :
        i \in Ids \ (Used \cup PaidBack \cup Revoked) /\ EventOf[i] = e
  BY DEF Eligible, Outstanding, Used, PaidBack, Revoked, EventOf
<1> QED
  BY <1>0, <1>3, <1>4, <1>5, <1>6 DEF Promise!Refund, Promise!Fresh,
     Promise!Tickets, Promise!lots, LotsSame, Ids,
     StatusOf, EventOf, HolderOf, Used, PaidBack, Revoked

LEMMA RevokePromised ==
    ASSUME TypeOK, NEW j \in Ids, RevokeTicket(j)
    PROVE  Promise!Revoke(j)
<1>1. tickets \in Seq(Ticket) /\ tickets[j] \in Ticket
  BY TicketIsTyped DEF TypeOK
<1>2. tickets' = [tickets EXCEPT ![j] = [tickets[j] EXCEPT !.revoked = TRUE]]
  BY DEF RevokeTicket
<1>3. Len(tickets') = Len(tickets) /\ Ids' = Ids
  BY <1>1, <1>2 DEF Ids
<1>4. \A i \in Ids :
        /\ tickets'[i].event = tickets[i].event
        /\ tickets'[i].owner = tickets[i].owner
        /\ tickets'[i].used = tickets[i].used
        /\ tickets'[i].refunded = tickets[i].refunded
        /\ tickets'[i].revoked = (tickets[i].revoked \/ i = j)
  <2>1. \A i \in Ids : i # j => tickets'[i] = tickets[i]
    BY <1>1, <1>2 DEF Ids
  <2>2. j \in DOMAIN tickets
    BY <1>1 DEF Ids
  <2>3. /\ tickets'[j].event = tickets[j].event
        /\ tickets'[j].owner = tickets[j].owner
        /\ tickets'[j].used = tickets[j].used
        /\ tickets'[j].refunded = tickets[j].refunded
        /\ tickets'[j].revoked = TRUE
    BY <1>1, <1>2, <2>2 DEF Ticket
  <2>4. \A i \in Ids : tickets[i].revoked \in BOOLEAN
    BY TicketIsTyped DEF Ticket
  <2> QED
    BY <2>1, <2>3, <2>4
<1>5. LotsSame
  BY <1>3, <1>4 DEF LotsSame, EventOf, HolderOf
<1>6. Revoked' = Revoked \cup {j} /\ Used' = Used /\ PaidBack' = PaidBack
  BY <1>3, <1>4 DEF Used, PaidBack, Revoked
<1>7. StatusOf' = StatusOf
  BY DEF RevokeTicket, StatusOf
<1>8. j \in Ids \ (Used \cup PaidBack \cup Revoked)
  BY DEF RevokeTicket, Used, PaidBack, Revoked
<1> QED
  BY <1>5, <1>6, <1>7, <1>8 DEF Promise!Revoke, Promise!Fresh,
     Promise!Tickets, Promise!lots, LotsSame, Ids,
     StatusOf, EventOf, HolderOf, Used, PaidBack, Revoked

LEMMA TransferPromised ==
    ASSUME TypeOK, NEW j \in Ids, NEW to \in Users, TransferTicket(j, to)
    PROVE  Promise!HandOver(j, to)
<1>1. tickets \in Seq(Ticket) /\ tickets[j] \in Ticket
  BY TicketIsTyped DEF TypeOK
<1>2. tickets' = [tickets EXCEPT ![j] = [tickets[j] EXCEPT !.owner = to]]
  BY DEF TransferTicket
<1>3. Len(tickets') = Len(tickets) /\ Ids' = Ids
  BY <1>1, <1>2 DEF Ids
<1>4. \A i \in Ids :
        /\ tickets'[i].event = tickets[i].event
        /\ tickets'[i].owner = (IF i = j THEN to ELSE tickets[i].owner)
        /\ tickets'[i].used = tickets[i].used
        /\ tickets'[i].refunded = tickets[i].refunded
        /\ tickets'[i].revoked = tickets[i].revoked
  <2>1. \A i \in Ids : i # j => tickets'[i] = tickets[i]
    BY <1>1, <1>2 DEF Ids
  <2>2. tickets'[j] = [tickets[j] EXCEPT !.owner = to]
    BY <1>1, <1>2 DEF Ids
  <2>3. /\ tickets'[j].event = tickets[j].event
        /\ tickets'[j].owner = to
        /\ tickets'[j].used = tickets[j].used
        /\ tickets'[j].refunded = tickets[j].refunded
        /\ tickets'[j].revoked = tickets[j].revoked
    BY <1>1, <2>2 DEF Ticket
  <2> QED
    BY <2>1, <2>3
<1>5. HolderOf' = [HolderOf EXCEPT ![j] = to] /\ EventOf' = EventOf
  BY <1>3, <1>4 DEF EventOf, HolderOf
<1>6. MarksSame
  BY <1>3, <1>4 DEF MarksSame, Used, PaidBack, Revoked
<1>7. StatusOf' = StatusOf
  BY DEF TransferTicket, StatusOf
<1>8. j \in Ids \ (Used \cup PaidBack \cup Revoked)
  BY DEF TransferTicket, Used, PaidBack, Revoked
<1>9. StatusOf[EventOf[j]] = "Published"
  <2>1. tickets[j].event \in Events
    BY TicketIsTyped
  <2> QED
    BY <2>1 DEF TransferTicket, Published, StatusOf, EventOf
<1> QED
  BY <1>3, <1>5, <1>6, <1>7, <1>8, <1>9 DEF Promise!HandOver, Promise!Fresh,
     Promise!Tickets, Promise!marks, MarksSame, Ids,
     StatusOf, EventOf, HolderOf, Used, PaidBack, Revoked

LEMMA NextPromised ==
    ASSUME TypeOK, [Next]_vars
    PROVE  [Promise!Next]_Promise!vars
<1> DEFINE Steps == [Promise!Next]_Promise!vars
<1>1. CASE StatusOf' # StatusOf
  <2>1. \E e \in Events,
           s \in {"Draft", "Published", "Completed", "Cancelled"} :
           Promise!Advance(e, s)
    BY <1>1, StatusStep
  <2> QED
    BY <2>1 DEF Promise!Next
<1>2. CASE StatusOf' = StatusOf /\ tickets' = tickets
  <2>1. LotsSame /\ MarksSame
    BY <1>2, TicketsSame
  <2> QED
    BY <1>2, <2>1 DEF Promise!vars, Promise!lots, Promise!marks, LotsSame,
       MarksSame, StatusOf, EventOf, HolderOf, Used, PaidBack, Revoked
<1>3. CASE StatusOf' = StatusOf /\ tickets' # tickets
  <2>0. Promise!Tickets = Ids
    BY DEF Promise!Tickets, Ids
  <2>1. ASSUME NEW f \in Events, SaleStep(f) PROVE Steps
    BY <1>3, <2>1, SalePromised DEF Promise!Next
  <2>2. ASSUME NEW e \in Events, NEW T \in SUBSET Eligible(e), PayBack(e, T)
        PROVE  Steps
    BY <1>3, <2>0, <2>2, RefundPromised DEF Promise!Next
  <2>3. ASSUME NEW T \in SUBSET Ids, UseTickets(T) PROVE Steps
    BY <2>0, <2>3, UsePromised DEF Promise!Next
  <2>4. ASSUME NEW i \in Ids, RevokeTicket(i) PROVE Steps
    BY <2>0, <2>4, RevokePromised DEF Promise!Next
  <2>5. ASSUME NEW i \in Ids, NEW to \in Users, TransferTicket(i, to)
        PROVE  Steps
    BY <2>0, <2>5, TransferPromised DEF Promise!Next
  <2>6. CASE ~ \E f \in Events : SaleStep(f)
    <3>1. ASSUME NEW i \in Ids, RefundTicket(i) PROVE Steps
      BY <2>2, <3>1, TicketIsTyped DEF RefundTicket
    <3>2. ASSUME TicketStep PROVE Steps
      BY <2>3, <2>4, <2>5, <3>1, <3>2 DEF TicketStep
    <3>3. ASSUME NEW f \in Events, MoneyStep(f) PROVE Steps
      <4>1. ExecuteMassRefund(f)
        BY <1>3, <3>3 DEF MoneyStep, ReleaseEscrow, DepositFunds,
           WithdrawFunds, DistributeRoyalties, CreateEscrowSplit,
           ReleaseEscrowFunds, DisputeEscrowSplit, SetVenueCapacity,
           IncrementAttendanceCounter
      <4> QED
        BY <2>2, <4>1 DEF ExecuteMassRefund
    <3>4. \A f \in Events : ~ LifecycleStep(f)
      BY <1>3 DEF LifecycleStep, CreateEvent, UpdateEvent,
         UpdateEventMetadata, Edit, UpdateEventStatus, CancelEvent,
         CompleteEvent, SetStatus, ExtendEventEndTime, PauseTicketSales,
         ResumeTicketSales, SetEventCapacity
    <3>5. \A f \in Events : ~ WaitlistStep(f)
      BY <1>3 DEF WaitlistStep, JoinWaitlist, ProcessWaitlistQueue,
         NotifyWaitlistAvailability, ReleaseSpotToNextInLine,
         ExpireWaitlistOffer, SetWaitlist
    <3>6. ~ (AdminStep \/ Tick \/ UNCHANGED vars)
      BY <1>3 DEF AdminStep, WithdrawPlatformFees, SetPlatformFee, Tick, vars
    <3> QED
      BY <2>6, <3>2, <3>3, <3>4, <3>5, <3>6 DEF Next
  <2> QED
    BY <2>1, <2>6
<1> QED
  BY <1>1, <1>2, <1>3

\* Whatever the prices, fees, capacities, offers and splits, the contract does
\* to events and tickets only what TicketPromise allows.
THEOREM ContractKeepsPromise == Spec => PromiseKept
<1>1. Init => Promise!Init
  BY InitPromised
<1>2. TypeOK /\ [Next]_vars => [Promise!Next]_Promise!vars
  BY NextPromised
<1>3. Spec => Promise!Spec
  BY <1>1, <1>2, TypeCorrect, PTL DEF Spec, Promise!Spec
<1> QED
  BY <1>3 DEF PromiseKept
=============================================================================
