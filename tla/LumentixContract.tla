-------------------------- MODULE LumentixContract --------------------------
(***************************************************************************)
(* The core of the Soroban ticketing contract: events and their lifecycle, *)
(* tickets, the per-event escrow, the platform fee pool, the waitlist and  *)
(* the venue capacity, together with the contract's own balance in the     *)
(* payment token.                                                          *)
(*                                                                         *)
(* A call either returns Ok, and everything it wrote is kept, or fails,    *)
(* and the host rolls all of it back; so each entry point is one atomic    *)
(* action that is enabled when the call would return Ok.  The caller has   *)
(* always authenticated as the account the entry point asks for.           *)
(***************************************************************************)
EXTENDS Waitlist, VenueCapacity, EscrowSplit

CONSTANTS
    Events,       \* event identifiers, those not yet created included
    Prices,       \* ticket prices an organizer sets
    EndTimes,     \* end times an organizer sets
    FeeRates,     \* platform fees the admin sets, in basis points
    Multipliers,  \* price multipliers the pricing rules can yield, in bps
    Tips,         \* what a buyer may pay above the required price
    Capacities,   \* ticket limits an organizer sets
    VenueLimits,  \* venue limits an organizer sets
    Quantities,   \* quantities of batch purchases, offers and increments
    Transfers,    \* amounts deposited into and withdrawn from an escrow
    MaxTickets,   \* bound: tickets ever minted
    MaxTime,      \* bound: the clock
    MaxEscrow,    \* bound: deposits keep the escrow below it
    MaxSplits     \* bound: splits registered for an event

ASSUME ContractAssumption ==
    /\ Prices \subseteq Nat \ {0}
    /\ EndTimes \subseteq Nat
    /\ FeeRates \subseteq 0 .. 10000
    /\ Multipliers \subseteq Nat \ {0}
    /\ Tips \subseteq Nat
    /\ Capacities \subseteq Nat
    /\ VenueLimits \subseteq Nat
    /\ Quantities \subseteq 1 .. 10
    /\ Transfers \subseteq Nat \ {0}
    /\ MaxTickets \in Nat /\ MaxTime \in Nat /\ MaxEscrow \in Nat
    /\ MaxSplits \in Nat

VARIABLES
    now,       \* the ledger timestamp
    events,    \* the Event records
    tickets,   \* the Ticket records, a ticket's id is its position
    escrow,    \* the escrow balance the contract records for each event
    platform,  \* the accrued platform fees
    feeBps,    \* the current platform fee
    venue,     \* the venue capacities
    waitlist,  \* the waitlists
    splits,    \* the escrow splits registered for each event
    tokens     \* what the token contract says this contract holds

money == <<escrow, platform, tokens>>
seats == <<venue, waitlist>>
vars  == <<now, events, tickets, money, feeBps, seats, splits>>

Statuses == {"Absent", "Draft", "Published", "Completed", "Cancelled"}
Terminal == {"Completed", "Cancelled"}

Event ==
    [status : Statuses, price : Nat, end : Nat, max : Nat, sold : Nat,
     paused : BOOLEAN]

Ticket ==
    [event : Events, owner : Users, used : BOOLEAN, refunded : BOOLEAN,
     revoked : BOOLEAN]

Created(e)   == events[e].status # "Absent"
Published(e) == events[e].status = "Published"

Ids == 1 .. Len(tickets)

\* Tickets of e that still hold a seat in tickets_sold.
Outstanding(e) == {i \in Ids : tickets[i].event = e /\ ~ tickets[i].refunded}

\* Tickets a mass refund pays out.
Eligible(e) ==
    {i \in Outstanding(e) : ~ tickets[i].used /\ ~ tickets[i].revoked}

Fee(amount) == (amount * feeBps) \div 10000
Net(amount) == amount - Fee(amount)

\* calculate_dynamic_price, the pricing rules abstracted to the multipliers
\* they can yield; a price of zero or less is an error.
RequiredPrices(e) ==
    {(events[e].price * m) \div 10000 : m \in Multipliers} \ {0}

NewTicket(e, b) ==
    [event |-> e, owner |-> b, used |-> FALSE, refunded |-> FALSE,
     revoked |-> FALSE]

Init ==
    /\ now = 0
    /\ events = [e \in Events |->
                    [status |-> "Absent", price |-> 0, end |-> 0, max |-> 0,
                     sold |-> 0, paused |-> FALSE]]
    /\ tickets = << >>
    /\ escrow = [e \in Events |-> 0]
    /\ platform = 0
    /\ feeBps = 0
    /\ venue = [e \in Events |-> Unlimited]
    /\ waitlist = [e \in Events |-> EmptyWaitlist]
    /\ splits = [e \in Events |-> << >>]
    /\ tokens = 0
-----------------------------------------------------------------------------
(* The event lifecycle, driven by the organizer.                           *)

CreateEvent(e, p, end, c) ==
    /\ ~ Created(e)
    /\ c > 0
    /\ events' = [events EXCEPT ![e] =
           [status |-> "Draft", price |-> p, end |-> end, max |-> c,
            sold |-> 0, paused |-> FALSE]]
    /\ UNCHANGED <<now, tickets, money, feeBps, seats, splits>>

\* update_event edits a draft, update_event_metadata a published event.
Edit(e, p, end, c) ==
    /\ c > 0
    /\ c >= events[e].sold
    /\ events' = [events EXCEPT ![e] =
           [@ EXCEPT !.price = p, !.end = end, !.max = c]]
    /\ UNCHANGED <<now, tickets, money, feeBps, seats, splits>>

UpdateEvent(e, p, end, c) == events[e].status = "Draft" /\ Edit(e, p, end, c)

UpdateEventMetadata(e, p, end, c) == Published(e) /\ Edit(e, p, end, c)

SetStatus(e, s) ==
    /\ events' = [events EXCEPT ![e].status = s]
    /\ UNCHANGED <<now, tickets, money, feeBps, seats, splits>>

\* Mutant: any event that exists can be cancelled.
CancelCreatedEvent(e) == Created(e) /\ SetStatus(e, "Cancelled")

CancelEvent(e) == Published(e) /\ SetStatus(e, "Cancelled")

CompleteEvent(e) ==
    /\ Published(e)
    /\ now > events[e].end
    /\ SetStatus(e, "Completed")

\* update_event_status is a second way to cancel or complete, and the only
\* way to publish.
UpdateEventStatus(e, s) ==
    /\ \/ events[e].status = "Draft" /\ s = "Published"
       \/ Published(e) /\ s = "Cancelled"
       \/ Published(e) /\ s = "Completed" /\ now > events[e].end
    /\ SetStatus(e, s)

ExtendEventEndTime(e, end) ==
    /\ Published(e)
    /\ end > events[e].end
    /\ events' = [events EXCEPT ![e].end = end]
    /\ UNCHANGED <<now, tickets, money, feeBps, seats, splits>>

PauseTicketSales(e) ==
    /\ Published(e)
    /\ events' = [events EXCEPT ![e].paused = TRUE]
    /\ UNCHANGED <<now, tickets, money, feeBps, seats, splits>>

ResumeTicketSales(e) ==
    /\ events[e].paused
    /\ events' = [events EXCEPT ![e].paused = FALSE]
    /\ UNCHANGED <<now, tickets, money, feeBps, seats, splits>>

\* Growing a published event's capacity offers the new seats to the queue,
\* whatever the seats sold and reserved; expired offers are not cleaned up.
SetEventCapacity(e, c) ==
    /\ Created(e)
    /\ c >= events[e].sold
    /\ events' = [events EXCEPT ![e].max = c]
    /\ waitlist' =
           IF c > events[e].max /\ Published(e)
           THEN [waitlist EXCEPT ![e] =
                    IssueOffers(waitlist[e], c - events[e].max, now)]
           ELSE waitlist
    /\ UNCHANGED <<now, tickets, money, feeBps, venue, splits>>
-----------------------------------------------------------------------------
(* Sales.                                                                  *)

\* Mutant: the fee is collected, but the escrow is credited the whole amount.
SellBookingGross(e, b, q, amount) ==
    /\ Len(tickets) + q <= MaxTickets
    /\ Fits(venue[e], q)
    /\ tokens' = tokens + amount
    /\ platform' = platform + Fee(amount)
    /\ escrow' = [escrow EXCEPT ![e] = escrow[e] + amount]
    /\ events' = [events EXCEPT ![e].sold = events[e].sold + q]
    /\ venue' = [venue EXCEPT ![e] = Increment(venue[e], q)]
    /\ tickets' = tickets \o [i \in 1 .. q |-> NewTicket(e, b)]
    /\ UNCHANGED <<now, feeBps, splits>>

\* What every sale of q tickets of e to b for the total amount writes.
Sell(e, b, q, amount) ==
    /\ Len(tickets) + q <= MaxTickets
    /\ Fits(venue[e], q)
    /\ tokens' = tokens + amount
    /\ platform' = platform + Fee(amount)
    /\ escrow' = [escrow EXCEPT ![e] = escrow[e] + Net(amount)]
    /\ events' = [events EXCEPT ![e].sold = events[e].sold + q]
    /\ venue' = [venue EXCEPT ![e] = Increment(venue[e], q)]
    /\ tickets' = tickets \o [i \in 1 .. q |-> NewTicket(e, b)]
    /\ UNCHANGED <<now, feeBps, splits>>

OnSale(e) == Published(e) /\ ~ events[e].paused

\* Mutant: the seats set aside for the waitlist are on public sale too.
PurchaseAnyFreeSeat(e, b, amount) ==
    LET w == Cleanup(waitlist[e], now)
    IN  /\ OnSale(e)
        /\ \E p \in RequiredPrices(e) : amount >= p
        /\ IF Live(w.offer[b], now)
           THEN waitlist' = [waitlist EXCEPT ![e] = Consume(w, b)]
           ELSE /\ events[e].sold < events[e].max
                /\ waitlist' = [waitlist EXCEPT ![e] = w]
        /\ Sell(e, b, 1, amount)

\* A buyer with a live offer takes a seat out of it, with no check of the
\* ticket limit; any other buyer needs a seat that is not set aside.
PurchaseTicket(e, b, amount) ==
    LET w == Cleanup(waitlist[e], now)
    IN  /\ OnSale(e)
        /\ \E p \in RequiredPrices(e) : amount >= p
        /\ IF Live(w.offer[b], now)
           THEN waitlist' = [waitlist EXCEPT ![e] = Consume(w, b)]
           ELSE /\ events[e].sold + w.reserved < events[e].max
                /\ waitlist' = [waitlist EXCEPT ![e] = w]
        /\ Sell(e, b, 1, amount)

\* A batch never uses the buyer's offer.
BatchPurchaseTickets(e, b, q, unit) ==
    LET w == Cleanup(waitlist[e], now)
    IN  /\ OnSale(e)
        /\ unit \in RequiredPrices(e)
        /\ Available(events[e].max, events[e].sold, w) >= q
        /\ waitlist' = [waitlist EXCEPT ![e] = w]
        /\ Sell(e, b, q, unit * q)
-----------------------------------------------------------------------------
(* The life of a ticket.                                                   *)

\* use_ticket and batch_use_tickets: refunded tickets are not turned away.
UseTickets(T) ==
    /\ \A i \in T : ~ tickets[i].revoked /\ ~ tickets[i].used
    /\ tickets' = [i \in Ids |-> [tickets[i] EXCEPT !.used = @ \/ i \in T]]
    /\ UNCHANGED <<now, events, money, feeBps, seats, splits>>

\* Mutant: refunded tickets can be revoked.
RevokeEvenRefunded(i) ==
    /\ ~ tickets[i].revoked /\ ~ tickets[i].used
    /\ tickets' = [tickets EXCEPT ![i].revoked = TRUE]
    /\ UNCHANGED <<now, events, money, feeBps, seats, splits>>

RevokeTicket(i) ==
    /\ ~ tickets[i].revoked /\ ~ tickets[i].used /\ ~ tickets[i].refunded
    /\ tickets' = [tickets EXCEPT ![i].revoked = TRUE]
    /\ UNCHANGED <<now, events, money, feeBps, seats, splits>>

\* Mutant: tickets of an event that is over still change hands.
TransferAtAnyTime(i, to) ==
    /\ ~ tickets[i].revoked /\ ~ tickets[i].used /\ ~ tickets[i].refunded
    /\ tickets' = [tickets EXCEPT ![i].owner = to]
    /\ UNCHANGED <<now, events, money, feeBps, seats, splits>>

TransferTicket(i, to) ==
    /\ ~ tickets[i].revoked /\ ~ tickets[i].used /\ ~ tickets[i].refunded
    /\ Published(tickets[i].event)
    /\ tickets' = [tickets EXCEPT ![i].owner = to]
    /\ UNCHANGED <<now, events, money, feeBps, seats, splits>>

\* Mutant: however many tickets are paid back, one seat is returned.
PayBackOneSeat(e, T) ==
    LET k == Cardinality(T)
        p == events[e].price
    IN  /\ events[e].status = "Cancelled"
        /\ escrow[e] >= k * Net(p)
        /\ tokens >= k * p
        /\ escrow' = [escrow EXCEPT ![e] = escrow[e] - k * Net(p)]
        /\ tokens' = tokens - k * p
        /\ tickets' =
               [i \in Ids |-> [tickets[i] EXCEPT !.refunded = @ \/ i \in T]]
        /\ events' = [events EXCEPT ![e].sold = SatSub(events[e].sold, 1)]
        /\ UNCHANGED <<now, platform, feeBps, waitlist, splits>>

\* Paying the tickets in T back: each takes the net price out of the escrow
\* and the full price out of the contract's tokens.
PayBack(e, T) ==
    LET k == Cardinality(T)
        p == events[e].price
    IN  /\ events[e].status = "Cancelled"
        /\ escrow[e] >= k * Net(p)
        /\ tokens >= k * p
        /\ escrow' = [escrow EXCEPT ![e] = escrow[e] - k * Net(p)]
        /\ tokens' = tokens - k * p
        /\ tickets' =
               [i \in Ids |-> [tickets[i] EXCEPT !.refunded = @ \/ i \in T]]
        /\ events' = [events EXCEPT ![e].sold = SatSub(events[e].sold, k)]
        /\ UNCHANGED <<now, platform, feeBps, waitlist, splits>>

RefundTicket(i) ==
    LET e == tickets[i].event
    IN  /\ i \in Eligible(e)
        /\ PayBack(e, {i})
        /\ venue' = [venue EXCEPT ![e] = Decrement(venue[e], 1)]

\* The venue counter is left alone.
ExecuteMassRefund(e) ==
    /\ PayBack(e, Eligible(e))
    /\ UNCHANGED venue
-----------------------------------------------------------------------------
(* Escrow, fees and venue.                                                 *)

ReleaseEscrow(e) ==
    /\ events[e].status = "Completed"
    /\ escrow[e] # 0
    /\ tokens >= escrow[e]
    /\ tokens' = tokens - escrow[e]
    /\ escrow' = [escrow EXCEPT ![e] = 0]
    /\ UNCHANGED <<now, events, tickets, platform, feeBps, seats, splits>>

\* deposit_funds, and the price that purchase_merchandise puts in.
DepositFunds(e, a) ==
    /\ events[e].status \notin {"Absent", "Cancelled"}
    /\ escrow[e] + a <= MaxEscrow
    /\ escrow' = [escrow EXCEPT ![e] = escrow[e] + a]
    /\ tokens' = tokens + a
    /\ UNCHANGED <<now, events, tickets, platform, feeBps, seats, splits>>

\* Mutant: the escrow of a cancelled event can be withdrawn.
WithdrawFromAnyEvent(e, a) ==
    /\ Created(e)
    /\ escrow[e] >= a
    /\ tokens >= a
    /\ escrow' = [escrow EXCEPT ![e] = escrow[e] - a]
    /\ tokens' = tokens - a
    /\ UNCHANGED <<now, events, tickets, platform, feeBps, seats, splits>>

\* Mutant: the withdrawal is held only against the contract's tokens.
WithdrawOverdrawing(e, a) ==
    /\ events[e].status \notin {"Absent", "Cancelled"}
    /\ tokens >= a
    /\ escrow' = [escrow EXCEPT ![e] = escrow[e] - a]
    /\ tokens' = tokens - a
    /\ UNCHANGED <<now, events, tickets, platform, feeBps, seats, splits>>

WithdrawFunds(e, a) ==
    /\ events[e].status \notin {"Absent", "Cancelled"}
    /\ escrow[e] >= a
    /\ tokens >= a
    /\ escrow' = [escrow EXCEPT ![e] = escrow[e] - a]
    /\ tokens' = tokens - a
    /\ UNCHANGED <<now, events, tickets, platform, feeBps, seats, splits>>

\* distribute_royalties pays artists under the same conditions.
DistributeRoyalties(e, a) == WithdrawFunds(e, a)

CreateEscrowSplit(e) ==
    /\ Created(e)
    /\ escrow[e] > 0
    /\ Len(splits[e]) < MaxSplits
    /\ splits' = [splits EXCEPT ![e] = Append(splits[e], NewSplit)]
    /\ UNCHANGED <<now, events, tickets, money, feeBps, seats>>

\* release_escrow_funds looks at the clock, and not at the event's status.
ReleaseEscrowFunds(e, i) ==
    /\ IsOpen(splits[e][i])
    /\ now >= events[e].end
    /\ escrow[e] > 0
    /\ tokens >= escrow[e]
    /\ tokens' = tokens - escrow[e]
    /\ escrow' = [escrow EXCEPT ![e] = 0]
    /\ splits' = [splits EXCEPT ![e][i] = Release(@)]
    /\ UNCHANGED <<now, events, tickets, platform, feeBps, seats>>

DisputeEscrowSplit(e, i) ==
    /\ IsOpen(splits[e][i])
    /\ splits' = [splits EXCEPT ![e][i] = Dispute(@)]
    /\ UNCHANGED <<now, events, tickets, money, feeBps, seats>>

WithdrawPlatformFees ==
    /\ platform # 0
    /\ tokens >= platform
    /\ tokens' = tokens - platform
    /\ platform' = 0
    /\ UNCHANGED <<now, events, tickets, escrow, feeBps, seats, splits>>

SetPlatformFee(f) ==
    /\ feeBps' = f
    /\ UNCHANGED <<now, events, tickets, money, seats, splits>>

SetVenueCapacity(e, c) ==
    /\ Created(e)
    /\ CanConfigure(venue[e], c, events[e].sold)
    /\ venue' = [venue EXCEPT ![e] = Configure(venue[e], c, events[e].sold)]
    /\ UNCHANGED <<now, events, tickets, money, feeBps, waitlist, splits>>

\* The organizer may also advance the counter by hand.
IncrementAttendanceCounter(e, q) ==
    /\ Created(e)
    /\ venue[e].configured
    /\ Fits(venue[e], q)
    /\ venue' = [venue EXCEPT ![e] = Increment(venue[e], q)]
    /\ UNCHANGED <<now, events, tickets, money, feeBps, waitlist, splits>>
-----------------------------------------------------------------------------
(* The waitlist.                                                           *)

SetWaitlist(e, w) ==
    /\ waitlist' = [waitlist EXCEPT ![e] = w]
    /\ UNCHANGED <<now, events, tickets, money, feeBps, venue, splits>>

JoinWaitlist(e, b) ==
    LET w == Cleanup(waitlist[e], now)
    IN  /\ Published(e)
        /\ Available(events[e].max, events[e].sold, w) = 0
        /\ ~ Live(w.offer[b], now)
        /\ ~ IsQueued(w, b)
        /\ SetWaitlist(e, Join(w, b))

ProcessWaitlistQueue(e) ==
    LET w == Cleanup(waitlist[e], now)
        n == Available(events[e].max, events[e].sold, w)
    IN  /\ Created(e)
        /\ SetWaitlist(e, IF Published(e) THEN IssueOffers(w, n, now) ELSE w)

NotifyWaitlistAvailability(e, b, q) ==
    LET w == Cleanup(waitlist[e], now)
    IN  /\ Published(e)
        /\ Available(events[e].max, events[e].sold, w) >= q
        /\ SetWaitlist(e, Notify(w, b, q, now))

\* One offer to the head of the queue, with no look at the seats left.
ReleaseSpotToNextInLine(e) ==
    LET w == Cleanup(waitlist[e], now)
    IN  /\ Created(e)
        /\ SetWaitlist(e, IF Published(e) THEN IssueOffers(w, 1, now) ELSE w)

\* Open to everyone and at any time.
ExpireWaitlistOffer(e, b) == SetWaitlist(e, ExpireOffer(waitlist[e], b))

Tick ==
    /\ now < MaxTime
    /\ now' = now + 1
    /\ UNCHANGED <<events, tickets, money, feeBps, seats, splits>>
-----------------------------------------------------------------------------
LifecycleStep(e) ==
    \/ \E p \in Prices, end \in EndTimes, c \in Capacities :
          \/ CreateEvent(e, p, end, c)
          \/ UpdateEvent(e, p, end, c)
          \/ UpdateEventMetadata(e, p, end, c)
    \/ \E s \in Statuses : UpdateEventStatus(e, s)
    \/ CancelEvent(e)
    \/ CompleteEvent(e)
    \/ \E end \in EndTimes : ExtendEventEndTime(e, end)
    \/ PauseTicketSales(e)
    \/ ResumeTicketSales(e)
    \/ \E c \in Capacities : SetEventCapacity(e, c)

SaleStep(e) ==
    \E b \in Users :
        \/ \E p \in RequiredPrices(e), tip \in Tips :
              PurchaseTicket(e, b, p + tip)
        \/ \E q \in Quantities, unit \in RequiredPrices(e) :
              BatchPurchaseTickets(e, b, q, unit)

TicketStep ==
    \/ \E T \in (SUBSET Ids) \ {{}} : UseTickets(T)
    \/ \E i \in Ids :
          \/ RevokeTicket(i)
          \/ \E to \in Users : TransferTicket(i, to)
          \/ RefundTicket(i)

MoneyStep(e) ==
    \/ ExecuteMassRefund(e)
    \/ ReleaseEscrow(e)
    \/ \E a \in Transfers : \/ DepositFunds(e, a)
                             \/ WithdrawFunds(e, a)
                             \/ DistributeRoyalties(e, a)
    \/ CreateEscrowSplit(e)
    \/ \E i \in 1 .. Len(splits[e]) :
          ReleaseEscrowFunds(e, i) \/ DisputeEscrowSplit(e, i)
    \/ \E c \in VenueLimits : SetVenueCapacity(e, c)
    \/ \E q \in Quantities : IncrementAttendanceCounter(e, q)

WaitlistStep(e) ==
    \/ ProcessWaitlistQueue(e)
    \/ ReleaseSpotToNextInLine(e)
    \/ \E b \in Users :
          \/ JoinWaitlist(e, b)
          \/ \E q \in Quantities : NotifyWaitlistAvailability(e, b, q)
          \/ ExpireWaitlistOffer(e, b)

AdminStep ==
    \/ WithdrawPlatformFees
    \/ \E f \in FeeRates : SetPlatformFee(f)

Next ==
    \/ \E e \in Events : \/ LifecycleStep(e) \/ SaleStep(e)
                         \/ MoneyStep(e)     \/ WaitlistStep(e)
    \/ TicketStep
    \/ AdminStep
    \/ Tick

Spec == Init /\ [][Next]_vars
-----------------------------------------------------------------------------
(* What the contract promises.                                             *)

\* Every stored field keeps its type; in particular no balance, seat count or
\* reservation ever goes below zero, whatever is subtracted from it.
TypeOK ==
    /\ now \in Nat
    /\ events \in [Events -> Event]
    /\ tickets \in Seq(Ticket)
    /\ escrow \in [Events -> Nat]
    /\ platform \in Nat
    /\ feeBps \in 0 .. 10000
    /\ venue \in [Events -> VenueState]
    /\ waitlist \in [Events -> WaitlistState]
    /\ splits \in [Events -> Seq(Split)]
    /\ tokens \in Nat

\* tickets_sold, which sales raise by whole batches and refunds lower with a
\* saturating subtraction, is always the number of unrefunded tickets: the
\* saturation never hides a lost seat, and no path forgets the counter.
SoldCountsTickets ==
    \A e \in Events : events[e].sold = Cardinality(Outstanding(e))

\* A configured venue limit is never overbooked, not even by offers that
\* skip the event's own ticket limit: the unrefunded tickets are at most the
\* minted counter, and that is at most the limit.
VenueNeverOverfilled ==
    \A e \in Events :
        venue[e].configured =>
            /\ events[e].sold <= venue[e].minted
            /\ venue[e].minted <= venue[e].max

\* The tokens held for each event, one by one.
TokensIn(balance) == UNION {{e} \X (1 .. balance[e]) : e \in Events}

TotalEscrow == Cardinality(TokensIn(escrow))

\* The recorded balances account for every token the contract holds, and as
\* long as nothing was refunded they are backed to the last one.  (A refund
\* pays the platform's fee share back to the buyer as well, but leaves it in
\* the fee pool: afterwards the tokens may be fewer.)
RecordedBalancesAccountForTokens ==
    /\ tokens <= TotalEscrow + platform
    /\ (\A i \in Ids : ~ tickets[i].refunded) =>
           tokens = TotalEscrow + platform

\* What can have become of a ticket: it belongs to an event that was
\* published, it is refunded only if the event was cancelled, and a revoked
\* ticket was neither refunded before nor admitted or refunded after.
TicketFates ==
    \A i \in Ids :
        LET t == tickets[i]
        IN  /\ events[t.event].status \notin {"Absent", "Draft"}
            /\ t.refunded => events[t.event].status = "Cancelled"
            /\ ~ (t.revoked /\ (t.used \/ t.refunded))

\* No offer escapes the clean-up: whoever holds one is in the index of
\* recipients that cleanup_expired_waitlist_offers walks.
OffersAreIndexed ==
    \A e \in Events, b \in Users :
        waitlist[e].offer[b] # NoOffer => b \in waitlist[e].recipients

\* Seats promised by offers are set aside: the reserved counter, lowered by
\* saturating subtractions in four places, never falls below them.
ReservedCoversOffers ==
    \A e \in Events : waitlist[e].reserved >= OfferedSeats(waitlist[e])

\* join_waitlist's duplicate check is enough for the queue to name a buyer
\* at most once.
QueueNamesOnce ==
    \A e \in Events :
        LET q == waitlist[e].queue
        IN  \A i, j \in 1 .. Len(q) : q[i] = q[j] => i = j

\* Completed and Cancelled are final, and the price refunds are paid at can
\* no longer be edited.
TerminalFrozen ==
    [][\A e \in Events :
          events[e].status \in Terminal =>
              /\ events'[e].status = events[e].status
              /\ events'[e].price = events[e].price]_vars

\* Once an event is cancelled its escrow changes by the net price of exactly
\* the tickets refunded in the same step, unless a split is released, which
\* takes all of it: no other call reaches it or puts money into it.
CancelledEscrowRefundsOrSplits ==
    [][\A e \in Events :
          events[e].status = "Cancelled" =>
              \/ escrow[e] - escrow'[e] =
                    Cardinality(Outstanding(e) \ Outstanding(e)')
                        * Net(events[e].price)
              \/ escrow'[e] = 0 /\ splits'[e] # splits[e]]_vars

\* A seat set aside for the waitlist cannot be bought by the public: a sale
\* that spends no live offer leaves room for every reservation.
PublicSalesSpareReservations ==
    [][\A e \in Events :
          /\ events'[e].sold > events[e].sold
          /\ \A b \in Users :
                Live(waitlist[e].offer[b], now) =>
                    waitlist'[e].offer[b] = waitlist[e].offer[b]
          => events'[e].sold + waitlist'[e].reserved <= events[e].max]_vars

\* Nobody loses a place in the queue without getting an offer, and buyers
\* get theirs in the order in which they joined.
QueueServedInOrder ==
    [][\A e \in Events :
          LET q == waitlist[e].queue
              k == Len(q) - Len(waitlist'[e].queue)
          IN  k > 0 =>
              /\ waitlist'[e].queue = SubSeq(q, k + 1, Len(q))
              /\ \A i \in 1 .. k : Live(waitlist'[e].offer[q[i]], now)]_vars
-----------------------------------------------------------------------------
(* The contract as its buyers see it.                                      *)

Promise == INSTANCE TicketPromise WITH
    status   <- [e \in Events |-> events[e].status],
    issued   <- Len(tickets),
    of       <- [i \in Ids |-> tickets[i].event],
    holder   <- [i \in Ids |-> tickets[i].owner],
    admitted <- {i \in Ids : tickets[i].used},
    refunded <- {i \in Ids : tickets[i].refunded},
    revoked  <- {i \in Ids : tickets[i].revoked}

\* The contract, with its money, seats and waitlist, implements what it
\* promises of events and tickets: every call is one step of TicketPromise or
\* changes nothing in it.
PromiseKept == Promise!Spec
=============================================================================
