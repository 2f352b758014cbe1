---------------------- MODULE LumentixContract_proofs -----------------------
(***************************************************************************)
(* Theorems about LumentixContract, for every value of its constants: the  *)
(* types, and the safety of the waitlist.                                  *)
(***************************************************************************)
EXTENDS LumentixContract, FiniteSetTheorems, SequenceTheorems, TLAPS

-----------------------------------------------------------------------------
(* The constants and the helpers have the types they should.               *)

LEMMA ConstantTypes ==
    /\ Prices \subseteq Nat
    /\ EndTimes \subseteq Nat
    /\ Capacities \subseteq Nat
    /\ VenueLimits \subseteq Nat
    /\ Quantities \subseteq Nat
    /\ Multipliers \subseteq Nat
    /\ Tips \subseteq Nat
    /\ Transfers \subseteq Nat
<1>1. Prices \subseteq Nat
  BY ContractAssumption
<1>2. EndTimes \subseteq Nat
  BY ContractAssumption
<1>3. Capacities \subseteq Nat
  BY ContractAssumption
<1>4. VenueLimits \subseteq Nat
  BY ContractAssumption
<1>5. Quantities \subseteq Nat
  BY ContractAssumption
<1>6. Multipliers \subseteq Nat
  BY ContractAssumption
<1>7. Tips \subseteq Nat
  BY ContractAssumption
<1>8. Transfers \subseteq Nat
  BY ContractAssumption
<1> QED
  BY <1>1, <1>2, <1>3, <1>4, <1>5, <1>6, <1>7, <1>8

LEMMA SatSubType ==
    ASSUME NEW a, NEW b PROVE SatSub(a, b) \in Nat
BY DEF SatSub

LEMMA DivBound ==
    ASSUME NEW x \in Nat, NEW a \in Nat, x <= a * 10000
    PROVE  x \div 10000 \in Nat /\ x \div 10000 <= a
OBVIOUS

LEMMA CardinalityOfInterval ==
    ASSUME NEW n \in Nat, NEW q \in Nat
    PROVE  /\ IsFiniteSet(n + 1 .. n + q)
           /\ Cardinality(n + 1 .. n + q) = q
<1>1. n + 1 \in Int /\ n + q \in Int
  OBVIOUS
<1>2. /\ IsFiniteSet(n + 1 .. n + q)
      /\ Cardinality(n + 1 .. n + q) =
            IF n + 1 > n + q THEN 0 ELSE (n + q) - (n + 1) + 1
  BY <1>1, FS_Interval
<1>3. (IF n + 1 > n + q THEN 0 ELSE (n + q) - (n + 1) + 1) = q
  OBVIOUS
<1> QED
  BY <1>2, <1>3

LEMMA CardinalityOfDifference ==
    ASSUME NEW A, NEW B, IsFiniteSet(A), B \subseteq A
    PROVE  Cardinality(A \ B) = Cardinality(A) - Cardinality(B)
<1>1. Cardinality(A \ B) = Cardinality(A) - Cardinality(A \cap B)
  BY FS_Difference
<1>2. A \cap B = B
  OBVIOUS
<1> QED
  BY <1>1, <1>2

\* The platform's share of a payment is a natural number of at most the whole.
LEMMA FeeBounds ==
    ASSUME NEW a \in Nat, feeBps \in 0 .. 10000
    PROVE  Fee(a) \in Nat /\ Fee(a) <= a /\ Net(a) \in Nat
<1> DEFINE x == a * feeBps
<1>1. x <= a * 10000 /\ x \in Nat
  OBVIOUS
<1>2. Fee(a) = x \div 10000
  BY DEF Fee
<1> HIDE DEF x
<1>3. x \div 10000 \in Nat /\ x \div 10000 <= a
  BY <1>1, DivBound
<1> QED
  BY <1>2, <1>3 DEF Net

LEMMA CleanupType ==
    ASSUME NEW w \in WaitlistState, NEW t \in Nat
    PROVE  Cleanup(w, t) \in WaitlistState
BY SatSubType DEF Cleanup, Stale, WaitlistState, Offer, NoOffer

LEMMA IssueOffersType ==
    ASSUME NEW w \in WaitlistState, NEW n \in Nat, NEW t \in Nat
    PROVE  IssueOffers(w, n, t) \in WaitlistState
<1> DEFINE k == Served(w, n)
           lucky == {w.queue[i] : i \in 1 .. k}
<1>1. k \in Nat /\ k <= Len(w.queue)
  BY DEF Served, WaitlistState
<1>2. lucky \subseteq Users
  BY <1>1 DEF WaitlistState
<1>3. SubSeq(w.queue, k + 1, Len(w.queue)) \in Seq(Users)
  BY <1>1 DEF WaitlistState
<1>4. t + OfferTtl \in Nat
  BY OfferTtlAssumption
<1>5. [b \in Users |-> IF b \in lucky
                        THEN [quantity |-> 1, expires |-> t + OfferTtl]
                        ELSE w.offer[b]] \in [Users -> Offer]
  BY <1>4 DEF WaitlistState, Offer
<1>6. w.recipients \cup lucky \in SUBSET Users /\ w.reserved + k \in Nat
  BY <1>1, <1>2 DEF WaitlistState
<1> HIDE DEF k, lucky
<1>7. IssueOffers(w, n, t) =
        [w EXCEPT !.queue = SubSeq(w.queue, k + 1, Len(w.queue)),
                  !.offer = [b \in Users |->
                     IF b \in lucky THEN [quantity |-> 1, expires |-> t + OfferTtl]
                                    ELSE w.offer[b]],
                  !.recipients = w.recipients \cup lucky,
                  !.reserved = w.reserved + k]
  BY DEF IssueOffers, k, lucky
<1> QED
  BY <1>3, <1>5, <1>6, <1>7 DEF WaitlistState

LEMMA NotifyType ==
    ASSUME NEW w \in WaitlistState, NEW b \in Users, NEW q \in Nat,
           NEW t \in Nat
    PROVE  Notify(w, b, q, t) \in WaitlistState
<1>1. [quantity |-> q, expires |-> t + OfferTtl] \in Offer
  BY OfferTtlAssumption DEF Offer
<1>2. w.recipients \cup {b} \in SUBSET Users /\ w.reserved + q \in Nat
  BY DEF WaitlistState
<1> QED
  BY <1>1, <1>2 DEF Notify, WaitlistState

LEMMA JoinType ==
    ASSUME NEW w \in WaitlistState, NEW b \in Users
    PROVE  Join(w, b) \in WaitlistState
<1>1. Append(w.queue, b) \in Seq(Users)
  BY DEF WaitlistState
<1> QED
  BY <1>1 DEF Join, WaitlistState

LEMMA ConsumeType ==
    ASSUME NEW w \in WaitlistState, NEW b \in Users,
           w.offer[b].quantity > 0
    PROVE  Consume(w, b) \in WaitlistState
<1> DEFINE left == w.offer[b].quantity - 1
           o == IF left = 0 THEN NoOffer
                            ELSE [w.offer[b] EXCEPT !.quantity = left]
<1>1. o \in Offer
  <2>1. w.offer[b] \in Offer /\ left \in Nat
    BY DEF WaitlistState, Offer
  <2> HIDE DEF left
  <2> QED
    BY <2>1 DEF Offer, NoOffer
<1>2. SatSub(w.reserved, 1) \in Nat
  BY SatSubType
<1>3. Consume(w, b) = [w EXCEPT !.offer = [w.offer EXCEPT ![b] = o],
                                !.reserved = SatSub(w.reserved, 1)]
  BY DEF Consume
<1> HIDE DEF o
<1> QED
  BY <1>1, <1>2, <1>3 DEF WaitlistState

LEMMA ExpireOfferType ==
    ASSUME NEW w \in WaitlistState, NEW b \in Users
    PROVE  ExpireOffer(w, b) \in WaitlistState
BY SatSubType DEF ExpireOffer, WaitlistState, Offer, NoOffer
-----------------------------------------------------------------------------
(* Types.                                                                  *)

LEMMA InitType == Init => TypeOK
BY DEF Init, TypeOK, Event, Statuses, VenueState, Unlimited, WaitlistState,
       EmptyWaitlist, Offer, NoOffer

\* Rewriting one event record, and perhaps its waitlist, keeps the types.
LEMMA EventStepType ==
    ASSUME TypeOK, NEW e \in Events, NEW r \in Event,
           events' = [events EXCEPT ![e] = r],
           waitlist' \in [Events -> WaitlistState],
           UNCHANGED <<now, tickets, money, feeBps, venue, splits>>
    PROVE  TypeOK'
<1>1. events' \in [Events -> Event]
  BY DEF TypeOK
<1>2. /\ feeBps' = feeBps /\ now' = now /\ tickets' = tickets
      /\ escrow' = escrow /\ platform' = platform /\ tokens' = tokens
      /\ venue' = venue /\ splits' = splits
  BY DEF money
<1>3. waitlist' \in [Events -> WaitlistState]
  OBVIOUS
<1> QED
  BY ONLY TypeOK, <1>1, <1>2, <1>3 DEF TypeOK

LEMMA LifecycleType ==
    ASSUME TypeOK, NEW e \in Events, LifecycleStep(e)
    PROVE  TypeOK'
<1>0. events[e] \in Event /\ waitlist \in [Events -> WaitlistState]
  BY DEF TypeOK
<1>1. ASSUME NEW p \in Prices, NEW end \in EndTimes, NEW c \in Capacities,
             CreateEvent(e, p, end, c)
      PROVE  TypeOK'
  <2>1. p \in Nat /\ end \in Nat /\ c \in Nat
    BY ConstantTypes
  <2> DEFINE r == [status |-> "Draft", price |-> p, end |-> end, max |-> c,
                   sold |-> 0, paused |-> FALSE]
  <2>2. r \in Event
    BY <2>1 DEF Event, Statuses
  <2> HIDE DEF r
  <2>3. events' = [events EXCEPT ![e] = r]
    BY <1>1 DEF CreateEvent, r
  <2> QED
    BY <1>0, <1>1, <2>2, <2>3, EventStepType DEF CreateEvent, seats
<1>2. ASSUME NEW p \in Prices, NEW end \in EndTimes, NEW c \in Capacities,
             Edit(e, p, end, c)
      PROVE  TypeOK'
  <2>1. p \in Nat /\ end \in Nat /\ c \in Nat
    BY ConstantTypes
  <2>2. [events[e] EXCEPT !.price = p, !.end = end, !.max = c] \in Event
    BY <1>0, <2>1 DEF Event
  <2> QED
    BY <1>0, <1>2, <2>2, EventStepType DEF Edit, seats
<1>3. ASSUME NEW s \in Statuses, SetStatus(e, s)
      PROVE  TypeOK'
  <2>1. [events[e] EXCEPT !.status = s] \in Event
    BY <1>0 DEF Event
  <2> QED
    BY <1>0, <1>3, <2>1, EventStepType DEF SetStatus, seats
<1>4. ASSUME NEW end \in EndTimes, ExtendEventEndTime(e, end)
      PROVE  TypeOK'
  <2>1. end \in Nat
    BY ConstantTypes
  <2>2. [events[e] EXCEPT !.end = end] \in Event
    BY <1>0, <2>1 DEF Event
  <2> QED
    BY <1>0, <1>4, <2>2, EventStepType DEF ExtendEventEndTime, seats
<1>5. ASSUME PauseTicketSales(e) \/ ResumeTicketSales(e)
      PROVE  TypeOK'
  <2>1. \A x \in BOOLEAN : [events[e] EXCEPT !.paused = x] \in Event
    BY <1>0 DEF Event
  <2>2. CASE PauseTicketSales(e)
    BY <1>0, <2>1, <2>2, EventStepType DEF PauseTicketSales, seats
  <2>3. CASE ResumeTicketSales(e)
    BY <1>0, <2>1, <2>3, EventStepType DEF ResumeTicketSales, seats
  <2> QED
    BY <1>5, <2>2, <2>3
<1>6. ASSUME NEW c \in Capacities, SetEventCapacity(e, c)
      PROVE  TypeOK'
  <2>1. c \in Nat /\ events[e].max \in Nat
    BY <1>0, ConstantTypes DEF Event
  <2>2. [events[e] EXCEPT !.max = c] \in Event
    BY <1>0, <2>1 DEF Event
  <2>3. waitlist' \in [Events -> WaitlistState]
    <3>1. CASE c > events[e].max
      <4>1. c - events[e].max \in Nat
        BY <2>1, <3>1
      <4>2. waitlist[e] \in WaitlistState /\ now \in Nat
        BY DEF TypeOK
      <4>3. IssueOffers(waitlist[e], c - events[e].max, now)
              \in WaitlistState
        BY <4>1, <4>2, IssueOffersType
      <4> QED
        BY <1>0, <1>6, <4>3 DEF SetEventCapacity
    <3>2. CASE ~ (c > events[e].max)
      BY <1>0, <1>6, <3>2 DEF SetEventCapacity
    <3> QED
      BY <3>1, <3>2
  <2> QED
    BY <1>6, <2>2, <2>3, EventStepType DEF SetEventCapacity
<1>7. "Published" \in Statuses /\ "Cancelled" \in Statuses
      /\ "Completed" \in Statuses
  BY DEF Statuses
<1>8. CASE \E s \in Statuses : UpdateEventStatus(e, s)
  BY <1>3, <1>8 DEF UpdateEventStatus
<1>9. CASE CancelEvent(e) \/ CompleteEvent(e)
  BY <1>3, <1>7, <1>9 DEF CancelEvent, CompleteEvent
<1>10. CASE \E p \in Prices, end \in EndTimes, c \in Capacities :
              UpdateEvent(e, p, end, c) \/ UpdateEventMetadata(e, p, end, c)
  BY <1>2, <1>10 DEF UpdateEvent, UpdateEventMetadata
<1> QED
  BY <1>1, <1>4, <1>5, <1>6, <1>8, <1>9, <1>10 DEF LifecycleStep

LEMMA RequiredPriceType ==
    ASSUME TypeOK, NEW e \in Events, NEW p \in RequiredPrices(e)
    PROVE  p \in Nat
<1>1. PICK m \in Multipliers : p = (events[e].price * m) \div 10000
  BY DEF RequiredPrices
<1> DEFINE x == events[e].price * m
<1>2. x \in Nat
  <2>1. events[e].price \in Nat
    BY DEF TypeOK, Event
  <2>2. m \in Nat
    BY ConstantTypes
  <2> QED
    BY <2>1, <2>2
<1> HIDE DEF x
<1>3. x \div 10000 \in Nat
  BY <1>2
<1> QED
  BY <1>1, <1>3 DEF x

\* Minting appends q tickets of e, owned by b, and keeps the others.
LEMMA MintAppends ==
    ASSUME TypeOK, NEW e \in Events, NEW b \in Users, NEW q \in Nat,
           tickets' = tickets \o [i \in 1 .. q |-> NewTicket(e, b)]
    PROVE  /\ tickets' \in Seq(Ticket)
           /\ Len(tickets') = Len(tickets) + q
           /\ \A i \in Ids : tickets'[i] = tickets[i]
           /\ \A i \in Len(tickets) + 1 .. Len(tickets) + q :
                 tickets'[i] = NewTicket(e, b)
<1> DEFINE new == [i \in 1 .. q |-> NewTicket(e, b)]
<1>1. NewTicket(e, b) \in Ticket
  BY DEF NewTicket, Ticket
<1>2. new \in Seq(Ticket) /\ Len(new) = q
  BY <1>1
<1>3. \A i \in 1 .. q : new[i] = NewTicket(e, b)
  OBVIOUS
<1> HIDE DEF new
<1>4. tickets' = tickets \o new
  BY DEF new
<1>5. tickets \in Seq(Ticket)
  BY DEF TypeOK
<1>6. /\ tickets' \in Seq(Ticket)
      /\ Len(tickets') = Len(tickets) + Len(new)
      /\ \A i \in 1 .. Len(tickets) + Len(new) :
            tickets'[i] = IF i <= Len(tickets) THEN tickets[i]
                                              ELSE new[i - Len(tickets)]
  BY <1>2, <1>4, <1>5, ConcatProperties
<1>7. Len(tickets) \in Nat
  BY <1>5
<1> QED
  BY <1>2, <1>3, <1>6, <1>7 DEF Ids

LEMMA SellType ==
    ASSUME TypeOK, NEW e \in Events, NEW b \in Users, NEW q \in Nat,
           NEW amount \in Nat, Sell(e, b, q, amount),
           waitlist' \in [Events -> WaitlistState]
    PROVE  TypeOK'
<1>1. Fee(amount) \in Nat /\ Net(amount) \in Nat
  BY FeeBounds DEF TypeOK
<1>2. /\ events[e] \in Event /\ venue[e] \in VenueState
      /\ escrow[e] \in Nat /\ platform \in Nat /\ tokens \in Nat
  BY DEF TypeOK
<1>3. escrow' \in [Events -> Nat]
  <2>1. escrow[e] + Net(amount) \in Nat
    BY <1>1, <1>2
  <2> QED
    BY <2>1 DEF Sell, TypeOK
<1>4. platform' \in Nat /\ tokens' \in Nat
  BY <1>1, <1>2 DEF Sell
<1>5. events' \in [Events -> Event]
  <2>1. [events[e] EXCEPT !.sold = events[e].sold + q] \in Event
    BY <1>2 DEF Event
  <2> QED
    BY <2>1 DEF Sell, TypeOK
<1>6. venue' \in [Events -> VenueState]
  <2>1. Increment(venue[e], q) \in VenueState
    BY <1>2 DEF Increment, VenueState
  <2> QED
    BY <2>1 DEF Sell, TypeOK
<1>7. tickets' \in Seq(Ticket)
  BY MintAppends DEF Sell
<1>8. /\ now' \in Nat /\ feeBps' \in 0 .. 10000
      /\ splits' \in [Events -> Seq(Split)]
  BY DEF Sell, TypeOK
<1>9. waitlist' \in [Events -> WaitlistState]
  OBVIOUS
<1> QED
  BY ONLY <1>3, <1>4, <1>5, <1>6, <1>7, <1>8, <1>9 DEF TypeOK

LEMMA SaleType ==
    ASSUME TypeOK, NEW e \in Events, SaleStep(e)
    PROVE  TypeOK'
<1>0. /\ waitlist \in [Events -> WaitlistState] /\ now \in Nat
      /\ waitlist[e] \in WaitlistState
  BY DEF TypeOK
<1> DEFINE w == Cleanup(waitlist[e], now)
<1>1. w \in WaitlistState
  BY <1>0, CleanupType
<1>2. PICK b \in Users :
        \/ \E p \in RequiredPrices(e), tip \in Tips :
              PurchaseTicket(e, b, p + tip)
        \/ \E q \in Quantities, unit \in RequiredPrices(e) :
              BatchPurchaseTickets(e, b, q, unit)
  BY DEF SaleStep
<1>3. ASSUME NEW p \in RequiredPrices(e), NEW tip \in Tips,
             PurchaseTicket(e, b, p + tip)
      PROVE  TypeOK'
  <2>1. p + tip \in Nat
    BY RequiredPriceType, ConstantTypes
  <2>2. Sell(e, b, 1, p + tip)
    BY <1>3 DEF PurchaseTicket
  <2>3. waitlist' \in [Events -> WaitlistState]
    <3>1. CASE Live(w.offer[b], now)
      <4>1. Consume(w, b) \in WaitlistState
        BY <1>1, <3>1, ConsumeType DEF Live
      <4> QED
        BY <1>0, <1>3, <3>1, <4>1 DEF PurchaseTicket
    <3>2. CASE ~ Live(w.offer[b], now)
      BY <1>0, <1>1, <1>3, <3>2 DEF PurchaseTicket
    <3> QED
      BY <3>1, <3>2
  <2> QED
    BY <2>1, <2>2, <2>3, SellType
<1>4. ASSUME NEW q \in Quantities, NEW unit \in RequiredPrices(e),
             BatchPurchaseTickets(e, b, q, unit)
      PROVE  TypeOK'
  <2>1. q \in Nat /\ unit \in Nat
    BY RequiredPriceType, ConstantTypes
  <2>2. unit * q \in Nat
    BY <2>1
  <2>3. Sell(e, b, q, unit * q)
    BY <1>4 DEF BatchPurchaseTickets
  <2>4. waitlist' \in [Events -> WaitlistState]
    BY <1>0, <1>1, <1>4 DEF BatchPurchaseTickets
  <2> QED
    BY <2>1, <2>2, <2>3, <2>4, SellType
<1> QED
  BY <1>2, <1>3, <1>4

\* A function on the issued ids is a ticket table of the same length.
LEMMA TableType ==
    ASSUME TypeOK, NEW F \in [Ids -> Ticket]
    PROVE  F \in Seq(Ticket) /\ Len(F) = Len(tickets)
<1>1. Len(tickets) \in Nat
  BY DEF TypeOK
<1> QED
  BY <1>1 DEF Ids

LEMMA TicketIsTyped ==
    ASSUME TypeOK, NEW i \in Ids
    PROVE  tickets[i] \in Ticket /\ tickets[i].event \in Events
<1>1. tickets \in Seq(Ticket) /\ i \in 1 .. Len(tickets)
  BY DEF TypeOK, Ids
<1>2. tickets[i] \in Ticket
  BY <1>1, ElementOfSeq
<1> QED
  BY <1>2 DEF Ticket

LEMMA UseTicketsTable ==
    ASSUME TypeOK, NEW T \in SUBSET Ids, UseTickets(T)
    PROVE  /\ tickets' \in Seq(Ticket) /\ Len(tickets') = Len(tickets)
           /\ \A i \in Ids :
                 /\ tickets'[i].event = tickets[i].event
                 /\ tickets'[i].owner = tickets[i].owner
                 /\ tickets'[i].refunded = tickets[i].refunded
                 /\ tickets'[i].revoked = tickets[i].revoked
                 /\ tickets'[i].used = (tickets[i].used \/ i \in T)
<1> DEFINE F == [i \in Ids |-> [tickets[i] EXCEPT !.used = @ \/ i \in T]]
<1>1. \A i \in Ids : [tickets[i] EXCEPT !.used = @ \/ i \in T] \in Ticket
  BY TicketIsTyped DEF Ticket
<1>2. F \in [Ids -> Ticket]
  BY <1>1
<1>3. tickets' = F
  BY DEF UseTickets
<1>4. F \in Seq(Ticket) /\ Len(F) = Len(tickets)
  BY <1>2, TableType
<1> QED
  BY <1>3, <1>4, TicketIsTyped DEF Ticket

LEMMA PayBackTable ==
    ASSUME TypeOK, NEW e \in Events, NEW T \in SUBSET Ids, PayBack(e, T)
    PROVE  /\ tickets' \in Seq(Ticket) /\ Len(tickets') = Len(tickets)
           /\ \A i \in Ids :
                 /\ tickets'[i].event = tickets[i].event
                 /\ tickets'[i].owner = tickets[i].owner
                 /\ tickets'[i].used = tickets[i].used
                 /\ tickets'[i].revoked = tickets[i].revoked
                 /\ tickets'[i].refunded = (tickets[i].refunded \/ i \in T)
<1> DEFINE F ==
        [i \in Ids |-> [tickets[i] EXCEPT !.refunded = @ \/ i \in T]]
<1>1. \A i \in Ids :
        [tickets[i] EXCEPT !.refunded = @ \/ i \in T] \in Ticket
  BY TicketIsTyped DEF Ticket
<1>2. F \in [Ids -> Ticket]
  BY <1>1
<1>3. tickets' = F
  BY DEF PayBack
<1>4. F \in Seq(Ticket) /\ Len(F) = Len(tickets)
  BY <1>2, TableType
<1> QED
  BY <1>3, <1>4, TicketIsTyped DEF Ticket

\* Sets of ticket ids are finite.
LEMMA IdsFinite ==
    ASSUME TypeOK, NEW T \in SUBSET Ids
    PROVE  IsFiniteSet(T) /\ Cardinality(T) \in Nat
<1>1. Len(tickets) \in Nat
  BY DEF TypeOK
<1>2. IsFiniteSet(Ids)
  BY <1>1, FS_Interval DEF Ids
<1> QED
  BY <1>2, FS_Subset, FS_CardinalityType

LEMMA PayBackType ==
    ASSUME TypeOK, NEW e \in Events, NEW T \in SUBSET Ids, PayBack(e, T),
           venue' \in [Events -> VenueState]
    PROVE  TypeOK'
<1> DEFINE k == Cardinality(T)
           p == events[e].price
           n == k * Net(p)
           g == k * p
<1>1. k \in Nat
  BY IdsFinite
<1>2. /\ events[e] \in Event /\ p \in Nat
      /\ escrow[e] \in Nat /\ tokens \in Nat
  BY DEF TypeOK, Event
<1>3. Net(p) \in Nat
  <2>1. feeBps \in 0 .. 10000
    BY DEF TypeOK
  <2> HIDE DEF p
  <2> QED
    BY <1>2, <2>1, FeeBounds
<1>4. n \in Nat /\ g \in Nat
  BY <1>1, <1>2, <1>3
<1>5. /\ escrow[e] >= n /\ tokens >= g
      /\ escrow' = [escrow EXCEPT ![e] = escrow[e] - n]
      /\ tokens' = tokens - g
  BY DEF PayBack
<1> HIDE DEF n, g
<1>6. escrow' \in [Events -> Nat] /\ tokens' \in Nat
  <2>1. escrow[e] - n \in Nat /\ tokens - g \in Nat
    BY <1>2, <1>4, <1>5
  <2> QED
    BY <1>5, <2>1 DEF TypeOK
<1>7. events' \in [Events -> Event]
  <2>1. [events[e] EXCEPT !.sold = SatSub(events[e].sold, k)] \in Event
    BY <1>2, SatSubType DEF Event
  <2> QED
    BY <2>1 DEF PayBack, TypeOK
<1>8. tickets' \in Seq(Ticket)
  BY PayBackTable
<1>9. /\ now' \in Nat /\ feeBps' \in 0 .. 10000 /\ platform' \in Nat
      /\ waitlist' \in [Events -> WaitlistState]
      /\ splits' \in [Events -> Seq(Split)]
  BY DEF PayBack, TypeOK
<1>10. venue' \in [Events -> VenueState]
  OBVIOUS
<1> QED
  BY ONLY <1>6, <1>7, <1>8, <1>9, <1>10 DEF TypeOK

LEMMA DecrementType ==
    ASSUME NEW v \in VenueState, NEW q \in Nat
    PROVE  Decrement(v, q) \in VenueState
BY DEF Decrement, VenueState

LEMMA TicketStepType ==
    ASSUME TypeOK, TicketStep
    PROVE  TypeOK'
<1>1. ASSUME NEW T \in SUBSET Ids, UseTickets(T)
      PROVE  TypeOK'
  <2>1. tickets' \in Seq(Ticket)
    BY <1>1, UseTicketsTable
  <2>2. UNCHANGED <<now, events, money, feeBps, seats, splits>>
    BY <1>1 DEF UseTickets
  <2> QED
    BY <2>1, <2>2 DEF TypeOK, money, seats
<1>2. ASSUME NEW i \in Ids, RevokeTicket(i)
      PROVE  TypeOK'
  <2>1. [tickets[i] EXCEPT !.revoked = TRUE] \in Ticket
    BY TicketIsTyped DEF Ticket
  <2>2. tickets' \in Seq(Ticket)
    BY <1>2, <2>1, ExceptSeq DEF RevokeTicket, TypeOK, Ids
  <2> QED
    BY <1>2, <2>2 DEF RevokeTicket, TypeOK, money, seats
<1>3. ASSUME NEW i \in Ids, NEW to \in Users, TransferTicket(i, to)
      PROVE  TypeOK'
  <2>1. [tickets[i] EXCEPT !.owner = to] \in Ticket
    BY TicketIsTyped DEF Ticket
  <2>2. tickets' \in Seq(Ticket)
    BY <1>3, <2>1, ExceptSeq DEF TransferTicket, TypeOK, Ids
  <2> QED
    BY <1>3, <2>2 DEF TransferTicket, TypeOK, money, seats
<1>4. ASSUME NEW i \in Ids, RefundTicket(i)
      PROVE  TypeOK'
  <2> DEFINE e == tickets[i].event
  <2>1. e \in Events
    BY TicketIsTyped
  <2>2. venue' \in [Events -> VenueState]
    BY <1>4, <2>1, DecrementType DEF RefundTicket, TypeOK
  <2>3. PayBack(e, {i})
    BY <1>4 DEF RefundTicket
  <2> QED
    BY <2>1, <2>2, <2>3, PayBackType
<1> QED
  BY <1>1, <1>2, <1>3, <1>4 DEF TicketStep

LEMMA MoneyStepType ==
    ASSUME TypeOK, NEW e \in Events, MoneyStep(e)
    PROVE  TypeOK'
<1>0. /\ events[e] \in Event /\ venue[e] \in VenueState
      /\ escrow[e] \in Nat /\ tokens \in Nat
  BY DEF TypeOK
<1>1. CASE ExecuteMassRefund(e)
  <2>1. Eligible(e) \in SUBSET Ids
    BY DEF Eligible, Outstanding
  <2>2. venue' \in [Events -> VenueState]
    BY <1>1 DEF ExecuteMassRefund, TypeOK
  <2> QED
    BY <1>1, <2>1, <2>2, PayBackType DEF ExecuteMassRefund
<1>2. CASE ReleaseEscrow(e)
  <2>1. tokens - escrow[e] \in Nat
    BY <1>0, <1>2 DEF ReleaseEscrow
  <2> QED
    BY <1>2, <2>1 DEF ReleaseEscrow, TypeOK, seats
<1>3. ASSUME NEW a \in Transfers, DepositFunds(e, a)
      PROVE  TypeOK'
  <2>1. escrow[e] + a \in Nat /\ tokens + a \in Nat
    BY <1>0, ConstantTypes
  <2>2. escrow' \in [Events -> Nat] /\ tokens' \in Nat
    BY <1>3, <2>1 DEF DepositFunds, TypeOK
  <2>3. /\ feeBps' = feeBps /\ now' = now /\ events' = events
        /\ tickets' = tickets /\ platform' = platform
        /\ venue' = venue /\ waitlist' = waitlist /\ splits' = splits
    BY <1>3 DEF DepositFunds, seats
  <2> QED
    BY <2>2, <2>3 DEF TypeOK
<1>4. ASSUME NEW a \in Transfers, WithdrawFunds(e, a)
      PROVE  TypeOK'
  <2>1. a \in Nat
    BY ConstantTypes
  <2>2. escrow[e] - a \in Nat /\ tokens - a \in Nat
    BY <1>0, <1>4, <2>1 DEF WithdrawFunds
  <2> QED
    BY <1>4, <2>2 DEF WithdrawFunds, TypeOK, seats
<1>5. ASSUME NEW c \in VenueLimits, SetVenueCapacity(e, c)
      PROVE  TypeOK'
  <2>1. c \in Nat
    BY ConstantTypes
  <2>2. Configure(venue[e], c, events[e].sold) \in VenueState
    BY <1>0, <2>1 DEF Configure, MintedSoFar, VenueState, Event
  <2> QED
    BY <1>5, <2>2 DEF SetVenueCapacity, TypeOK, money, seats
<1>6. ASSUME NEW q \in Quantities, IncrementAttendanceCounter(e, q)
      PROVE  TypeOK'
  <2>1. q \in Nat
    BY ConstantTypes
  <2>2. Increment(venue[e], q) \in VenueState
    BY <1>0, <2>1 DEF Increment, VenueState
  <2>3. venue' \in [Events -> VenueState]
    BY <1>6, <2>2 DEF IncrementAttendanceCounter, TypeOK
  <2>4. /\ feeBps' = feeBps /\ now' = now /\ events' = events
        /\ tickets' = tickets /\ escrow' = escrow /\ platform' = platform
        /\ tokens' = tokens /\ waitlist' = waitlist /\ splits' = splits
    BY <1>6 DEF IncrementAttendanceCounter, money
  <2> QED
    BY <2>3, <2>4 DEF TypeOK
<1>7. splits[e] \in Seq(Split) /\ NewSplit \in Split
  BY DEF TypeOK, NewSplit, Split
<1>8. CASE CreateEscrowSplit(e)
  <2>1. Append(splits[e], NewSplit) \in Seq(Split)
    BY <1>7
  <2> QED
    BY <1>8, <2>1 DEF CreateEscrowSplit, TypeOK, money, seats
<1>9. ASSUME NEW i \in 1 .. Len(splits[e]),
             ReleaseEscrowFunds(e, i) \/ DisputeEscrowSplit(e, i)
      PROVE  TypeOK'
  <2> DEFINE x == splits[e]
  <2>1. x[i] \in Split
    BY <1>7, ElementOfSeq
  <2>2. Release(x[i]) \in Split /\ Dispute(x[i]) \in Split
    BY <2>1 DEF Release, Dispute, Split
  <2>3. /\ [x EXCEPT ![i] = Release(x[i])] \in Seq(Split)
        /\ [x EXCEPT ![i] = Dispute(x[i])] \in Seq(Split)
    BY <1>7, <2>2, ExceptSeq
  <2>4. CASE ReleaseEscrowFunds(e, i)
    <3>1. splits' = [splits EXCEPT ![e] = [x EXCEPT ![i] = Release(x[i])]]
      BY <2>4 DEF ReleaseEscrowFunds
    <3>2. splits' \in [Events -> Seq(Split)]
      BY <2>3, <3>1 DEF TypeOK
    <3>3. tokens - escrow[e] \in Nat
      BY <1>0, <2>4 DEF ReleaseEscrowFunds
    <3> HIDE DEF x
    <3> QED
      BY <2>4, <3>2, <3>3 DEF ReleaseEscrowFunds, TypeOK, seats
  <2>5. CASE DisputeEscrowSplit(e, i)
    <3>1. splits' = [splits EXCEPT ![e] = [x EXCEPT ![i] = Dispute(x[i])]]
      BY <2>5 DEF DisputeEscrowSplit
    <3>2. splits' \in [Events -> Seq(Split)]
      BY <2>3, <3>1 DEF TypeOK
    <3> HIDE DEF x
    <3> QED
      BY <2>5, <3>2 DEF DisputeEscrowSplit, TypeOK, money, seats
  <2> QED
    BY <1>9, <2>4, <2>5
<1>10. ASSUME NEW a \in Transfers, DistributeRoyalties(e, a)
       PROVE  TypeOK'
  BY <1>4, <1>10 DEF DistributeRoyalties
<1> QED
  BY <1>1, <1>2, <1>3, <1>4, <1>5, <1>6, <1>8, <1>9, <1>10 DEF MoneyStep

LEMMA AvailableType ==
    ASSUME NEW max, NEW sold, NEW w
    PROVE  Available(max, sold, w) \in Nat
BY SatSubType DEF Available

LEMMA WaitlistStepType ==
    ASSUME TypeOK, NEW e \in Events, WaitlistStep(e)
    PROVE  TypeOK'
<1> DEFINE w == Cleanup(waitlist[e], now)
<1>0. now \in Nat /\ waitlist[e] \in WaitlistState /\ w \in WaitlistState
  BY CleanupType DEF TypeOK
<1>1. ASSUME NEW x \in WaitlistState, SetWaitlist(e, x)
      PROVE  TypeOK'
  BY <1>1 DEF SetWaitlist, TypeOK, money, seats
<1> HIDE DEF w
<1>2. CASE ProcessWaitlistQueue(e)
  <2> DEFINE n == Available(events[e].max, events[e].sold, w)
             x == IF Published(e) THEN IssueOffers(w, n, now) ELSE w
  <2>1. n \in Nat
    BY AvailableType
  <2> HIDE DEF n
  <2>2. x \in WaitlistState
    BY <1>0, <2>1, IssueOffersType
  <2>3. SetWaitlist(e, x)
    BY <1>2 DEF ProcessWaitlistQueue, w, n
  <2> QED
    BY <1>1, <2>2, <2>3
<1>3. CASE ReleaseSpotToNextInLine(e)
  <2> DEFINE x == IF Published(e) THEN IssueOffers(w, 1, now) ELSE w
  <2>1. x \in WaitlistState
    BY <1>0, IssueOffersType
  <2>2. SetWaitlist(e, x)
    BY <1>3 DEF ReleaseSpotToNextInLine, w
  <2> QED
    BY <1>1, <2>1, <2>2
<1>4. ASSUME NEW b \in Users, JoinWaitlist(e, b)
      PROVE  TypeOK'
  <2>1. Join(w, b) \in WaitlistState
    BY <1>0, JoinType
  <2>2. SetWaitlist(e, Join(w, b))
    BY <1>4 DEF JoinWaitlist, w
  <2> QED
    BY <1>1, <2>1, <2>2
<1>5. ASSUME NEW b \in Users, NEW q \in Quantities,
             NotifyWaitlistAvailability(e, b, q)
      PROVE  TypeOK'
  <2>1. q \in Nat
    BY ConstantTypes
  <2>2. Notify(w, b, q, now) \in WaitlistState
    BY <1>0, <2>1, NotifyType
  <2>3. SetWaitlist(e, Notify(w, b, q, now))
    BY <1>5 DEF NotifyWaitlistAvailability, w
  <2> QED
    BY <1>1, <2>2, <2>3
<1>6. ASSUME NEW b \in Users, ExpireWaitlistOffer(e, b)
      PROVE  TypeOK'
  <2>1. ExpireOffer(waitlist[e], b) \in WaitlistState
    BY <1>0, ExpireOfferType
  <2> QED
    BY <1>1, <1>6, <2>1 DEF ExpireWaitlistOffer
<1> QED
  BY <1>2, <1>3, <1>4, <1>5, <1>6 DEF WaitlistStep

LEMMA AdminStepType ==
    ASSUME TypeOK, AdminStep
    PROVE  TypeOK'
<1>1. CASE WithdrawPlatformFees
  <2>1. tokens - platform \in Nat
    BY <1>1 DEF WithdrawPlatformFees, TypeOK, seats
  <2> QED
    BY <1>1, <2>1 DEF WithdrawPlatformFees, TypeOK, seats
<1>2. ASSUME NEW f \in FeeRates, SetPlatformFee(f)
      PROVE  TypeOK'
  <2>1. f \in 0 .. 10000
    BY ContractAssumption
  <2>2. feeBps' \in 0 .. 10000
    BY <1>2, <2>1 DEF SetPlatformFee
  <2>3. /\ now' = now /\ events' = events
        /\ tickets' = tickets /\ escrow' = escrow /\ platform' = platform
        /\ tokens' = tokens /\ venue' = venue /\ waitlist' = waitlist
        /\ splits' = splits
    BY <1>2 DEF SetPlatformFee, money, seats
  <2> QED
    BY ONLY TypeOK, <2>2, <2>3 DEF TypeOK
<1> QED
  BY <1>1, <1>2 DEF AdminStep

LEMMA NextType ==
    ASSUME TypeOK, [Next]_vars
    PROVE  TypeOK'
<1>1. CASE UNCHANGED vars
  BY <1>1 DEF vars, money, seats, TypeOK
<1>2. CASE Tick
  BY <1>2 DEF Tick, TypeOK, money, seats
<1> QED
  BY <1>1, <1>2, LifecycleType, SaleType, TicketStepType, MoneyStepType,
     WaitlistStepType, AdminStepType DEF Next

\* No balance, counter or reservation of the contract ever leaves its type.
THEOREM TypeCorrect == Spec => []TypeOK
<1>1. Init => TypeOK
  BY InitType
<1>2. TypeOK /\ [Next]_vars => TypeOK'
  BY NextType
<1> QED
  BY <1>1, <1>2, PTL DEF Spec

-----------------------------------------------------------------------------
(***************************************************************************)
(* The safety of the waitlist.                                             *)
(***************************************************************************)

-----------------------------------------------------------------------------
(* How one step changes one waitlist.                                      *)

Evolves(w, v, t) ==
    \E x \in {w, Cleanup(w, t)} :
        \/ v = x
        \/ \E n \in Nat : v = IssueOffers(x, n, t)
        \/ \E b \in Users :
              \/ \E q \in Nat : v = Notify(x, b, q, t)
              \/ ~ IsQueued(x, b) /\ v = Join(x, b)
              \/ x.offer[b].quantity > 0 /\ v = Consume(x, b)
              \/ v = ExpireOffer(x, b)

\* Each step rewrites at most one waitlist, by the helpers of the waitlist.
LEMMA WaitlistSteps ==
    ASSUME TypeOK, [Next]_vars
    PROVE  \/ waitlist' = waitlist
           \/ \E e \in Events, v \in WaitlistState :
                 /\ waitlist' = [waitlist EXCEPT ![e] = v]
                 /\ Evolves(waitlist[e], v, now)
<1> DEFINE Goal ==
        \/ waitlist' = waitlist
        \/ \E e \in Events, v \in WaitlistState :
              /\ waitlist' = [waitlist EXCEPT ![e] = v]
              /\ Evolves(waitlist[e], v, now)
<1>0. now \in Nat
  BY DEF TypeOK
<1>1. ASSUME NEW e \in Events, NEW v \in WaitlistState,
             waitlist' = [waitlist EXCEPT ![e] = v],
             Evolves(waitlist[e], v, now)
      PROVE  Goal
  BY <1>1
<1>2. ASSUME waitlist' = waitlist PROVE Goal
  BY <1>2
<1> HIDE DEF Goal
<1>3. ASSUME NEW e \in Events, LifecycleStep(e) PROVE Goal
  <2>1. CASE waitlist' = waitlist
    BY <1>2, <2>1
  <2>2. ASSUME NEW c \in Capacities, SetEventCapacity(e, c),
               c > events[e].max /\ Published(e)
        PROVE  Goal
    <3> DEFINE n == c - events[e].max
               v == IssueOffers(waitlist[e], n, now)
    <3>1. waitlist[e] \in WaitlistState /\ events[e].max \in Nat
      BY DEF TypeOK, Event
    <3>2. c \in Nat
      BY ConstantTypes
    <3>3. n \in Nat
      BY <2>2, <3>1, <3>2
    <3>4. waitlist' = [waitlist EXCEPT ![e] = v]
      BY <2>2 DEF SetEventCapacity
    <3> HIDE DEF n
    <3>5. v \in WaitlistState /\ Evolves(waitlist[e], v, now)
      BY <1>0, <3>1, <3>3, IssueOffersType DEF Evolves
    <3> QED
      BY <1>1, <3>4, <3>5
  <2>3. ASSUME NEW c \in Capacities, SetEventCapacity(e, c)
        PROVE  Goal
    <3>1. CASE c > events[e].max /\ Published(e)
      BY <2>2, <2>3, <3>1
    <3>2. CASE ~ (c > events[e].max /\ Published(e))
      BY <1>2, <2>3, <3>2 DEF SetEventCapacity
    <3> QED
      BY <3>1, <3>2
  <2> QED
    BY <1>2, <1>3, <2>3 DEF LifecycleStep, CreateEvent, UpdateEvent,
       UpdateEventMetadata, Edit, UpdateEventStatus, CancelEvent,
       CompleteEvent, SetStatus, ExtendEventEndTime, PauseTicketSales,
       ResumeTicketSales, seats
<1>4. ASSUME NEW e \in Events, SaleStep(e) PROVE Goal
  <2> DEFINE w == Cleanup(waitlist[e], now)
  <2>1. waitlist[e] \in WaitlistState
    BY DEF TypeOK
  <2>2. w \in WaitlistState /\ Evolves(waitlist[e], w, now)
    BY <1>0, <2>1, CleanupType DEF Evolves
  <2>3. ASSUME NEW b \in Users, NEW a, PurchaseTicket(e, b, a)
        PROVE  Goal
    <3>1. CASE Live(w.offer[b], now)
      <4>1. w.offer[b].quantity > 0
        BY <3>1 DEF Live
      <4>2. waitlist' = [waitlist EXCEPT ![e] = Consume(w, b)]
        BY <2>3, <3>1 DEF PurchaseTicket
      <4> HIDE DEF w
      <4>3. Consume(w, b) \in WaitlistState
        BY <2>2, <4>1, ConsumeType
      <4>4. Evolves(waitlist[e], Consume(w, b), now)
        BY <4>1 DEF Evolves, w
      <4> QED
        BY <1>1, <4>2, <4>3, <4>4
    <3>2. CASE ~ Live(w.offer[b], now)
      BY <1>1, <2>2, <2>3, <3>2 DEF PurchaseTicket
    <3> QED
      BY <3>1, <3>2
  <2>4. ASSUME NEW b \in Users, NEW q, NEW u, BatchPurchaseTickets(e, b, q, u)
        PROVE  Goal
    BY <1>1, <2>2, <2>4 DEF BatchPurchaseTickets
  <2> QED
    BY <1>4, <2>3, <2>4 DEF SaleStep
<1>5. ASSUME NEW e \in Events, WaitlistStep(e) PROVE Goal
  <2> DEFINE w == Cleanup(waitlist[e], now)
             n == Available(events[e].max, events[e].sold, w)
  <2>1. waitlist[e] \in WaitlistState
    BY DEF TypeOK
  <2>2. w \in WaitlistState
    BY <1>0, <2>1, CleanupType
  <2>3. n \in Nat
    BY AvailableType
  <2>4. ASSUME NEW v \in WaitlistState, SetWaitlist(e, v),
               Evolves(waitlist[e], v, now)
        PROVE  Goal
    BY <1>1, <2>4 DEF SetWaitlist
  <2>5. Evolves(waitlist[e], w, now)
    BY DEF Evolves
  <2>6. \A k \in Nat : /\ IssueOffers(w, k, now) \in WaitlistState
                       /\ Evolves(waitlist[e], IssueOffers(w, k, now), now)
    <3>1. \A k \in Nat : Evolves(waitlist[e], IssueOffers(w, k, now), now)
      BY DEF Evolves
    <3> QED
      BY <1>0, <2>2, <3>1, IssueOffersType
  <2>7. CASE ProcessWaitlistQueue(e)
    <3>1. CASE Published(e)
      <4>1. SetWaitlist(e, IssueOffers(w, n, now))
        BY <2>7, <3>1 DEF ProcessWaitlistQueue
      <4> HIDE DEF w, n
      <4> QED
        BY <2>3, <2>4, <2>6, <4>1
    <3>2. CASE ~ Published(e)
      <4>1. SetWaitlist(e, w)
        BY <2>7, <3>2 DEF ProcessWaitlistQueue
      <4> HIDE DEF w
      <4> QED
        BY <2>2, <2>4, <2>5, <4>1
    <3> QED
      BY <3>1, <3>2
  <2>8. CASE ReleaseSpotToNextInLine(e)
    <3>1. CASE Published(e)
      <4>1. SetWaitlist(e, IssueOffers(w, 1, now))
        BY <2>8, <3>1 DEF ReleaseSpotToNextInLine
      <4> HIDE DEF w
      <4> QED
        BY <2>4, <2>6, <4>1
    <3>2. CASE ~ Published(e)
      <4>1. SetWaitlist(e, w)
        BY <2>8, <3>2 DEF ReleaseSpotToNextInLine
      <4> HIDE DEF w
      <4> QED
        BY <2>2, <2>4, <2>5, <4>1
    <3> QED
      BY <3>1, <3>2
  <2>9. ASSUME NEW b \in Users, JoinWaitlist(e, b) PROVE Goal
    <3>1. SetWaitlist(e, Join(w, b)) /\ ~ IsQueued(w, b)
      BY <2>9 DEF JoinWaitlist
    <3>2. Join(w, b) \in WaitlistState
      BY <2>2, JoinType
    <3>3. Evolves(waitlist[e], Join(w, b), now)
      BY <3>1 DEF Evolves
    <3> QED
      BY <2>4, <3>1, <3>2, <3>3
  <2>10. ASSUME NEW b \in Users, NEW q \in Quantities,
                NotifyWaitlistAvailability(e, b, q)
         PROVE  Goal
    <3>1. q \in Nat
      BY ConstantTypes
    <3>2. SetWaitlist(e, Notify(w, b, q, now))
      BY <2>10 DEF NotifyWaitlistAvailability
    <3>3. Notify(w, b, q, now) \in WaitlistState
      BY <1>0, <2>2, <3>1, NotifyType
    <3>4. Evolves(waitlist[e], Notify(w, b, q, now), now)
      BY <3>1 DEF Evolves
    <3> QED
      BY <2>4, <3>2, <3>3, <3>4
  <2>11. ASSUME NEW b \in Users, ExpireWaitlistOffer(e, b) PROVE Goal
    <3>1. ExpireOffer(waitlist[e], b) \in WaitlistState
      BY <2>1, ExpireOfferType
    <3>2. Evolves(waitlist[e], ExpireOffer(waitlist[e], b), now)
      BY DEF Evolves
    <3> QED
      BY <2>4, <2>11, <3>1, <3>2 DEF ExpireWaitlistOffer
  <2> QED
    BY <1>5, <2>7, <2>8, <2>9, <2>10, <2>11 DEF WaitlistStep
<1>6. ASSUME NEW e \in Events, MoneyStep(e) PROVE waitlist' = waitlist
  BY <1>6 DEF MoneyStep, ExecuteMassRefund, PayBack, ReleaseEscrow,
     DepositFunds, WithdrawFunds, DistributeRoyalties, CreateEscrowSplit,
     ReleaseEscrowFunds, DisputeEscrowSplit, SetVenueCapacity,
     IncrementAttendanceCounter, seats
<1>7. ASSUME TicketStep PROVE waitlist' = waitlist
  BY <1>7 DEF TicketStep, UseTickets, RevokeTicket, TransferTicket,
     RefundTicket, PayBack, seats
<1>8. ASSUME AdminStep \/ Tick \/ UNCHANGED vars PROVE waitlist' = waitlist
  BY <1>8 DEF AdminStep, WithdrawPlatformFees, SetPlatformFee, Tick, vars,
     seats
<1>9. Goal
  BY <1>2, <1>3, <1>4, <1>5, <1>6, <1>7, <1>8 DEF Next
<1> QED
  BY <1>9 DEF Goal

-----------------------------------------------------------------------------
(* Offers and the index of their recipients.                               *)

Indexed(w) == \A b \in Users : w.offer[b] # NoOffer => b \in w.recipients

LEMMA EvolvingKeepsIndexed ==
    ASSUME NEW w \in WaitlistState, NEW v \in WaitlistState, NEW t \in Nat,
           Evolves(w, v, t), Indexed(w)
    PROVE  Indexed(v)
<1>1. Cleanup(w, t) \in WaitlistState
  BY CleanupType
<1>2. Indexed(Cleanup(w, t))
  BY DEF Indexed, Cleanup, Stale, WaitlistState
<1>3. PICK x \in {w, Cleanup(w, t)} :
        \/ v = x
        \/ \E n \in Nat : v = IssueOffers(x, n, t)
        \/ \E b \in Users :
              \/ \E q \in Nat : v = Notify(x, b, q, t)
              \/ ~ IsQueued(x, b) /\ v = Join(x, b)
              \/ x.offer[b].quantity > 0 /\ v = Consume(x, b)
              \/ v = ExpireOffer(x, b)
  BY DEF Evolves
<1>4. x \in WaitlistState /\ Indexed(x)
  BY <1>1, <1>2
<1>5. ASSUME NEW n \in Nat, v = IssueOffers(x, n, t) PROVE Indexed(v)
  BY <1>4, <1>5 DEF Indexed, IssueOffers, WaitlistState
<1>6. ASSUME NEW b \in Users, NEW q \in Nat, v = Notify(x, b, q, t)
      PROVE  Indexed(v)
  BY <1>4, <1>6 DEF Indexed, Notify, WaitlistState
<1>7. ASSUME NEW b \in Users, v = Join(x, b) PROVE Indexed(v)
  BY <1>4, <1>7 DEF Indexed, Join, WaitlistState
<1>8. ASSUME NEW b \in Users, x.offer[b].quantity > 0, v = Consume(x, b)
      PROVE  Indexed(v)
  <2>1. b \in x.recipients
    BY <1>4, <1>8 DEF Indexed, NoOffer
  <2>2. /\ v.recipients = x.recipients
        /\ \A c \in Users \ {b} : v.offer[c] = x.offer[c]
    BY <1>4, <1>8 DEF Consume, WaitlistState
  <2> QED
    BY <1>4, <2>1, <2>2 DEF Indexed
<1>9. ASSUME NEW b \in Users, v = ExpireOffer(x, b) PROVE Indexed(v)
  BY <1>4, <1>9 DEF Indexed, ExpireOffer, WaitlistState
<1> QED
  BY <1>3, <1>4, <1>5, <1>6, <1>7, <1>8, <1>9

\* An offer never slips out of the index that the clean-up of expired offers
\* walks, so every expired offer's seats come back.
THEOREM OffersIndexed == Spec => []OffersAreIndexed
<1>1. Init => OffersAreIndexed
  BY DEF Init, OffersAreIndexed, EmptyWaitlist, NoOffer
<1>2. TypeOK /\ OffersAreIndexed /\ [Next]_vars => OffersAreIndexed'
  <2> SUFFICES ASSUME TypeOK, OffersAreIndexed, [Next]_vars
               PROVE  OffersAreIndexed'
    OBVIOUS
  <2>1. CASE waitlist' = waitlist
    BY <2>1 DEF OffersAreIndexed
  <2>2. ASSUME NEW e \in Events, NEW v \in WaitlistState,
               waitlist' = [waitlist EXCEPT ![e] = v],
               Evolves(waitlist[e], v, now)
        PROVE  OffersAreIndexed'
    <3>1. /\ waitlist \in [Events -> WaitlistState]
          /\ waitlist[e] \in WaitlistState /\ now \in Nat
      BY DEF TypeOK
    <3>2. Indexed(waitlist[e])
      BY DEF Indexed, OffersAreIndexed
    <3>3. Indexed(v)
      BY <2>2, <3>1, <3>2, EvolvingKeepsIndexed
    <3> QED
      BY <2>2, <3>1, <3>3 DEF Indexed, OffersAreIndexed
  <2> QED
    BY <2>1, <2>2, WaitlistSteps
<1> QED
  BY <1>1, <1>2, TypeCorrect, PTL DEF Spec

-----------------------------------------------------------------------------
(* Reserved seats.  An offer's seats are pairs of its buyer and a number,  *)
(* so that giving an offer up or taking a seat of it removes pairs, and    *)
(* making one adds some.  The counter covers them: it is lowered by what   *)
(* is removed and raised by no less than what is added.                    *)

Covers(w) ==
    /\ IsFiniteSet(SeatsOffered(w, Users))
    /\ w.reserved >= OfferedSeats(w)

LEMMA SeatOffered ==
    ASSUME NEW w, NEW S, NEW b, NEW i
    PROVE  <<b, i>> \in SeatsOffered(w, S) <=>
               b \in S /\ i \in 1 .. w.offer[b].quantity
BY DEF SeatsOffered

LEMMA SeatIsPair ==
    ASSUME NEW w, NEW S, NEW s \in SeatsOffered(w, S)
    PROVE  \E b \in S : \E i \in 1 .. w.offer[b].quantity : s = <<b, i>>
<1>1. PICK b \in S : s \in {b} \X (1 .. w.offer[b].quantity)
  BY DEF SeatsOffered
<1>2. PICK i \in 1 .. w.offer[b].quantity : s = <<b, i>>
  BY <1>1
<1> QED
  BY <1>2

\* The seats of one buyer's offer.
LEMMA SeatsOfOne ==
    ASSUME NEW b, NEW q \in Nat
    PROVE  /\ IsFiniteSet({b} \X (1 .. q))
           /\ Cardinality({b} \X (1 .. q)) = q
<1> DEFINE f == [i \in 1 .. q |-> <<b, i>>]
           D == {b} \X (1 .. q)
<1>1. f \in Bijection(1 .. q, D)
  <2>1. f \in [1 .. q -> D]
    OBVIOUS
  <2>2. \A i, j \in 1 .. q : f[i] = f[j] => i = j
    OBVIOUS
  <2>3. \A s \in D : \E i \in 1 .. q : f[i] = s
    OBVIOUS
  <2> HIDE DEF f, D
  <2> QED
    BY <2>1, <2>2, <2>3 DEF Bijection, Injection, Surjection, IsInjective
<1>2. IsFiniteSet(1 .. q) /\ Cardinality(1 .. q) = q
  BY FS_Interval
<1> HIDE DEF f
<1> QED
  BY <1>1, <1>2, FS_Bijection DEF ExistsBijection

LEMMA SeatsGiven ==
    ASSUME NEW w \in WaitlistState, NEW v, Covers(w),
           NEW D \in SUBSET SeatsOffered(w, Users),
           SeatsOffered(v, Users) \subseteq SeatsOffered(w, Users) \ D,
           v.reserved = SatSub(w.reserved, Cardinality(D))
    PROVE  Covers(v)
<1> DEFINE S == SeatsOffered(w, Users)
           T == SeatsOffered(v, Users)
<1>1. IsFiniteSet(S) /\ D \subseteq S /\ T \in SUBSET (S \ D)
      /\ w.reserved >= Cardinality(S) /\ w.reserved \in Nat
  BY DEF Covers, OfferedSeats, WaitlistState
<1> HIDE DEF S, T
<1>2. /\ IsFiniteSet(S \ D) /\ IsFiniteSet(D)
      /\ Cardinality(S \ D) = Cardinality(S) - Cardinality(D)
  BY <1>1, CardinalityOfDifference, FS_Subset
<1>3. IsFiniteSet(T) /\ Cardinality(T) <= Cardinality(S \ D)
  BY <1>1, <1>2, FS_Subset
<1>4. /\ Cardinality(S) \in Nat /\ Cardinality(D) \in Nat
      /\ Cardinality(T) \in Nat /\ Cardinality(S \ D) \in Nat
  BY <1>1, <1>2, <1>3, FS_CardinalityType
<1>5. v.reserved = w.reserved - Cardinality(D)
  BY <1>1, <1>2, <1>4 DEF SatSub
<1>6. v.reserved >= Cardinality(T)
  BY <1>1, <1>2, <1>3, <1>4, <1>5
<1> QED
  BY <1>3, <1>6 DEF Covers, OfferedSeats, T

LEMMA SeatsTaken ==
    ASSUME NEW w \in WaitlistState, NEW v, Covers(w), NEW k \in Nat,
           NEW D, IsFiniteSet(D), Cardinality(D) <= k,
           SeatsOffered(v, Users) \subseteq SeatsOffered(w, Users) \cup D,
           v.reserved = w.reserved + k
    PROVE  Covers(v)
<1> DEFINE S == SeatsOffered(w, Users)
           T == SeatsOffered(v, Users)
<1>1. IsFiniteSet(S) /\ T \in SUBSET (S \cup D)
      /\ w.reserved >= Cardinality(S) /\ w.reserved \in Nat
  BY DEF Covers, OfferedSeats, WaitlistState
<1> HIDE DEF S, T
<1>2. /\ IsFiniteSet(S \cup D) /\ IsFiniteSet(S \cap D)
      /\ Cardinality(S \cup D) =
            Cardinality(S) + Cardinality(D) - Cardinality(S \cap D)
  <2>1. S \cap D \in SUBSET D
    OBVIOUS
  <2> QED
    BY <1>1, <2>1, FS_Union, FS_Subset
<1>3. IsFiniteSet(T) /\ Cardinality(T) <= Cardinality(S \cup D)
  BY <1>1, <1>2, FS_Subset
<1>4. /\ Cardinality(S) \in Nat /\ Cardinality(D) \in Nat
      /\ Cardinality(T) \in Nat /\ Cardinality(S \cup D) \in Nat
      /\ Cardinality(S \cap D) \in Nat
  BY <1>1, <1>2, <1>3, FS_CardinalityType
<1>5. v.reserved >= Cardinality(T)
  BY <1>1, <1>2, <1>3, <1>4
<1> QED
  BY <1>3, <1>5 DEF Covers, OfferedSeats, T

LEMMA CleanupCovers ==
    ASSUME NEW w \in WaitlistState, NEW t \in Nat, Covers(w)
    PROVE  Covers(Cleanup(w, t))
<1> DEFINE v == Cleanup(w, t)
           D == SeatsOffered(w, Stale(w, t))
<1>1. Stale(w, t) \subseteq Users
  BY DEF Stale, WaitlistState
<1>2. /\ v.reserved = SatSub(w.reserved, Cardinality(D))
      /\ \A b \in Users : v.offer[b] = IF b \in Stale(w, t) THEN NoOffer
                                       ELSE w.offer[b]
  BY DEF Cleanup, WaitlistState
<1>3. D \in SUBSET SeatsOffered(w, Users)
  BY <1>1 DEF SeatsOffered
<1> HIDE DEF v
<1>4. ASSUME NEW s \in SeatsOffered(v, Users)
      PROVE  s \in SeatsOffered(w, Users) \ D
  <2>0. PICK b \in Users : \E i \in 1 .. v.offer[b].quantity : s = <<b, i>>
    BY SeatIsPair
  <2>1. PICK i \in 1 .. v.offer[b].quantity : s = <<b, i>>
    BY <2>0
  <2>2. b \notin Stale(w, t)
    BY <1>2, <2>1 DEF NoOffer
  <2> QED
    BY <1>2, <2>1, <2>2, SeatOffered
<1>5. SeatsOffered(v, Users) \subseteq SeatsOffered(w, Users) \ D
  BY <1>4
<1> HIDE DEF D
<1> QED
  BY <1>2, <1>3, <1>5, SeatsGiven DEF v

LEMMA IssueCovers ==
    ASSUME NEW w \in WaitlistState, NEW n \in Nat, NEW t \in Nat, Covers(w)
    PROVE  Covers(IssueOffers(w, n, t))
<1> DEFINE v == IssueOffers(w, n, t)
           k == Served(w, n)
           lucky == {w.queue[i] : i \in 1 .. k}
           D == {<<w.queue[i], 1>> : i \in 1 .. k}
           f == [i \in 1 .. k |-> <<w.queue[i], 1>>]
<1>1. k \in Nat
  BY DEF Served, WaitlistState
<1>2. /\ v.reserved = w.reserved + k
      /\ \A b \in Users : v.offer[b] = IF b \in lucky
                                       THEN [quantity |-> 1, expires |-> t + OfferTtl]
                                       ELSE w.offer[b]
  BY DEF IssueOffers, WaitlistState
<1>3. f \in Surjection(1 .. k, D)
  BY DEF Surjection
<1>4. IsFiniteSet(1 .. k) /\ Cardinality(1 .. k) = k
  BY <1>1, FS_Interval
<1>5. \A b \in lucky : <<b, 1>> \in D
  OBVIOUS
<1> HIDE DEF v, k, lucky, D, f
<1>6. IsFiniteSet(D) /\ Cardinality(D) <= k
  BY <1>3, <1>4, FS_Surjection
<1>7. ASSUME NEW s \in SeatsOffered(v, Users)
      PROVE  s \in SeatsOffered(w, Users) \cup D
  <2>0. PICK b \in Users : \E i \in 1 .. v.offer[b].quantity : s = <<b, i>>
    BY SeatIsPair
  <2>1. PICK i \in 1 .. v.offer[b].quantity : s = <<b, i>>
    BY <2>0
  <2>2. CASE b \in lucky
    <3>1. i \in 1 .. 1
      BY <1>2, <2>1, <2>2
    <3>2. i = 1
      BY <3>1
    <3> QED
      BY <1>5, <2>1, <2>2, <3>2
  <2>3. CASE b \notin lucky
    BY <1>2, <2>1, <2>3, SeatOffered
  <2> QED
    BY <2>2, <2>3
<1>8. SeatsOffered(v, Users) \subseteq SeatsOffered(w, Users) \cup D
  BY <1>7
<1> QED
  BY <1>1, <1>2, <1>6, <1>8, SeatsTaken DEF v

LEMMA NotifyCovers ==
    ASSUME NEW w \in WaitlistState, NEW b \in Users, NEW q \in Nat,
           NEW t \in Nat, Covers(w)
    PROVE  Covers(Notify(w, b, q, t))
<1> DEFINE v == Notify(w, b, q, t)
           D == {b} \X (1 .. q)
<1>1. /\ v.reserved = w.reserved + q /\ v.offer[b].quantity = q
      /\ \A c \in Users \ {b} : v.offer[c] = w.offer[c]
  BY DEF Notify, WaitlistState
<1>2. IsFiniteSet(D) /\ Cardinality(D) <= q
  <2>1. IsFiniteSet(D) /\ Cardinality(D) = q
    BY SeatsOfOne
  <2> HIDE DEF D
  <2> QED
    BY <2>1
<1> HIDE DEF v
<1>3. ASSUME NEW s \in SeatsOffered(v, Users)
      PROVE  s \in SeatsOffered(w, Users) \cup D
  <2>0. PICK c \in Users : \E i \in 1 .. v.offer[c].quantity : s = <<c, i>>
    BY SeatIsPair
  <2>1. PICK i \in 1 .. v.offer[c].quantity : s = <<c, i>>
    BY <2>0
  <2>2. CASE c = b
    BY <1>1, <2>1, <2>2
  <2>3. CASE c # b
    BY <1>1, <2>1, <2>3, SeatOffered
  <2> QED
    BY <2>2, <2>3
<1>4. SeatsOffered(v, Users) \subseteq SeatsOffered(w, Users) \cup D
  BY <1>3
<1> HIDE DEF D
<1> QED
  BY <1>1, <1>2, <1>4, SeatsTaken DEF v

LEMMA ConsumeCovers ==
    ASSUME NEW w \in WaitlistState, NEW b \in Users,
           w.offer[b].quantity > 0, Covers(w)
    PROVE  Covers(Consume(w, b))
<1> DEFINE v == Consume(w, b)
           q == w.offer[b].quantity
           D == {<<b, q>>}
<1>1. q \in Nat /\ q > 0
  BY DEF WaitlistState, Offer
<1>2. /\ v.reserved = SatSub(w.reserved, 1)
      /\ \A c \in Users \ {b} : v.offer[c] = w.offer[c]
  BY DEF Consume, WaitlistState
<1>3. v.offer[b].quantity = q - 1
  <2>1. w.offer[b] \in Offer
    BY DEF WaitlistState
  <2>2. v.offer[b] = IF q - 1 = 0 THEN NoOffer
                     ELSE [w.offer[b] EXCEPT !.quantity = q - 1]
    BY DEF Consume, WaitlistState
  <2>3. [w.offer[b] EXCEPT !.quantity = q - 1].quantity = q - 1
    BY <2>1 DEF Offer
  <2>4. NoOffer.quantity = 0
    BY DEF NoOffer
  <2> HIDE DEF v, q
  <2> QED
    BY <2>2, <2>3, <2>4
<1>4. Cardinality(D) = 1
  BY FS_Singleton
<1>5. D \in SUBSET SeatsOffered(w, Users)
  <2>1. q \in 1 .. q
    BY <1>1
  <2> QED
    BY <2>1, SeatOffered
<1> HIDE DEF v
<1>6. ASSUME NEW s \in SeatsOffered(v, Users)
      PROVE  s \in SeatsOffered(w, Users) \ D
  <2>0. PICK c \in Users : \E i \in 1 .. v.offer[c].quantity : s = <<c, i>>
    BY SeatIsPair
  <2>1. PICK i \in 1 .. v.offer[c].quantity : s = <<c, i>>
    BY <2>0
  <2>2. CASE c = b
    <3>1. i \in 1 .. q - 1
      BY <1>3, <2>1, <2>2
    <3>2. i \in 1 .. q /\ i # q
      BY <1>1, <3>1
    <3> QED
      BY <2>1, <2>2, <3>2, SeatOffered
  <2>3. CASE c # b
    BY <1>2, <2>1, <2>3, SeatOffered
  <2> QED
    BY <2>2, <2>3
<1>7. SeatsOffered(v, Users) \subseteq SeatsOffered(w, Users) \ D
  BY <1>6
<1> HIDE DEF D
<1> QED
  BY <1>2, <1>4, <1>5, <1>7, SeatsGiven DEF v

LEMMA ExpireCovers ==
    ASSUME NEW w \in WaitlistState, NEW b \in Users, Covers(w)
    PROVE  Covers(ExpireOffer(w, b))
<1>1. CASE w.offer[b] = NoOffer
  BY <1>1 DEF ExpireOffer
<1>2. CASE w.offer[b] # NoOffer
  <2> DEFINE v == ExpireOffer(w, b)
             q == w.offer[b].quantity
             D == {b} \X (1 .. q)
  <2>1. q \in Nat
    BY DEF WaitlistState, Offer
  <2>2. /\ v.reserved = SatSub(w.reserved, q) /\ v.offer[b] = NoOffer
        /\ \A c \in Users \ {b} : v.offer[c] = w.offer[c]
    BY <1>2 DEF ExpireOffer, WaitlistState
  <2>3. Cardinality(D) = q
    BY <2>1, SeatsOfOne
  <2>4. D \in SUBSET SeatsOffered(w, Users)
    BY DEF SeatsOffered
  <2> HIDE DEF v
  <2>5. ASSUME NEW s \in SeatsOffered(v, Users)
        PROVE  s \in SeatsOffered(w, Users) \ D
    <3>0. PICK c \in Users : \E i \in 1 .. v.offer[c].quantity : s = <<c, i>>
      BY SeatIsPair
    <3>1. PICK i \in 1 .. v.offer[c].quantity : s = <<c, i>>
      BY <3>0
    <3>2. c # b
      BY <2>2, <3>1 DEF NoOffer
    <3> QED
      BY <2>2, <3>1, <3>2, SeatOffered
  <2>6. SeatsOffered(v, Users) \subseteq SeatsOffered(w, Users) \ D
    BY <2>5
  <2> HIDE DEF D
  <2> QED
    BY <2>2, <2>3, <2>4, <2>6, SeatsGiven DEF v
<1> QED
  BY <1>1, <1>2

LEMMA EvolvingKeepsCovers ==
    ASSUME NEW w \in WaitlistState, NEW v \in WaitlistState, NEW t \in Nat,
           Evolves(w, v, t), Covers(w)
    PROVE  Covers(v)
<1>1. PICK x \in {w, Cleanup(w, t)} :
        \/ v = x
        \/ \E n \in Nat : v = IssueOffers(x, n, t)
        \/ \E b \in Users :
              \/ \E q \in Nat : v = Notify(x, b, q, t)
              \/ ~ IsQueued(x, b) /\ v = Join(x, b)
              \/ x.offer[b].quantity > 0 /\ v = Consume(x, b)
              \/ v = ExpireOffer(x, b)
  BY DEF Evolves
<1>2. x \in WaitlistState /\ Covers(x)
  BY CleanupType, CleanupCovers
<1>3. ASSUME NEW b \in Users, v = Join(x, b) PROVE Covers(v)
  <2>1. v.offer = x.offer /\ v.reserved = x.reserved
    BY <1>2, <1>3 DEF Join, WaitlistState
  <2>2. SeatsOffered(v, Users) = SeatsOffered(x, Users)
    BY <2>1 DEF SeatsOffered
  <2> QED
    BY <1>2, <2>1, <2>2 DEF Covers, OfferedSeats
<1> QED
  BY <1>1, <1>2, <1>3, IssueCovers, NotifyCovers, ConsumeCovers, ExpireCovers

\* However offers are made, replaced, taken, expired and cleaned up, the
\* saturating subtractions of the contract never drop the reserved counter
\* below the seats that are promised: none of them ever saturates.
THEOREM ReservedIsEnough == Spec => []ReservedCoversOffers
<1> DEFINE AllCovered == \A e \in Events : Covers(waitlist[e])
<1>1. Init => AllCovered
  <2> SUFFICES ASSUME Init, NEW e \in Events PROVE Covers(waitlist[e])
    OBVIOUS
  <2>1. waitlist[e] = EmptyWaitlist
    BY DEF Init
  <2>2. SeatsOffered(EmptyWaitlist, Users) = {}
    BY DEF SeatsOffered, EmptyWaitlist, NoOffer
  <2>3. EmptyWaitlist.reserved = 0
    BY DEF EmptyWaitlist
  <2> QED
    BY <2>1, <2>2, <2>3, FS_EmptySet DEF Covers, OfferedSeats
<1>2. TypeOK /\ AllCovered /\ [Next]_vars => AllCovered'
  <2> SUFFICES ASSUME TypeOK, AllCovered, [Next]_vars
               PROVE  \A d \in Events : Covers(waitlist'[d])
    BY DEF Covers, OfferedSeats, SeatsOffered
  <2>1. CASE waitlist' = waitlist
    BY <2>1
  <2>2. ASSUME NEW e \in Events, NEW v \in WaitlistState,
               waitlist' = [waitlist EXCEPT ![e] = v],
               Evolves(waitlist[e], v, now)
        PROVE  \A d \in Events : Covers(waitlist'[d])
    <3>1. /\ waitlist \in [Events -> WaitlistState]
          /\ waitlist[e] \in WaitlistState /\ now \in Nat
      BY DEF TypeOK
    <3>2. Covers(v)
      BY <2>2, <3>1, EvolvingKeepsCovers
    <3> QED
      BY <2>2, <3>1, <3>2
  <2> QED
    BY <2>1, <2>2, WaitlistSteps
<1>3. AllCovered => ReservedCoversOffers
  BY DEF Covers, ReservedCoversOffers
<1> QED
  BY <1>1, <1>2, <1>3, TypeCorrect, PTL DEF Spec

-----------------------------------------------------------------------------
(* The queue.                                                              *)

NamesOnce(q) == \A i, j \in 1 .. Len(q) : q[i] = q[j] => i = j

\* What a step may do to a queue: serve a prefix, whose buyers then hold live
\* offers, or append one buyer who is not in it.
QueueMoves(q, v, t) ==
    \/ v.queue = q
    \/ \E k \in 0 .. Len(q) :
          /\ v.queue = SubSeq(q, k + 1, Len(q))
          /\ \A i \in 1 .. k : Live(v.offer[q[i]], t)
    \/ \E b \in Users :
          /\ \A i \in 1 .. Len(q) : q[i] # b
          /\ v.queue = Append(q, b)

LEMMA EvolvingMovesQueue ==
    ASSUME NEW w \in WaitlistState, NEW v \in WaitlistState, NEW t \in Nat,
           Evolves(w, v, t)
    PROVE  QueueMoves(w.queue, v, t)
<1>1. Cleanup(w, t) \in WaitlistState /\ Cleanup(w, t).queue = w.queue
  <2>1. Cleanup(w, t) \in WaitlistState
    BY CleanupType
  <2>2. Cleanup(w, t).queue = w.queue
    BY DEF Cleanup, WaitlistState
  <2> QED
    BY <2>1, <2>2
<1>2. PICK x \in {w, Cleanup(w, t)} :
        \/ v = x
        \/ \E n \in Nat : v = IssueOffers(x, n, t)
        \/ \E b \in Users :
              \/ \E q \in Nat : v = Notify(x, b, q, t)
              \/ ~ IsQueued(x, b) /\ v = Join(x, b)
              \/ x.offer[b].quantity > 0 /\ v = Consume(x, b)
              \/ v = ExpireOffer(x, b)
  BY DEF Evolves
<1>3. x \in WaitlistState /\ x.queue = w.queue
  BY <1>1
<1>4. w.queue \in Seq(Users) /\ Len(w.queue) \in Nat
  BY DEF WaitlistState
<1>5. ASSUME NEW n \in Nat, v = IssueOffers(x, n, t)
      PROVE  QueueMoves(w.queue, v, t)
  <2> DEFINE k == Served(x, n)
             q == w.queue
  <2>1. k \in 0 .. Len(q)
    BY <1>3, <1>4 DEF Served
  <2>2. v.queue = SubSeq(q, k + 1, Len(q))
    BY <1>3, <1>5 DEF IssueOffers, WaitlistState
  <2>3. ASSUME NEW i \in 1 .. k PROVE Live(v.offer[q[i]], t)
    <3>1. q[i] \in Users
      BY <1>4, <2>1, ElementOfSeq
    <3>2. v.offer[q[i]] = [quantity |-> 1, expires |-> t + OfferTtl]
      BY <1>3, <1>5, <3>1 DEF IssueOffers, WaitlistState
    <3> QED
      BY <3>2, OfferTtlAssumption DEF Live
  <2> HIDE DEF k, q
  <2>4. QueueMoves(q, v, t)
    BY <2>1, <2>2, <2>3 DEF QueueMoves
  <2> QED
    BY <2>4 DEF q
<1>6. ASSUME NEW b \in Users, ~ IsQueued(x, b), v = Join(x, b)
      PROVE  QueueMoves(w.queue, v, t)
  <2>1. v.queue = Append(w.queue, b)
    BY <1>3, <1>6 DEF Join, WaitlistState
  <2>2. \A i \in 1 .. Len(w.queue) : w.queue[i] # b
    BY <1>3, <1>6 DEF IsQueued
  <2> QED
    BY <2>1, <2>2 DEF QueueMoves
<1>7. ASSUME NEW b \in Users,
             \/ \E q \in Nat : v = Notify(x, b, q, t)
             \/ v = Consume(x, b)
             \/ v = ExpireOffer(x, b)
      PROVE  v.queue = w.queue
  BY <1>3, <1>7 DEF Notify, Consume, ExpireOffer, WaitlistState
<1> QED
  BY <1>2, <1>3, <1>5, <1>6, <1>7 DEF QueueMoves

\* join_waitlist's look at the queue is enough: no buyer is in it twice.
THEOREM NobodyQueuesTwice == Spec => []QueueNamesOnce
<1>1. Init => QueueNamesOnce
  BY DEF Init, QueueNamesOnce, EmptyWaitlist
<1>2. TypeOK /\ QueueNamesOnce /\ [Next]_vars => QueueNamesOnce'
  <2> SUFFICES ASSUME TypeOK, QueueNamesOnce, [Next]_vars
               PROVE  QueueNamesOnce'
    OBVIOUS
  <2>1. CASE waitlist' = waitlist
    BY <2>1 DEF QueueNamesOnce
  <2>2. ASSUME NEW e \in Events, NEW v \in WaitlistState,
               waitlist' = [waitlist EXCEPT ![e] = v],
               Evolves(waitlist[e], v, now)
        PROVE  QueueNamesOnce'
    <3> DEFINE q == waitlist[e].queue
    <3>1. /\ waitlist \in [Events -> WaitlistState]
          /\ waitlist[e] \in WaitlistState /\ now \in Nat
      BY DEF TypeOK
    <3>2. q \in Seq(Users) /\ NamesOnce(q)
      BY <3>1 DEF WaitlistState, NamesOnce, QueueNamesOnce
    <3>3. QueueMoves(q, v, now)
      BY <2>2, <3>1, EvolvingMovesQueue
    <3> HIDE DEF q
    <3>4. NamesOnce(v.queue)
      <4>1. CASE v.queue = q
        BY <3>2, <4>1
      <4>2. ASSUME NEW k \in 0 .. Len(q), v.queue = SubSeq(q, k + 1, Len(q))
            PROVE  NamesOnce(v.queue)
        <5> DEFINE r == SubSeq(q, k + 1, Len(q))
        <5>1. /\ Len(r) = Len(q) - k
              /\ \A i \in 1 .. Len(q) - k : r[i] = q[k + i]
          BY <3>2, <4>2
        <5> HIDE DEF r
        <5>2. NamesOnce(r)
          BY <3>2, <5>1 DEF NamesOnce
        <5> QED
          BY <4>2, <5>2 DEF r
      <4>3. ASSUME NEW b \in Users, \A i \in 1 .. Len(q) : q[i] # b,
                   v.queue = Append(q, b)
            PROVE  NamesOnce(v.queue)
        <5>1. /\ Len(v.queue) = Len(q) + 1
              /\ \A i \in 1 .. Len(q) : v.queue[i] = q[i]
              /\ v.queue[Len(q) + 1] = b
          BY <3>2, <4>3
        <5> QED
          BY <3>2, <4>3, <5>1 DEF NamesOnce
      <4> QED
        BY <3>3, <4>1, <4>2, <4>3 DEF QueueMoves
    <3> QED
      BY <2>2, <3>1, <3>4 DEF NamesOnce, QueueNamesOnce
  <2> QED
    BY <2>1, <2>2, WaitlistSteps
<1> QED
  BY <1>1, <1>2, TypeCorrect, PTL DEF Spec

\* Only the head of the queue is ever served, and with a live offer.
THEOREM QueueIsFair == Spec => QueueServedInOrder
<1> DEFINE Ordered ==
        \A e \in Events :
            LET q == waitlist[e].queue
                k == Len(q) - Len(waitlist'[e].queue)
            IN  k > 0 =>
                /\ waitlist'[e].queue = SubSeq(q, k + 1, Len(q))
                /\ \A i \in 1 .. k : Live(waitlist'[e].offer[q[i]], now)
<1>1. TypeOK /\ [Next]_vars => Ordered
  <2> SUFFICES ASSUME TypeOK, [Next]_vars, NEW e \in Events
               PROVE  LET q == waitlist[e].queue
                          k == Len(q) - Len(waitlist'[e].queue)
                      IN  k > 0 =>
                          /\ waitlist'[e].queue = SubSeq(q, k + 1, Len(q))
                          /\ \A i \in 1 .. k :
                                Live(waitlist'[e].offer[q[i]], now)
    OBVIOUS
  <2> DEFINE q == waitlist[e].queue
             v == waitlist'[e]
             k == Len(q) - Len(v.queue)
  <2>1. /\ waitlist \in [Events -> WaitlistState]
        /\ waitlist[e] \in WaitlistState /\ now \in Nat
    BY DEF TypeOK
  <2>2. q \in Seq(Users) /\ Len(q) \in Nat
    BY <2>1 DEF WaitlistState
  <2>3. QueueMoves(q, v, now)
    <3>1. CASE waitlist' = waitlist
      BY <3>1 DEF QueueMoves
    <3>2. ASSUME NEW f \in Events, NEW x \in WaitlistState,
                 waitlist' = [waitlist EXCEPT ![f] = x],
                 Evolves(waitlist[f], x, now)
          PROVE  QueueMoves(q, v, now)
      <4>1. CASE f = e
        BY <2>1, <3>2, <4>1, EvolvingMovesQueue
      <4>2. CASE f # e
        BY <2>1, <3>2, <4>2 DEF QueueMoves
      <4> QED
        BY <4>1, <4>2
    <3> QED
      BY <3>1, <3>2, WaitlistSteps
  <2> SUFFICES ASSUME k > 0
               PROVE  /\ v.queue = SubSeq(q, k + 1, Len(q))
                      /\ \A i \in 1 .. k : Live(v.offer[q[i]], now)
    OBVIOUS
  <2> HIDE DEF q, v
  <2>4. v.queue # q
    BY <2>2
  <2>5. ASSUME NEW b, v.queue = Append(q, b) PROVE FALSE
    <3>1. Len(v.queue) = Len(q) + 1
      BY <2>2, <2>5
    <3> QED
      BY <2>2, <3>1
  <2>6. PICK m \in 0 .. Len(q) :
          /\ v.queue = SubSeq(q, m + 1, Len(q))
          /\ \A i \in 1 .. m : Live(v.offer[q[i]], now)
    BY <2>3, <2>4, <2>5 DEF QueueMoves
  <2>7. Len(v.queue) = Len(q) - m
    BY <2>2, <2>6
  <2>8. m = k
    BY <2>2, <2>7
  <2> QED
    BY <2>6, <2>8
<1>2. Spec => [][Ordered]_vars
  BY <1>1, TypeCorrect, PTL DEF Spec
<1> QED
  BY <1>2 DEF QueueServedInOrder
=============================================================================
