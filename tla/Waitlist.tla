------------------------------ MODULE Waitlist ------------------------------
(***************************************************************************)
(* The per-event waitlist of the ticket contract: a FIFO queue of buyers,  *)
(* the timed offers made to them, the index of offer recipients and the    *)
(* counter of reserved seats.  The contract keeps the four in separate     *)
(* storage entries; here they are the fields of one record and every       *)
(* helper of the contract is a function from a record to a record, which   *)
(* LumentixContract applies inside its entry points.                       *)
(*                                                                         *)
(* A buyer without a stored offer holds NoOffer.  The recipients index is  *)
(* a set: the contract walks it in order, but the walk's outcome does not  *)
(* depend on the order.                                                    *)
(***************************************************************************)
EXTENDS Integers, Sequences, FiniteSets

CONSTANTS
    Users,      \* the accounts that buy tickets and wait for them
    OfferTtl    \* how long an offer stays good (ONE_DAY_SECONDS)

ASSUME OfferTtlAssumption == OfferTtl \in Nat \ {0}

NoOffer == [quantity |-> 0, expires |-> 0]

Offer == [quantity : Nat, expires : Nat]

WaitlistState ==
    [queue : Seq(Users), offer : [Users -> Offer],
     recipients : SUBSET Users, reserved : Nat]

EmptyWaitlist ==
    [queue |-> << >>, offer |-> [b \in Users |-> NoOffer],
     recipients |-> {}, reserved |-> 0]

\* u32::saturating_sub
SatSub(a, b) == IF a - b \in Nat THEN a - b ELSE 0

Live(o, now) == o.quantity > 0 /\ o.expires > now

\* The seats the stored offers of the buyers in S promise, numbered for each
\* buyer: there are as many as the quantities of those offers add up to.
SeatsOffered(w, S) == UNION {{b} \X (1 .. w.offer[b].quantity) : b \in S}

\* The seats all the stored offers promise, expired ones included.
OfferedSeats(w) == Cardinality(SeatsOffered(w, Users))

-----------------------------------------------------------------------------
\* cleanup_expired_waitlist_offers: drop what the index no longer needs and
\* give the seats of the expired offers back.
Stale(w, now) == {b \in w.recipients : ~ Live(w.offer[b], now)}

Cleanup(w, now) ==
    LET stale == Stale(w, now)
    IN  [w EXCEPT
            !.offer = [b \in Users |-> IF b \in stale THEN NoOffer
                                                      ELSE w.offer[b]],
            !.recipients = w.recipients \ stale,
            !.reserved = SatSub(w.reserved, Cardinality(SeatsOffered(w, stale)))]

\* process_waitlist_queue_internal on a published event: the first n buyers
\* of the queue get a one-seat offer each, replacing any offer they hold.
Served(w, n) == IF n < Len(w.queue) THEN n ELSE Len(w.queue)

\* Mutant: add_offer_recipient_if_missing is forgotten.
IssueUnindexedOffers(w, n, now) ==
    LET k     == Served(w, n)
        lucky == {w.queue[i] : i \in 1 .. k}
    IN  [w EXCEPT
            !.queue = SubSeq(w.queue, k + 1, Len(w.queue)),
            !.offer = [b \in Users |->
                          IF b \in lucky
                          THEN [quantity |-> 1, expires |-> now + OfferTtl]
                          ELSE w.offer[b]],
            !.reserved = w.reserved + k]

\* Mutant: the queue is rebuilt from its front, so its tail is served.
IssueOffersFromTail(w, n, now) ==
    LET k     == Served(w, n)
        lucky == {w.queue[i] : i \in Len(w.queue) - k + 1 .. Len(w.queue)}
    IN  [w EXCEPT
            !.queue = SubSeq(w.queue, 1, Len(w.queue) - k),
            !.offer = [b \in Users |->
                          IF b \in lucky
                          THEN [quantity |-> 1, expires |-> now + OfferTtl]
                          ELSE w.offer[b]],
            !.recipients = w.recipients \cup lucky,
            !.reserved = w.reserved + k]

IssueOffers(w, n, now) ==
    LET k     == Served(w, n)
        lucky == {w.queue[i] : i \in 1 .. k}
    IN  [w EXCEPT
            !.queue = SubSeq(w.queue, k + 1, Len(w.queue)),
            !.offer = [b \in Users |->
                          IF b \in lucky
                          THEN [quantity |-> 1, expires |-> now + OfferTtl]
                          ELSE w.offer[b]],
            !.recipients = w.recipients \cup lucky,
            !.reserved = w.reserved + k]

\* notify_waitlist_availability: an offer of q seats to b, whoever b is.
Notify(w, b, q, now) ==
    [w EXCEPT !.offer[b] = [quantity |-> q, expires |-> now + OfferTtl],
              !.recipients = w.recipients \cup {b},
              !.reserved = w.reserved + q]

\* join_waitlist's push.
Join(w, b) == [w EXCEPT !.queue = Append(w.queue, b)]

\* Mutant: only the tail of the queue is looked at.
IsLastInQueue(w, b) == Len(w.queue) > 0 /\ w.queue[Len(w.queue)] = b

IsQueued(w, b) == \E i \in 1 .. Len(w.queue) : w.queue[i] = b

\* Mutant: buying one seat releases the seats of the whole offer.
ConsumeReleasingAll(w, b) ==
    LET left == w.offer[b].quantity - 1
    IN  [w EXCEPT
            !.offer[b] = IF left = 0 THEN NoOffer
                         ELSE [w.offer[b] EXCEPT !.quantity = left],
            !.reserved = SatSub(w.reserved, w.offer[b].quantity)]

\* The end of purchase_ticket_internal: one seat of b's offer is taken.
Consume(w, b) ==
    LET left == w.offer[b].quantity - 1
    IN  [w EXCEPT
            !.offer[b] = IF left = 0 THEN NoOffer
                         ELSE [w.offer[b] EXCEPT !.quantity = left],
            !.reserved = SatSub(w.reserved, 1)]

\* expire_waitlist_offer removes b's offer, expired or not.
ExpireOffer(w, b) ==
    IF w.offer[b] = NoOffer THEN w
    ELSE [w EXCEPT !.offer[b] = NoOffer,
                   !.reserved = SatSub(w.reserved, w.offer[b].quantity)]

\* Seats neither sold nor set aside.
Available(max, sold, w) == SatSub(max, sold + w.reserved)
=============================================================================
