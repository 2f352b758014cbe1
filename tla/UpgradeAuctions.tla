-------------------------- MODULE UpgradeAuctions --------------------------
(***************************************************************************)
(* An auction of seat upgrades.  A bid is checked twice: whether the        *)
(* auction takes bids when the request arrives, and its amount later, in a *)
(* transaction that holds the auction's row.  The organizer finalizes the  *)
(* auction at any time, before it closes too, under the same lock; a bid   *)
(* that was let in before is recorded afterwards all the same.             *)
(***************************************************************************)
EXTENDS Integers, Sequences, FiniteSets, FiniteSetsExt

CONSTANTS
    BidRequests,      \* bound: bids being handled at once
    UpgradeTickets,   \* the tickets whose holders bid
    BidAmounts,       \* the amounts offered
    UpgradeSlots,     \* slotsAvailable
    StartingPrice, MinIncrement,
    MaxBids           \* bound: bids recorded

ASSUME UpgradeAssumption ==
    /\ BidAmounts \subseteq Nat
    /\ UpgradeSlots \in Nat \ {0}
    /\ StartingPrice \in Nat
    /\ MinIncrement \in Nat \ {0}
    /\ MaxBids \in Nat

VARIABLES
    auction,  \* status, slotsAwarded, and when: before opensAt, before or after closesAt
    offer,    \* the offer of a request let in and not yet recorded
    bids      \* the bids of the auction, in the order they were placed

auctionVars == <<auction, offer, bids>>

NoOffer == [ticket |-> "none"]
Offer == [ticket : UpgradeTickets, amount : BidAmounts]

\* createAuction: bids may be taken at once or from opensAt on.
AuctionInit ==
    /\ auction \in [status : {"open"}, slotsAwarded : {0}, now : {"early", "bidding"}]
    /\ offer = [r \in BidRequests |-> NoOffer]
    /\ bids = << >>

ActiveBids == {i \in DOMAIN bids : bids[i].status = "active"}

MinRequired ==
    IF ActiveBids = {} THEN StartingPrice
    ELSE Max({bids[i].amount : i \in ActiveBids}) + MinIncrement

Marked(S, status) ==
    [i \in DOMAIN bids |-> IF i \in S THEN [bids[i] EXCEPT !.status = status] ELSE bids[i]]

BidsTime ==
    /\ auction' = [auction EXCEPT !.now = IF @ = "early" THEN "bidding" ELSE "over"]
    /\ auction.now # "over"
    /\ UNCHANGED <<offer, bids>>

\* placeUpgradeBid up to its transaction.
EnterBid(r, o) ==
    /\ offer[r] = NoOffer
    /\ auction.status = "open" /\ auction.now = "bidding"
    /\ offer' = [offer EXCEPT ![r] = o]
    /\ UNCHANGED <<auction, bids>>

\* Mutant: the bids the ticket made before stay active.
WithBidKeepingOlder(o) ==
    Append(bids, [ticket |-> o.ticket, amount |-> o.amount, status |-> "active"])

\* The bids on record once o is: a ticket has one active bid.
WithBid(o) ==
    Append(Marked({i \in ActiveBids : bids[i].ticket = o.ticket}, "outbid"),
           [ticket |-> o.ticket, amount |-> o.amount, status |-> "active"])

\* The transaction.  It reads the auction's status and does not look at it.
RecordBid(r) ==
    /\ offer[r] # NoOffer /\ Len(bids) < MaxBids
    /\ offer[r].amount >= MinRequired
    /\ bids' = WithBid(offer[r])
    /\ offer' = [offer EXCEPT ![r] = NoOffer]
    /\ UNCHANGED auction

RefuseBid(r) ==
    /\ offer[r] # NoOffer
    /\ offer[r].amount < MinRequired
    /\ offer' = [offer EXCEPT ![r] = NoOffer]
    /\ UNCHANGED <<auction, bids>>

\* How many bids come before i in the order of finalizeWinningBid.
Ahead(i) ==
    Cardinality({j \in ActiveBids :
        \/ bids[j].amount > bids[i].amount
        \/ bids[j].amount = bids[i].amount /\ j < i})

FinalizeWinningBid ==
    /\ auction.status = "open"
    /\ LET won == {i \in ActiveBids : Ahead(i) < UpgradeSlots}
       IN  /\ bids' = [i \in DOMAIN bids |->
                          IF i \notin ActiveBids THEN bids[i]
                          ELSE [bids[i] EXCEPT !.status = IF i \in won THEN "won" ELSE "lost"]]
           /\ auction' = [auction EXCEPT !.status = "finalized",
                                         !.slotsAwarded = Cardinality(won)]
    /\ UNCHANGED offer

AuctionNext ==
    \/ BidsTime
    \/ FinalizeWinningBid
    \/ \E r \in BidRequests :
          \/ RecordBid(r)
          \/ RefuseBid(r)
          \/ \E o \in Offer : EnterBid(r, o)

AuctionSpec == AuctionInit /\ [][AuctionNext]_auctionVars

-----------------------------------------------------------------------------
\* The bids that came before the auction was finalized: the last of them was
\* the highest, so it won.
InTime == {i \in DOMAIN bids : \E j \in DOMAIN bids : i <= j /\ bids[j].status = "won"}
BestOffer(t) == Max({bids[i].amount : i \in {j \in InTime : bids[j].ticket = t}})
BidTickets == {bids[i].ticket : i \in InTime}

(***************************************************************************)
(* However bids race each other and the organizer, a finalized auction has *)
(* awarded as many upgrades as it has slots or tickets that bid, and each  *)
(* one to a ticket whose best offer fewer than that many others exceed,    *)
(* for that best offer; a bid recorded after takes no award from them      *)
(* (upgrade-auction.service.ts, the outbid update and the lock).           *)
(***************************************************************************)
AwardsGoToBestOffers ==
    auction.status = "finalized" =>
       LET won == {i \in DOMAIN bids : bids[i].status = "won"}
       IN  /\ Cardinality(won) = auction.slotsAwarded
           /\ auction.slotsAwarded = Min({UpgradeSlots, Cardinality(BidTickets)})
           /\ \A i \in won :
                 /\ bids[i].amount = BestOffer(bids[i].ticket)
                 /\ Cardinality({t \in BidTickets : BestOffer(t) > bids[i].amount})
                       < UpgradeSlots
=============================================================================
