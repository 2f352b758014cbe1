----------------------------- MODULE MCServices -----------------------------
(***************************************************************************)
(* Services of the backend that share no state that is modelled, in one    *)
(* model: each behaviour runs one of them, and the numbers of states add.  *)
(***************************************************************************)
EXTENDS UpgradeAuctions, Merchandise, Contributions, WebhookDelivery, Insurance, Loyalty

VARIABLE service

vars == <<service, auctionVars, merchVars, contribVars, webhookVars, insuranceVars, loyaltyVars>>

Init ==
    /\ service \in {"auctions", "merchandise", "contributions", "webhooks", "insurance", "loyalty"}
    /\ AuctionInit /\ MerchInit /\ ContribInit /\ WebhookInit /\ InsuranceInit /\ LoyaltyInit

Next ==
    \/ /\ service = "auctions" /\ AuctionNext
       /\ UNCHANGED <<service, merchVars, contribVars, webhookVars, insuranceVars, loyaltyVars>>
    \/ /\ service = "merchandise" /\ MerchNext
       /\ UNCHANGED <<service, auctionVars, contribVars, webhookVars, insuranceVars, loyaltyVars>>
    \/ /\ service = "contributions" /\ ContribNext
       /\ UNCHANGED <<service, auctionVars, merchVars, webhookVars, insuranceVars, loyaltyVars>>
    \/ /\ service = "webhooks" /\ WebhookNext
       /\ UNCHANGED <<service, auctionVars, merchVars, contribVars, insuranceVars, loyaltyVars>>
    \/ /\ service = "insurance" /\ InsuranceNext
       /\ UNCHANGED <<service, auctionVars, merchVars, contribVars, webhookVars, loyaltyVars>>
    \/ /\ service = "loyalty" /\ LoyaltyNext
       /\ UNCHANGED <<service, auctionVars, merchVars, contribVars, webhookVars, insuranceVars>>

FairSpec == Init /\ [][Next]_vars /\ WebhookFairness
=============================================================================
