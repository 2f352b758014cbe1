----------------------------- MODULE Insurance -----------------------------
(***************************************************************************)
(* Ticket insurance: a policy is bought while the event stands, and its    *)
(* coverage is paid from the event's escrow account when the event is      *)
(* cancelled, at once or after a review.  Every handler reads the policy,  *)
(* looks at its status, pays on Stellar and saves the policy it had read.  *)
(* Abstractions: a save's select and update are one step; one coverage is  *)
(* one unit of the account.                                                *)
(***************************************************************************)
EXTENDS Integers, FiniteSets, Functions

CONSTANTS
    InsuredTickets,  \* the tickets, each of a payment confirmed
    Claimers,        \* bound: requests being handled at once
    Coverages,       \* what the event's account can pay
    MaxMishaps       \* bound: payments whose handler stops or is told nothing

ASSUME InsuranceAssumption ==
    /\ IsFiniteSet(Claimers)
    /\ Coverages \in Nat /\ MaxMishaps \in Nat

VARIABLES
    policy,         \* the status of a ticket's policy
    calledOff,      \* the event is cancelled
    claim,          \* by request: how far it is and for which ticket
    payouts,        \* the coverages paid for a ticket
    ticketRefunded, \* the tickets whose status is refunded
    mishapsSeen

insuranceVars == <<policy, calledOff, claim, payouts, ticketRefunded, mishapsSeen>>

NoClaim == [at |-> "idle"]
At(w, stage) == claim[w].at = stage
Go(w, stage) == claim' = [claim EXCEPT ![w].at = stage]
End(w) == claim' = [claim EXCEPT ![w] = NoClaim]
Start(w, t, stage) ==
    /\ At(w, "idle")
    /\ claim' = [claim EXCEPT ![w] = [at |-> stage, ticket |-> t]]
Policy(w) == policy[claim[w].ticket]

InsuranceInit ==
    /\ policy = [t \in InsuredTickets |-> "none"]
    /\ calledOff = FALSE
    /\ claim = [w \in Claimers |-> NoClaim]
    /\ payouts = [t \in InsuredTickets |-> 0]
    /\ ticketRefunded = {}
    /\ mishapsSeen = 0

CallOff ==
    /\ ~calledOff
    /\ calledOff' = TRUE
    /\ UNCHANGED <<policy, claim, payouts, ticketRefunded, mishapsSeen>>

\* purchaseInsurance: the checks, and the insert, which fails when there is one.
CheckPurchase(w, t) ==
    /\ t \notin ticketRefunded
    /\ policy[t] = "none" /\ ~calledOff
    /\ Start(w, t, "buying")
    /\ UNCHANGED <<policy, calledOff, payouts, ticketRefunded, mishapsSeen>>

InsertPolicy(w) ==
    /\ At(w, "buying")
    /\ policy' = [policy EXCEPT ![claim[w].ticket] = IF @ = "none" THEN "active" ELSE @]
    /\ End(w)
    /\ UNCHANGED <<calledOff, payouts, ticketRefunded, mishapsSeen>>

\* auto_adjudicate_claim: apply_claim_rules approves or asks for a review, by
\* the reason given and the coverage.  A claim that is not adjudicated goes
\* through validateCancellationReason, which asks the same, and on as approved.
ApplyClaimRules(w, t) ==
    /\ policy[t] = "active" /\ calledOff
    /\ \E stage \in {"approved", "to review"} : Start(w, t, stage)
    /\ UNCHANGED <<policy, calledOff, payouts, ticketRefunded, mishapsSeen>>

\* The rest of processInsuranceClaim.
ProcessInsuranceClaim(w) ==
    /\ At(w, "approved")
    /\ IF Policy(w) = "active" THEN Go(w, "paying") ELSE End(w)
    /\ UNCHANGED <<policy, calledOff, payouts, ticketRefunded, mishapsSeen>>

\* escalate_to_reviewer reads the policy again.
ReadEscalated(w) ==
    /\ At(w, "to review")
    /\ IF Policy(w) = "active" THEN Go(w, "escalating") ELSE End(w)
    /\ UNCHANGED <<policy, calledOff, payouts, ticketRefunded, mishapsSeen>>

\* Mutant: a claim that was decided is reviewed again.
ReviewAnyClaim(w, t) ==
    /\ policy[t] # "none"
    /\ \E stage \in {"paying", "rejecting"} : Start(w, t, stage)
    /\ UNCHANGED <<policy, calledOff, payouts, ticketRefunded, mishapsSeen>>

ReviewEscalatedClaim(w, t) ==
    /\ policy[t] = "under_review"
    /\ \E stage \in {"paying", "rejecting"} : Start(w, t, stage)
    /\ UNCHANGED <<policy, calledOff, payouts, ticketRefunded, mishapsSeen>>

\* The policy that was read is saved with its new status.
SavePolicy(w) == \E s \in {<<"escalating", "under_review">>, <<"rejecting", "claim_rejected">>} :
    /\ At(w, s[1])
    /\ policy' = [policy EXCEPT ![claim[w].ticket] = s[2]]
    /\ End(w)
    /\ UNCHANGED <<calledOff, payouts, ticketRefunded, mishapsSeen>>

Spent == SumFunction(payouts)

\* payoutClaim up to the payment.
SendCoverage(w) ==
    /\ At(w, "paying") /\ Spent < Coverages
    /\ payouts' = [payouts EXCEPT ![claim[w].ticket] = @ + 1]
    /\ Go(w, "paid")
    /\ UNCHANGED <<policy, calledOff, ticketRefunded, mishapsSeen>>

\* The payment is applied and the handler is not told, or stops there.
LoseAnswer(w) ==
    /\ At(w, "paying") /\ Spent < Coverages
    /\ mishapsSeen < MaxMishaps
    /\ mishapsSeen' = mishapsSeen + 1
    /\ payouts' = [payouts EXCEPT ![claim[w].ticket] = @ + 1]
    /\ End(w)
    /\ UNCHANGED <<policy, calledOff, ticketRefunded>>

\* A check, the payment or a save that writes nothing fails.
FailClaim(w) ==
    /\ claim[w].at \notin {"idle", "paid", "claimed"}
    /\ End(w)
    /\ UNCHANGED <<policy, calledOff, payouts, ticketRefunded, mishapsSeen>>

SaveClaimed(w) ==
    /\ At(w, "paid")
    /\ policy' = [policy EXCEPT ![claim[w].ticket] = "claimed"]
    /\ Go(w, "claimed")
    /\ UNCHANGED <<calledOff, payouts, ticketRefunded, mishapsSeen>>

RefundTicket(w) ==
    /\ At(w, "claimed")
    /\ ticketRefunded' = ticketRefunded \cup {claim[w].ticket}
    /\ End(w)
    /\ UNCHANGED <<policy, calledOff, payouts, mishapsSeen>>

InsuranceNext ==
    \/ CallOff
    \/ \E w \in Claimers :
          \/ InsertPolicy(w)
          \/ ProcessInsuranceClaim(w)
          \/ ReadEscalated(w)
          \/ SavePolicy(w)
          \/ SendCoverage(w)
          \/ LoseAnswer(w)
          \/ FailClaim(w)
          \/ SaveClaimed(w)
          \/ RefundTicket(w)
          \/ \E t \in InsuredTickets :
                \/ CheckPurchase(w, t)
                \/ ApplyClaimRules(w, t)
                \/ ReviewEscalatedClaim(w, t)

InsuranceSpec == InsuranceInit /\ [][InsuranceNext]_insuranceVars

-----------------------------------------------------------------------------
(***************************************************************************)
(* Every request that finds a policy payable before a claim is saved pays  *)
(* it, once each; and each escalation that saves over the claim makes it   *)
(* payable once more, for everybody but the requests whose escalations are *)
(* still to come.  Of n requests, n - 1 such escalations let 1, then 2,    *)
(* ..., and in the end n requests pay.  A policy is never paid more often, *)
(* but for one payment more for each whose handler never learned of it     *)
(* (insurance.service.ts, the status checks before payoutClaim).           *)
(***************************************************************************)
PayoutsBounded ==
    LET n == Cardinality(Claimers)
    IN  \A t \in InsuredTickets : 2 * payouts[t] <= n * (n + 1) + 2 * mishapsSeen
=============================================================================
