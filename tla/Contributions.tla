--------------------------- MODULE Contributions ---------------------------
(***************************************************************************)
(* Sponsors pay for a place in a tier.  An intent is created under a lock  *)
(* of the tier's row but counts the confirmed ones only; a payment is      *)
(* confirmed under a lock of the contribution's row, after a count of the  *)
(* other confirmed ones that no lock protects.                             *)
(***************************************************************************)
EXTENDS Integers, FiniteSets

CONSTANTS
    Contribs,    \* bound: contributions to the tier, in all
    Confirmers,  \* bound: confirmations being handled at once
    TierSizes,   \* the values maxSponsors is given
    LargestTier  \* the largest of them

ASSUME ContributionsAssumption ==
    /\ IsFiniteSet(Contribs) /\ IsFiniteSet(Confirmers) /\ Confirmers # {}
    /\ LargestTier \in Nat
    /\ TierSizes \subseteq 0 .. LargestTier

VARIABLES
    maxSponsors,   \* of the tier
    contribution,  \* status by contribution
    confirming     \* by confirmation: the row it holds locked and the
                   \* maxSponsors it read with it

contribVars == <<maxSponsors, contribution, confirming>>

Unlocked == [row |-> "none"]

ContribInit ==
    /\ maxSponsors \in TierSizes
    /\ contribution = [c \in Contribs |-> "none"]
    /\ confirming = [w \in Confirmers |-> Unlocked]

Confirmed == {c \in Contribs : contribution[c] = "confirmed"}
Locked(c) == \E w \in Confirmers : confirming[w].row = c

CreateIntent(c) ==
    /\ contribution[c] = "none"
    /\ Cardinality(Confirmed) < maxSponsors
    /\ contribution' = [contribution EXCEPT ![c] = "pending"]
    /\ UNCHANGED <<maxSponsors, confirming>>

UpdateTier(m) ==
    /\ maxSponsors' = m /\ m # maxSponsors
    /\ UNCHANGED <<contribution, confirming>>

\* SELECT ... FOR UPDATE OF c of the pending row the memo names.
LockContribution(w, c) ==
    /\ confirming[w] = Unlocked
    /\ contribution[c] = "pending" /\ ~Locked(c)
    /\ confirming' = [confirming EXCEPT ![w] = [row |-> c, max |-> maxSponsors, counted |-> FALSE]]
    /\ UNCHANGED <<maxSponsors, contribution>>

\* Destination, asset or amount is wrong: markFailedInTx and commit.
FailContribution(w) ==
    /\ confirming[w] # Unlocked /\ ~confirming[w].counted
    /\ contribution' = [contribution EXCEPT ![confirming[w].row] = "failed"]
    /\ confirming' = [confirming EXCEPT ![w] = Unlocked]
    /\ UNCHANGED maxSponsors

\* Horizon or the database fails, or the process stops: rolled back.
RollBack(w) ==
    /\ confirming[w] # Unlocked
    /\ confirming' = [confirming EXCEPT ![w] = Unlocked]
    /\ UNCHANGED <<maxSponsors, contribution>>

\* Mutant: the room is not looked at again.
CountNoSponsors(w) ==
    /\ confirming[w] # Unlocked /\ ~confirming[w].counted
    /\ confirming' = [confirming EXCEPT ![w].counted = TRUE]
    /\ UNCHANGED <<maxSponsors, contribution>>

\* The payment is right and the tier has room.
CountSponsors(w) ==
    /\ confirming[w] # Unlocked /\ ~confirming[w].counted
    /\ Cardinality(Confirmed) < confirming[w].max
    /\ confirming' = [confirming EXCEPT ![w].counted = TRUE]
    /\ UNCHANGED <<maxSponsors, contribution>>

\* The tier is full: the payment is made and its contribution stays pending.
TurnAway(w) ==
    /\ confirming[w] # Unlocked /\ ~confirming[w].counted
    /\ Cardinality(Confirmed) >= confirming[w].max
    /\ confirming' = [confirming EXCEPT ![w] = Unlocked]
    /\ UNCHANGED <<maxSponsors, contribution>>

\* UPDATE and commit.
ConfirmContribution(w) ==
    /\ confirming[w] # Unlocked /\ confirming[w].counted
    /\ contribution' = [contribution EXCEPT ![confirming[w].row] = "confirmed"]
    /\ confirming' = [confirming EXCEPT ![w] = Unlocked]
    /\ UNCHANGED maxSponsors

ContribNext ==
    \/ \E c \in Contribs : CreateIntent(c)
    \/ \E m \in TierSizes : UpdateTier(m)
    \/ \E w \in Confirmers :
          \/ FailContribution(w)
          \/ RollBack(w)
          \/ CountSponsors(w)
          \/ TurnAway(w)
          \/ ConfirmContribution(w)
          \/ \E c \in Contribs : LockContribution(w, c)

-----------------------------------------------------------------------------
ContribTypeOK ==
    /\ maxSponsors \in TierSizes
    /\ contribution \in [Contribs -> {"none", "pending", "confirmed", "failed"}]
    /\ confirming \in [Confirmers ->
          {Unlocked} \cup [row : Contribs, max : TierSizes, counted : BOOLEAN]]

Counted == {w \in Confirmers : confirming[w] # Unlocked /\ confirming[w].counted}

ContribSpec == ContribInit /\ [][ContribNext]_contribVars

(***************************************************************************)
(* A tier is sold beyond its size by the confirmations that counted while  *)
(* others had counted and not committed, and by no more than those: the    *)
(* count is not under the tier's lock, but whoever counts counts all that  *)
(* were committed, and none is confirmed uncounted                         *)
(* (contributions.service.ts, confirmContribution step 8).                 *)
(***************************************************************************)
TierOvershootBounded ==
    Cardinality(Confirmed) + Cardinality(Counted)
       <= LargestTier + Cardinality(Confirmers) - 1
=============================================================================
