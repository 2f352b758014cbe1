--------------------------- MODULE Services_proofs ---------------------------
(***************************************************************************)
(* What the small services of the backend guarantee, however many requests *)
(* they handle at once: contributions, loyalty, insurance, merchandise and *)
(* upgrade auctions.                                                       *)
(***************************************************************************)
EXTENDS Contributions, Loyalty, Insurance, Merchandise, UpgradeAuctions,
        FiniteSetTheorems, SequenceTheorems, TLAPS

-----------------------------------------------------------------------------
(* Contributions.  However many sponsors, sizes and confirmations there    *)
(* are, a tier is oversold by less than the number of confirmations at     *)
(* work.  The invariant is inductive with the types alone: a confirmation  *)
(* adds one when it has counted fewer than the size, and moves one when it *)
(* commits.                                                                *)

ContribInv == ContribTypeOK /\ TierOvershootBounded

\* The sets that are counted are finite, and the counters no more than all.
LEMMA CountsFinite ==
    ASSUME ContribTypeOK
    PROVE  /\ IsFiniteSet(Confirmed) /\ IsFiniteSet(Counted)
           /\ Cardinality(Confirmed) \in Nat /\ Cardinality(Counted) \in Nat
           /\ Cardinality(Confirmers) \in Nat \ {0}
<1>1. IsFiniteSet(Confirmed)
  BY FS_Subset, ContributionsAssumption DEF Confirmed
<1>2. IsFiniteSet(Counted)
  BY FS_Subset, ContributionsAssumption DEF Counted
<1>3. Cardinality(Confirmers) \in Nat /\ Cardinality(Confirmers) # 0
  BY FS_CardinalityType, FS_EmptySet, ContributionsAssumption
<1> QED
  BY <1>1, <1>2, <1>3, FS_CardinalityType

\* A step after which no set counts more keeps the bound.
LEMMA NoMore ==
    ASSUME ContribInv, ContribTypeOK',
           Confirmed' \subseteq Confirmed, Counted' \subseteq Counted
    PROVE  TierOvershootBounded'
<1>1. /\ Cardinality(Confirmed') <= Cardinality(Confirmed)
      /\ Cardinality(Counted') <= Cardinality(Counted)
  BY CountsFinite, FS_Subset DEF ContribInv
<1>2. Cardinality(Confirmed') \in Nat /\ Cardinality(Counted') \in Nat
  BY CountsFinite, FS_Subset, FS_CardinalityType DEF ContribInv
<1> QED
  BY <1>1, <1>2, CountsFinite, ContributionsAssumption DEF ContribInv, TierOvershootBounded

LEMMA InitContrib == ContribInit => ContribInv
<1> SUFFICES ASSUME ContribInit PROVE ContribInv
  OBVIOUS
<1>1. ContribTypeOK
  BY DEF ContribInit, ContribTypeOK
<1>2. Confirmed = {} /\ Counted = {}
  BY DEF ContribInit, Confirmed, Counted
<1>3. Cardinality(Confirmed) = 0 /\ Cardinality(Counted) = 0
  BY <1>2, FS_EmptySet
<1> QED
  BY <1>1, <1>3, CountsFinite, ContributionsAssumption DEF ContribInv, TierOvershootBounded

LEMMA TypeStep == ContribTypeOK /\ [ContribNext]_contribVars => ContribTypeOK'
<1> SUFFICES ASSUME ContribTypeOK, [ContribNext]_contribVars PROVE ContribTypeOK'
  OBVIOUS
<1> USE DEF ContribTypeOK
<1>1. ASSUME NEW c \in Contribs, CreateIntent(c) PROVE ContribTypeOK'
  BY <1>1 DEF CreateIntent
<1>2. ASSUME NEW m \in TierSizes, UpdateTier(m) PROVE ContribTypeOK'
  BY <1>2 DEF UpdateTier
<1>3. ASSUME NEW w \in Confirmers, NEW c \in Contribs, LockContribution(w, c)
      PROVE  ContribTypeOK'
  BY <1>3 DEF LockContribution
<1>4. ASSUME NEW w \in Confirmers, FailContribution(w) PROVE ContribTypeOK'
  BY <1>4 DEF FailContribution
<1>5. ASSUME NEW w \in Confirmers, RollBack(w) PROVE ContribTypeOK'
  BY <1>5 DEF RollBack
<1>6. ASSUME NEW w \in Confirmers, CountSponsors(w) PROVE ContribTypeOK'
  BY <1>6 DEF CountSponsors
<1>7. ASSUME NEW w \in Confirmers, TurnAway(w) PROVE ContribTypeOK'
  BY <1>7 DEF TurnAway
<1>8. ASSUME NEW w \in Confirmers, ConfirmContribution(w) PROVE ContribTypeOK'
  BY <1>8 DEF ConfirmContribution
<1>9. CASE UNCHANGED contribVars
  BY <1>9 DEF contribVars
<1> QED
  BY <1>1, <1>2, <1>3, <1>4, <1>5, <1>6, <1>7, <1>8, <1>9 DEF ContribNext

\* The room was counted: fewer are confirmed than the tier has places.
LEMMA CountStep ==
    ASSUME ContribInv, ContribTypeOK', NEW w \in Confirmers, CountSponsors(w)
    PROVE  TierOvershootBounded'
<1>1. confirming[w] \in [row : Contribs, max : TierSizes, counted : BOOLEAN]
  BY DEF CountSponsors, ContribInv, ContribTypeOK
<1>2. Cardinality(Confirmed) < LargestTier
  <2>1. confirming[w].max \in 0 .. LargestTier
    BY <1>1, ContributionsAssumption
  <2> QED
    BY <2>1, CountsFinite, ContributionsAssumption DEF CountSponsors, ContribInv
<1>3. Confirmed' = Confirmed
  BY DEF CountSponsors, Confirmed
<1>4. Counted' \subseteq Confirmers
  BY DEF Counted
<1>5. /\ Cardinality(Counted') <= Cardinality(Confirmers)
      /\ Cardinality(Counted') \in Nat
  BY <1>4, FS_Subset, FS_CardinalityType, ContributionsAssumption
<1>6. Cardinality(Confirmed') = Cardinality(Confirmed)
  BY <1>3
<1> QED
  BY <1>2, <1>5, <1>6, CountsFinite, ContributionsAssumption
  DEF ContribInv, TierOvershootBounded

\* One more is confirmed, and one fewer is about to.
LEMMA CommitStep ==
    ASSUME ContribInv, ContribTypeOK', NEW w \in Confirmers, ConfirmContribution(w)
    PROVE  TierOvershootBounded'
<1>1. Confirmed' \subseteq Confirmed \cup {confirming[w].row}
  BY DEF ConfirmContribution, Confirmed, ContribInv, ContribTypeOK
<1>2. Counted' \subseteq Counted \ {w}
  BY DEF ConfirmContribution, Counted, ContribInv, ContribTypeOK
<1>3. w \in Counted
  BY DEF ConfirmContribution, Counted
<1>4. /\ IsFiniteSet(Confirmed \cup {confirming[w].row})
      /\ Cardinality(Confirmed \cup {confirming[w].row}) <= Cardinality(Confirmed) + 1
  BY CountsFinite, FS_AddElement DEF ContribInv
<1>5. /\ IsFiniteSet(Counted \ {w})
      /\ Cardinality(Counted \ {w}) = Cardinality(Counted) - 1
  BY <1>3, CountsFinite, FS_RemoveElement DEF ContribInv
<1>6. /\ Cardinality(Confirmed') <= Cardinality(Confirmed \cup {confirming[w].row})
      /\ Cardinality(Confirmed \cup {confirming[w].row}) \in Nat
      /\ Cardinality(Confirmed') \in Nat
  BY <1>1, <1>4, FS_Subset, FS_CardinalityType
<1>7. /\ Cardinality(Counted') <= Cardinality(Counted \ {w})
      /\ Cardinality(Counted') \in Nat
  BY <1>2, <1>5, FS_Subset, FS_CardinalityType
<1> QED
  BY <1>4, <1>5, <1>6, <1>7, CountsFinite, ContributionsAssumption
  DEF ContribInv, TierOvershootBounded

LEMMA ContribStep == ContribInv /\ [ContribNext]_contribVars => ContribInv'
<1> SUFFICES ASSUME ContribInv, [ContribNext]_contribVars PROVE ContribInv'
  OBVIOUS
<1>0. ContribTypeOK /\ ContribTypeOK'
  BY TypeStep DEF ContribInv
<1>1. ASSUME NEW c \in Contribs, CreateIntent(c) PROVE TierOvershootBounded'
  <2>1. Confirmed' \subseteq Confirmed /\ Counted' \subseteq Counted
    BY <1>0, <1>1 DEF CreateIntent, Confirmed, Counted, ContribTypeOK
  <2> QED
    BY <2>1, <1>0, NoMore
<1>2. ASSUME NEW m \in TierSizes, UpdateTier(m) PROVE TierOvershootBounded'
  <2>1. Confirmed' \subseteq Confirmed /\ Counted' \subseteq Counted
    BY <1>2 DEF UpdateTier, Confirmed, Counted
  <2> QED
    BY <2>1, <1>0, NoMore
<1>3. ASSUME NEW w \in Confirmers, NEW c \in Contribs, LockContribution(w, c)
      PROVE  TierOvershootBounded'
  <2>1. Confirmed' \subseteq Confirmed /\ Counted' \subseteq Counted
    BY <1>0, <1>3 DEF LockContribution, Confirmed, Counted, ContribTypeOK
  <2> QED
    BY <2>1, <1>0, NoMore
<1>4. ASSUME NEW w \in Confirmers, FailContribution(w) \/ RollBack(w) \/ TurnAway(w)
      PROVE  TierOvershootBounded'
  <2>1. Confirmed' \subseteq Confirmed /\ Counted' \subseteq Counted
    BY <1>0, <1>4 DEF FailContribution, RollBack, TurnAway, Confirmed, Counted, ContribTypeOK
  <2> QED
    BY <2>1, <1>0, NoMore
<1>5. ASSUME NEW w \in Confirmers, CountSponsors(w) PROVE TierOvershootBounded'
  BY <1>0, <1>5, CountStep
<1>6. ASSUME NEW w \in Confirmers, ConfirmContribution(w) PROVE TierOvershootBounded'
  BY <1>0, <1>6, CommitStep
<1>7. ASSUME UNCHANGED contribVars PROVE TierOvershootBounded'
  <2>1. Confirmed' \subseteq Confirmed /\ Counted' \subseteq Counted
    BY <1>7 DEF contribVars, Confirmed, Counted
  <2> QED
    BY <2>1, <1>0, NoMore
<1> QED
  BY <1>0, <1>1, <1>2, <1>3, <1>4, <1>5, <1>6, <1>7 DEF ContribNext, ContribInv

(***************************************************************************)
(* A tier never has more sponsors confirmed than its largest size and the  *)
(* confirmations at work, less one (contributions.service.ts,              *)
(* confirmContribution).                                                   *)
(***************************************************************************)
THEOREM TierBounded == ContribSpec => []TierOvershootBounded
<1>1. ContribInit => ContribInv
  BY InitContrib
<1>2. ContribInv /\ [ContribNext]_contribVars => ContribInv'
  BY ContribStep
<1>3. ContribInv => TierOvershootBounded
  BY DEF ContribInv
<1> QED
  BY <1>1, <1>2, <1>3, PTL DEF ContribSpec

-----------------------------------------------------------------------------
(* Loyalty.  However many operations run on an account, redeeming never    *)
(* spends a point twice: what is spent beyond what was earned was put back *)
(* by the save of an account read before.  The invariant adds what the     *)
(* handlers hold: a copy has no more points than were awarded by the time  *)
(* it is saved, and whoever redeems holds the lock and the balance.        *)

Copying == {"changed", "evaluated", "saving", "tiering"}

Holds(w) ==
    /\ task[w].at \in Copying =>
          /\ task[w].entity \in Account
          /\ task[w].award \in Nat
          /\ task[w].entity.balance <= earned + task[w].award
    /\ task[w].at = "redeeming" =>
          /\ rowLock = w
          /\ task[w].points \in Nat
          /\ task[w].balance = account.balance
          /\ task[w].points <= account.balance

Counts ==
    /\ account \in Account
    /\ earned \in Nat /\ spent \in Nat /\ restores \in Nat
    /\ account.balance <= earned
    /\ task = [w \in LoyaltyWorkers |-> task[w]]

LoyaltyInv == Counts /\ SpendingBounded /\ \A w \in LoyaltyWorkers : Holds(w)

\* A tier is a number.
LEMMA TierType == \A n \in Nat : Tier(n) \in Nat
<1> SUFFICES ASSUME NEW n \in Nat PROVE Tier(n) \in Nat
  OBVIOUS
<1>1. IsFiniteSet({m \in TierMinimums : n >= m})
  BY FS_Subset, LoyaltyAssumption
<1> QED
  BY <1>1, FS_CardinalityType DEF Tier

\* Earning more and restoring more both raise what may be spent.
LEMMA Room ==
    ASSUME NEW e \in Nat, NEW a \in Nat, NEW r \in Nat
    PROVE  /\ e * (1 + r) \in Nat
           /\ (e + a) * (1 + r) >= e * (1 + r) + a
           /\ (e + a) * (1 + (r + 1)) >= e * (1 + r) + (e + a)
<1>1. (e + a) * (1 + r) = e * (1 + r) + a * (1 + r)
  OBVIOUS
<1>2. a * (1 + r) = a + a * r /\ a * r \in Nat
  OBVIOUS
<1>3. (e + a) * (1 + (r + 1)) = (e + a) * (1 + r) + (e + a)
  OBVIOUS
<1>4. e * (1 + r) \in Nat
  OBVIOUS
<1>5. e * (1 + r) + a * (1 + r) >= e * (1 + r) + a
  BY <1>2, <1>4
<1> QED
  BY <1>1, <1>2, <1>3, <1>4, <1>5

LEMMA InitLoyalty == LoyaltyInit => LoyaltyInv
<1> SUFFICES ASSUME LoyaltyInit PROVE LoyaltyInv
  OBVIOUS
<1>1. Counts
  BY DEF LoyaltyInit, Counts, Account
<1>2. SpendingBounded
  BY DEF LoyaltyInit, SpendingBounded
<1>3. ASSUME NEW w \in LoyaltyWorkers PROVE Holds(w)
  BY DEF LoyaltyInit, Holds, Copying, NoTask
<1> QED
  BY <1>1, <1>2, <1>3 DEF LoyaltyInv

\* A step that writes only its worker's task, and nothing it holds the lock for.
LEMMA TaskOnly ==
    ASSUME LoyaltyInv, NEW w \in LoyaltyWorkers, NEW v,
           task' = [task EXCEPT ![w] = v],
           UNCHANGED <<account, earned, spent, restores>>,
           rowLock' = rowLock \/ rowLock = w \/ (rowLock = "none" /\ rowLock' = w),
           Holds(w)'
    PROVE  LoyaltyInv'
<1>1. Counts'
  BY DEF LoyaltyInv, Counts
<1>2. SpendingBounded'
  BY DEF LoyaltyInv, SpendingBounded
<1>3. ASSUME NEW u \in LoyaltyWorkers, u # w PROVE Holds(u)'
  <2>1. task'[u] = task[u]
    BY <1>3 DEF LoyaltyInv, Counts
  <2>2. Holds(u)
    BY DEF LoyaltyInv
  <2>3. task[u].at = "redeeming" => rowLock' = u
    BY <2>2, <1>3, LoyaltyAssumption DEF Holds
  <2> QED
    BY <2>1, <2>2, <2>3 DEF Holds
<1> QED
  BY <1>1, <1>2, <1>3 DEF LoyaltyInv

\* An award read is worth no more than the points with it.
LEMMA AwardStep ==
    ASSUME LoyaltyInv, NEW w \in LoyaltyWorkers, NEW p \in PointAmounts, ReadAward(w, p)
    PROVE  LoyaltyInv'
<1> DEFINE copy == [account EXCEPT !.balance = @ + p, !.recent = TRUE]
           new == [at |-> "changed", entity |-> copy, award |-> p]
<1>1. task' = [task EXCEPT ![w] = new]
  BY DEF ReadAward, Begin
<1>2. task'[w] = new
  BY <1>1 DEF LoyaltyInv, Counts
<1>3. p \in Nat
  BY LoyaltyAssumption
<1>4. copy \in Account /\ copy.balance = account.balance + p
  <2>1. account \in Account /\ account.balance + p \in Nat
    BY <1>3 DEF LoyaltyInv, Counts, Account
  <2> QED
    BY <2>1 DEF Account
<1>5. copy.balance <= earned + p
  BY <1>3, <1>4 DEF LoyaltyInv, Counts, Account
<1>6. UNCHANGED <<account, rowLock, earned, spent, restores>>
  BY DEF ReadAward
<1>7. Holds(w)'
  <2>1. /\ task'[w].at = "changed"
        /\ task'[w].entity = copy
        /\ task'[w].award = p
    BY <1>2
  <2> HIDE DEF copy, new
  <2> QED
    BY <2>1, <1>3, <1>4, <1>5, <1>6 DEF Holds
<1> HIDE DEF new
<1> QED
  BY <1>1, <1>6, <1>7, TaskOnly

LEMMA StaleStep ==
    ASSUME LoyaltyInv, NEW w \in LoyaltyWorkers, ReadStale(w)
    PROVE  LoyaltyInv'
<1> DEFINE copy == [account EXCEPT !.balance = 0]
           new == [at |-> "changed", entity |-> copy, award |-> 0]
<1>1. task' = [task EXCEPT ![w] = new]
  BY DEF ReadStale, Begin
<1>2. task'[w] = new
  BY <1>1 DEF LoyaltyInv, Counts
<1>3. copy \in Account /\ copy.balance = 0
  BY DEF LoyaltyInv, Counts, Account
<1>4. UNCHANGED <<account, rowLock, earned, spent, restores>>
  BY DEF ReadStale
<1>5. Holds(w)'
  <2>1. /\ task'[w].at = "changed"
        /\ task'[w].entity = copy
        /\ task'[w].award = 0
    BY <1>2
  <2> HIDE DEF copy, new
  <2> QED
    BY <2>1, <1>3, <1>4 DEF Holds, LoyaltyInv, Counts
<1> HIDE DEF new
<1> QED
  BY <1>1, <1>4, <1>5, TaskOnly

\* Comparing keeps the copy.
LEMMA CompareStep ==
    ASSUME LoyaltyInv, NEW w \in LoyaltyWorkers, Compare(w)
    PROVE  LoyaltyInv'
<1> DEFINE new == [at |-> IF task[w].at = "changed" THEN "saving" ELSE "tiering",
                   entity |-> task[w].entity, award |-> task[w].award,
                   dirty |-> Differing(account, task[w].entity)]
<1>1. task' = [task EXCEPT ![w] = new]
  BY DEF Compare
<1>2. task'[w] = new
  BY <1>1 DEF LoyaltyInv, Counts
<1>3. UNCHANGED <<account, rowLock, earned, spent, restores>>
  BY DEF Compare
<1>4. Holds(w)'
  <2>1. /\ task'[w].at \in {"saving", "tiering"}
        /\ task'[w].entity = task[w].entity
        /\ task'[w].award = task[w].award
    <3>1. CASE task[w].at = "changed"
      BY <3>1, <1>2
    <3>2. CASE task[w].at # "changed"
      <4>1. task'[w] = [at |-> "tiering", entity |-> task[w].entity,
                        award |-> task[w].award, dirty |-> Differing(account, task[w].entity)]
        BY <3>2, <1>2
      <4> HIDE DEF new
      <4> QED
        BY <4>1
    <3> QED
      BY <3>1, <3>2
  <2>2. Holds(w) /\ task[w].at \in Copying
    BY DEF Compare, LoyaltyInv, Copying
  <2> HIDE DEF new
  <2> QED
    BY <2>1, <2>2, <1>3 DEF Holds
<1> HIDE DEF new
<1> QED
  BY <1>1, <1>3, <1>4, TaskOnly

LEMMA LockStep ==
    ASSUME LoyaltyInv, NEW w \in LoyaltyWorkers, NEW p \in PointAmounts, LockRedeem(w, p)
    PROVE  LoyaltyInv'
<1> DEFINE new == [at |-> "redeeming", points |-> p, balance |-> account.balance]
<1>1. task' = [task EXCEPT ![w] = new]
  BY DEF LockRedeem
<1>2. task'[w] = new
  BY <1>1 DEF LoyaltyInv, Counts
<1>3. UNCHANGED <<account, earned, spent, restores>> /\ rowLock = "none" /\ rowLock' = w
  BY DEF LockRedeem
<1>4. Holds(w)'
  <2>1. /\ task'[w].at = "redeeming"
        /\ task'[w].points = p
        /\ task'[w].balance = account.balance
    BY <1>2
  <2>2. p \in Nat /\ p <= account.balance
    BY LoyaltyAssumption DEF LockRedeem, LoyaltyInv, Counts, Account
  <2> HIDE DEF new
  <2> QED
    BY <2>1, <2>2, <1>3 DEF Holds, Copying
<1> HIDE DEF new
<1> QED
  BY <1>1, <1>3, <1>4, TaskOnly

LEMMA EvaluateStep ==
    ASSUME LoyaltyInv, NEW w \in LoyaltyWorkers, Evaluate(w)
    PROVE  LoyaltyInv'
<1> DEFINE copy == [account EXCEPT !.tier = Tier(account.balance)]
           new == IF Tier(account.balance) = account.tier THEN NoTask
                  ELSE [at |-> "evaluated", award |-> 0, entity |-> copy]
<1>1. task' = [task EXCEPT ![w] = new]
  BY DEF Evaluate
<1>2. task'[w] = new
  BY <1>1 DEF LoyaltyInv, Counts
<1>3. UNCHANGED <<account, rowLock, earned, spent, restores>>
  BY DEF Evaluate
<1>4. copy \in Account /\ copy.balance = account.balance
  BY TierType DEF LoyaltyInv, Counts, Account
<1>5. Holds(w)'
  <2>1. CASE new = NoTask
    BY <2>1, <1>2 DEF Holds, Copying, NoTask
  <2>2. CASE new = [at |-> "evaluated", award |-> 0, entity |-> copy]
    <3>1. /\ task'[w].at = "evaluated"
          /\ task'[w].entity = copy
          /\ task'[w].award = 0
      BY <2>2, <1>2
    <3> HIDE DEF copy, new
    <3> QED
      BY <3>1, <1>3, <1>4 DEF Holds, LoyaltyInv, Counts, Account
  <2> QED
    BY <2>1, <2>2
<1> HIDE DEF new
<1> QED
  BY <1>1, <1>3, <1>5, TaskOnly

LEMMA GiveUpStep ==
    ASSUME LoyaltyInv, NEW w \in LoyaltyWorkers, GiveUp(w)
    PROVE  LoyaltyInv'
<1>1. task' = [task EXCEPT ![w] = NoTask]
  BY DEF GiveUp
<1>2. task'[w] = NoTask
  BY <1>1 DEF LoyaltyInv, Counts
<1>3. Holds(w)'
  BY <1>2 DEF Holds, Copying, NoTask
<1>4. /\ UNCHANGED <<account, earned, spent, restores>>
      /\ rowLock' = rowLock \/ rowLock = w
  BY DEF GiveUp
<1> QED
  BY <1>1, <1>3, <1>4, TaskOnly

LEMMA QuietStep == ASSUME LoyaltyInv, GoQuiet PROVE LoyaltyInv'
<1>1. account' \in Account /\ account'.balance = account.balance
  BY DEF GoQuiet, LoyaltyInv, Counts, Account
<1>2. UNCHANGED <<rowLock, task, earned, spent, restores>>
  BY DEF GoQuiet
<1>3. Counts'
  BY <1>1, <1>2 DEF LoyaltyInv, Counts
<1>4. SpendingBounded'
  BY <1>1, <1>2 DEF LoyaltyInv, SpendingBounded
<1>5. ASSUME NEW w \in LoyaltyWorkers PROVE Holds(w)'
  BY <1>1, <1>2 DEF LoyaltyInv, Holds
<1> QED
  BY <1>3, <1>4, <1>5 DEF LoyaltyInv

\* The lock kept the balance as it was read, so what is spent leaves it.
LEMMA RedeemStep ==
    ASSUME LoyaltyInv, NEW w \in LoyaltyWorkers, SaveRedeem(w)
    PROVE  LoyaltyInv'
<1> DEFINE p == task[w].points
<1>1. /\ rowLock = w /\ p \in Nat
      /\ task[w].balance = account.balance /\ p <= account.balance
  BY DEF SaveRedeem, LoyaltyInv, Holds
<1>2. account' = [account EXCEPT !.balance = account.balance - p, !.recent = TRUE]
  BY <1>1 DEF SaveRedeem
<1>3. account.balance \in Nat /\ account.balance - p \in Nat
  BY <1>1 DEF LoyaltyInv, Counts, Account
<1>4. account' \in Account /\ account'.balance = account.balance - p
  <2> HIDE DEF p
  <2> QED
    BY <1>2, <1>3 DEF LoyaltyInv, Counts, Account
<1>5. spent' = spent + p /\ rowLock' = "none" /\ UNCHANGED <<earned, restores>>
  BY DEF SaveRedeem
<1>6. task' = [task EXCEPT ![w] = [at |-> "to evaluate"]]
  BY DEF SaveRedeem
<1> HIDE DEF p
<1>7. Counts'
  <2>1. task' = [u \in LoyaltyWorkers |-> task'[u]]
    BY <1>6 DEF LoyaltyInv, Counts
  <2>2. earned \in Nat /\ spent + p \in Nat /\ restores \in Nat /\ account.balance - p <= earned
    BY <1>1, <1>3 DEF LoyaltyInv, Counts
  <2> QED
    BY <2>1, <2>2, <1>4, <1>5 DEF Counts
<1>8. SpendingBounded'
  <2>1. spent' + account'.balance = spent + account.balance
    BY <1>1, <1>3, <1>4, <1>5 DEF LoyaltyInv, Counts
  <2> QED
    BY <2>1, <1>5 DEF LoyaltyInv, SpendingBounded
<1>9. ASSUME NEW u \in LoyaltyWorkers PROVE Holds(u)'
  <2>1. CASE u = w
    <3>1. task'[u].at = "to evaluate"
      BY <2>1, <1>6 DEF LoyaltyInv, Counts
    <3> QED
      BY <3>1 DEF Holds, Copying
  <2>2. CASE u # w
    <3>1. task'[u] = task[u]
      BY <2>2, <1>6 DEF LoyaltyInv, Counts
    <3>2. task[u].at # "redeeming"
      BY <2>2, <1>1 DEF LoyaltyInv, Holds
    <3> QED
      BY <3>1, <3>2, <1>5 DEF LoyaltyInv, Holds
  <2> QED
    BY <2>1, <2>2
<1> QED
  BY <1>7, <1>8, <1>9 DEF LoyaltyInv

\* A copy brings in what was awarded with it; more than that is a restore, and
\* no copy brings in more than everything that was earned.
LEMMA SaveStep ==
    ASSUME LoyaltyInv, NEW w \in LoyaltyWorkers, Save(w)
    PROVE  LoyaltyInv'
<1> DEFINE a == task[w].award
           c == task[w].entity
<1>1. a \in Nat /\ c \in Account /\ c.balance <= earned + a
  BY DEF Save, LoyaltyInv, Holds, Copying
<1>2. account' = Updated(account, c, task[w].dirty)
  BY DEF Save
<1>3. account' \in Account
  BY <1>1, <1>2 DEF Updated, LoyaltyInv, Counts, Account
<1>4. account'.balance = account.balance \/ account'.balance = c.balance
  BY <1>1, <1>2 DEF Updated, LoyaltyInv, Counts, Account
<1>5. earned' = earned + a /\ spent' = spent /\ rowLock = "none" /\ rowLock' = rowLock
  BY DEF Save
<1>6. restores' = IF account'.balance > account.balance + a THEN restores + 1 ELSE restores
  BY DEF Save
<1> DEFINE v == IF task[w].at = "saving" THEN [at |-> "to evaluate"] ELSE NoTask
<1>7. v.at \in {"to evaluate", "idle"} /\ task' = [task EXCEPT ![w] = v]
  BY DEF Save, NoTask
<1> HIDE DEF v
<1> HIDE DEF a, c
<1>8. /\ account.balance \in Nat /\ account'.balance \in Nat /\ c.balance \in Nat
      /\ earned \in Nat /\ spent \in Nat /\ restores \in Nat
      /\ account.balance <= earned
  BY <1>1, <1>3 DEF LoyaltyInv, Counts, Account
<1>9. account'.balance <= earned'
  BY <1>1, <1>4, <1>5, <1>8
<1>10. Counts'
  <2>1. task' = [u \in LoyaltyWorkers |-> task'[u]]
    BY <1>7 DEF LoyaltyInv, Counts
  <2>2. earned' \in Nat /\ spent' \in Nat /\ restores' \in Nat
    BY <1>1, <1>5, <1>6, <1>8
  <2> QED
    BY <2>1, <2>2, <1>3, <1>9 DEF Counts
<1>11. SpendingBounded'
  <2> DEFINE bound == earned * (1 + restores)
  <2>1. /\ bound \in Nat
        /\ (earned + a) * (1 + restores) >= bound + a
        /\ (earned + a) * (1 + (restores + 1)) >= bound + (earned + a)
    BY <1>1, <1>8, Room
  <2>2. spent + account.balance <= bound
    BY DEF LoyaltyInv, SpendingBounded
  <2>3. (earned + a) * (1 + restores) \in Nat /\ (earned + a) * (1 + (restores + 1)) \in Nat
    BY <1>1, <1>8, Room
  <2> HIDE DEF bound
  <2>4. CASE account'.balance > account.balance + a
    <3>1. spent + account'.balance <= bound + (earned + a)
      BY <2>1, <2>2, <1>1, <1>5, <1>8, <1>9
    <3>2. restores' = restores + 1
      BY <2>4, <1>6
    <3>3. spent + account'.balance <= (earned + a) * (1 + (restores + 1))
      BY <3>1, <2>1, <2>3, <1>1, <1>8
    <3> QED
      BY <3>2, <3>3, <1>5 DEF SpendingBounded
  <2>5. CASE ~(account'.balance > account.balance + a)
    <3>1. spent + account'.balance <= bound + a
      BY <2>5, <2>1, <2>2, <1>1, <1>8
    <3>2. restores' = restores
      BY <2>5, <1>6
    <3>3. spent + account'.balance <= (earned + a) * (1 + restores)
      BY <3>1, <2>1, <2>3, <1>1, <1>8
    <3> QED
      BY <3>2, <3>3, <1>5 DEF SpendingBounded
  <2> QED
    BY <2>4, <2>5
<1>12. ASSUME NEW u \in LoyaltyWorkers PROVE Holds(u)'
  <2>1. CASE u = w
    <3>1. task'[u].at \in {"to evaluate", "idle"}
      BY <2>1, <1>7 DEF LoyaltyInv, Counts
    <3> QED
      BY <3>1 DEF Holds, Copying
  <2>2. CASE u # w
    <3>1. task'[u] = task[u]
      BY <2>2, <1>7 DEF LoyaltyInv, Counts
    <3>2. Holds(u)
      BY DEF LoyaltyInv
    <3>3. task[u].at # "redeeming"
      BY <3>2, <1>5, LoyaltyAssumption DEF Holds
    <3>4. ASSUME task[u].at \in Copying
          PROVE  task[u].entity.balance <= earned' + task[u].award
      <4>1. task[u].award \in Nat /\ task[u].entity.balance \in Nat
            /\ task[u].entity.balance <= earned + task[u].award
        BY <3>2, <3>4 DEF Holds, Account
      <4> QED
        BY <4>1, <1>1, <1>5, <1>8
    <3> QED
      BY <3>1, <3>2, <3>3, <3>4 DEF Holds
  <2> QED
    BY <2>1, <2>2
<1> QED
  BY <1>10, <1>11, <1>12 DEF LoyaltyInv

LEMMA LoyaltyStep == LoyaltyInv /\ [LoyaltyNext]_loyaltyVars => LoyaltyInv'
<1> SUFFICES ASSUME LoyaltyInv, [LoyaltyNext]_loyaltyVars PROVE LoyaltyInv'
  OBVIOUS
<1>1. CASE UNCHANGED loyaltyVars
  BY <1>1 DEF loyaltyVars, LoyaltyInv, Counts, SpendingBounded, Holds
<1> QED
  BY <1>1, AwardStep, StaleStep, CompareStep, SaveStep, LockStep, RedeemStep, EvaluateStep,
     GiveUpStep, QuietStep DEF LoyaltyNext

(***************************************************************************)
(* Points spent and points left are never more than the points earned, but *)
(* for the saves that put spent points back (loyalty.service.ts,           *)
(* redeemPointsForDiscount under its lock; the other savers without one).  *)
(***************************************************************************)
THEOREM RedeemingSpendsOnce == LoyaltySpec => []SpendingBounded
<1>1. LoyaltyInv => SpendingBounded
  BY DEF LoyaltyInv
<1> QED
  BY <1>1, InitLoyalty, LoyaltyStep, PTL DEF LoyaltySpec

-----------------------------------------------------------------------------
(* Insurance.  The requests that are about to pay, the ones that hold an   *)
(* escalation back and the ones that have paid are counted; from them      *)
(* follows how often a policy can still be paid.                           *)

Stage(t, s) == {w \in Claimers : claim[w] = [at |-> s, ticket |-> t]}
NumAt(t, s) == Cardinality(Stage(t, s))

Decided == {"claim_rejected", "claimed"}
Stages == {"buying", "approved", "to review", "paying", "escalating", "rejecting",
           "paid", "claimed"}

InsuranceTyped ==
    /\ policy \in [InsuredTickets -> {"none", "active", "under_review"} \cup Decided]
    /\ claim \in [Claimers -> {NoClaim} \cup [at : Stages, ticket : InsuredTickets]]
    /\ payouts \in [InsuredTickets -> Nat]
    /\ mishapsSeen \in Nat

\* Who has the ticket t in hand while its policy is new.
NewPolicy(t) ==
    /\ policy[t] = "none" =>
          \A s \in Stages \ {"buying"} : Stage(t, s) = {}
    /\ policy[t] = "active" => Stage(t, "rejecting") = {}

\* Twice the payments that e escalations lead to, among n requests.
Round(e, n) == 2 * e * n - e * (e - 1)
Limit(n, m) == n * (n + 1) + 2 * m

\* Twice what was paid for a policy of status p, and what still can be, when
\* a requests are about to pay, e to escalate, and f have just paid.
PayoutRoom(p, paid, a, e, f, n, m) ==
    /\ p = "none" => paid = 0
    /\ p = "active" => paid <= f + m
    /\ p = "under_review" => 2 * (paid + n - e - f) + Round(e, n) <= Limit(n, m)
    /\ p \in Decided => 2 * (paid + a) + Round(e, n) <= Limit(n, m)

RoomLeft(t) ==
    PayoutRoom(policy[t], payouts[t], NumAt(t, "paying"),
               NumAt(t, "escalating"), NumAt(t, "paid"),
               Cardinality(Claimers), mishapsSeen)

InsuranceInv ==
    /\ InsuranceTyped
    /\ \A t \in InsuredTickets : NewPolicy(t) /\ RoomLeft(t)

LEMMA RoundStep ==
    ASSUME NEW e \in Nat, NEW n \in Nat, e > 0
    PROVE  Round(e, n) = Round(e - 1, n) + 2 * (n - (e - 1))
<1>1. 2 * e * n = 2 * (e - 1) * n + 2 * n
  OBVIOUS
<1>2. e * (e - 1) = (e - 1) * (e - 1 - 1) + 2 * (e - 1)
  OBVIOUS
<1> QED
  BY <1>1, <1>2 DEF Round

\* As many escalations as there are requests lead to the most payments.
LEMMA RoundMax ==
    ASSUME NEW e \in Nat, NEW n \in Nat, e <= n, NEW m \in Nat
    PROVE  /\ Round(e, n) \in Int /\ Limit(n, m) \in Int
           /\ 0 <= Round(e, n) /\ Round(e, n) + 2 * m <= Limit(n, m)
           /\ Limit(n, m + 1) = Limit(n, m) + 2
           /\ 2 * n + 2 * m <= Limit(n, m)
<1> DEFINE d == n - e
<1>1. d \in Nat /\ n = e + d
  OBVIOUS
<1>2. d * d \in Nat /\ e * e \in Nat /\ e * d \in Nat
  BY <1>1
<1>3. 2 * e * n = 2 * (e * e) + 2 * (e * d)
  BY <1>1
<1>4. e * (e - 1) = e * e - e
  OBVIOUS
<1>5. n * (n + 1) = e * e + 2 * (e * d) + d * d + e + d
  BY <1>1
<1>6. 2 * n <= n * (n + 1)
  <2>1. CASE n = 0
    BY <2>1
  <2>2. CASE n > 0
    <3>1. n * (n + 1) = n * (n - 1) + 2 * n /\ n * (n - 1) \in Nat
      BY <2>2
    <3> QED
      BY <3>1
  <2> QED
    BY <2>1, <2>2
<1>7. Round(e, n) = e * e + 2 * (e * d) + e
  BY <1>2, <1>3, <1>4 DEF Round
<1> QED
  BY <1>1, <1>2, <1>5, <1>6, <1>7 DEF Limit

\* How the room changes.
LEMMA RoomSteps ==
    ASSUME NEW p \in {"none", "active", "under_review"} \cup Decided, NEW paid \in Nat,
           NEW a \in Nat, NEW e \in Nat, NEW f \in Nat, NEW n \in Nat, NEW m \in Nat,
           a + e + f <= n,
           PayoutRoom(p, paid, a, e, f, n, m)
    PROVE  /\ PayoutRoom(p, paid, a, e, f, n, m + 1)
           /\ \A b, d, g \in Nat :
                 /\ b + d + g <= n /\ g >= f
                 /\ p \in {"under_review"} \cup Decided => d \in {e, e - 1}
                 /\ p \in Decided => b <= a
                 => PayoutRoom(p, paid, b, d, g, n, m)
           /\ p # "none" /\ a > 0 =>
                 /\ PayoutRoom(p, paid + 1, a - 1, e, f + 1, n, m)
                 /\ PayoutRoom(p, paid + 1, a - 1, e, f, n, m + 1)
           /\ p # "none" /\ f > 0 => PayoutRoom("claimed", paid, a, e, f - 1, n, m)
           /\ p # "none" /\ e > 0 => PayoutRoom("under_review", paid, a, e - 1, f, n, m)
           /\ p \notin {"none", "active"} => PayoutRoom("claim_rejected", paid, a, e, f, n, m)
<1> DEFINE R(d) == Round(d, n)
           L(k) == Limit(n, k)
<1>1. \A d \in Nat : d <= n => R(d) \in Int /\ 0 <= R(d) /\ R(d) + 2 * m <= L(m)
  BY RoundMax
<1>2. \A d \in Nat : d > 0 => R(d) = R(d - 1) + 2 * (n - (d - 1))
  BY RoundStep
<1>3. L(m) \in Int /\ L(m + 1) = L(m) + 2
  BY RoundMax
<1>4. \A q, k, b, d, g, j :
         PayoutRoom(q, k, b, d, g, n, j) <=>
            /\ q = "none" => k = 0
            /\ q = "active" => k <= g + j
            /\ q = "under_review" => 2 * (k + n - d - g) + R(d) <= L(j)
            /\ q \in Decided => 2 * (k + b) + R(d) <= L(j)
  BY DEF PayoutRoom
<1> HIDE DEF R, L
<1>5. e <= n /\ (e > 0 => e - 1 \in Nat /\ e - 1 <= n)
  OBVIOUS
<1>6. R(e) \in Int /\ (e > 0 => R(e - 1) \in Int)
  BY <1>1, <1>5
<1>7. PayoutRoom(p, paid, a, e, f, n, m + 1)
  BY <1>3, <1>4, <1>6
<1>8. ASSUME NEW b \in Nat, NEW d \in Nat, NEW g \in Nat, b + d + g <= n, g >= f,
             p \in {"under_review"} \cup Decided => d \in {e, e - 1},
             p \in Decided => b <= a
      PROVE  PayoutRoom(p, paid, b, d, g, n, m)
  <2>1. CASE p \in {"none", "active"}
    BY <1>4, <1>8, <2>1 DEF Decided
  <2>2. CASE d = e /\ p \in {"under_review"} \cup Decided
    BY <1>3, <1>4, <1>6, <1>8, <2>2 DEF Decided
  <2>3. CASE d = e - 1 /\ p \in {"under_review"} \cup Decided
    <3>1. e > 0 /\ R(e) = R(d) + 2 * (n - d)
      BY <1>2, <1>8, <2>3
    <3> QED
      BY <1>3, <1>4, <1>6, <1>8, <2>3, <3>1 DEF Decided
  <2> QED
    BY <1>8, <2>1, <2>2, <2>3
<1>9. ASSUME p # "none", a > 0
      PROVE  /\ PayoutRoom(p, paid + 1, a - 1, e, f + 1, n, m)
             /\ PayoutRoom(p, paid + 1, a - 1, e, f, n, m + 1)
  BY <1>3, <1>4, <1>6, <1>9
<1>10. ASSUME p # "none", f > 0
       PROVE  PayoutRoom("claimed", paid, a, e, f - 1, n, m)
  <2>1. R(e + 1) = R(e) + 2 * (n - e) /\ R(e + 1) + 2 * m <= L(m)
    BY <1>1, <1>2, <1>10
  <2>2. 2 * (paid + a) + R(e) <= L(m)
    BY <1>3, <1>4, <1>6, <1>10, <2>1
  <2> QED
    BY <1>4, <2>2 DEF Decided
<1>11. ASSUME p # "none", e > 0
       PROVE  PayoutRoom("under_review", paid, a, e - 1, f, n, m)
  <2>1. R(e) = R(e - 1) + 2 * (n - (e - 1)) /\ R(e) + 2 * m <= L(m)
    BY <1>1, <1>2, <1>5, <1>11
  <2>2. 2 * (paid + n - (e - 1) - f) + R(e - 1) <= L(m)
    BY <1>3, <1>4, <1>5, <1>6, <1>11, <2>1
  <2> QED
    BY <1>4, <2>2 DEF Decided
<1>12. ASSUME p \notin {"none", "active"}
       PROVE  PayoutRoom("claim_rejected", paid, a, e, f, n, m)
  BY <1>3, <1>4, <1>6, <1>12 DEF Decided
<1> QED
  BY <1>7, <1>8, <1>9, <1>10, <1>11, <1>12

\* Sets that do not overlap are together no larger than what holds them.
LEMMA DisjointFit ==
    ASSUME NEW C, IsFiniteSet(C),
           NEW A \in SUBSET C, NEW E \in SUBSET C, NEW F \in SUBSET C,
           A \cap E = {}, A \cap F = {}, E \cap F = {}
    PROVE  Cardinality(A) + Cardinality(E) + Cardinality(F) <= Cardinality(C)
<1>1. IsFiniteSet(A) /\ IsFiniteSet(E) /\ IsFiniteSet(F)
  BY FS_Subset
<1>2. Cardinality(A) \in Nat /\ Cardinality(E) \in Nat /\ Cardinality(F) \in Nat
  BY <1>1, FS_CardinalityType
<1>3. Cardinality({}) = 0
  BY FS_EmptySet
<1>4. IsFiniteSet(A \cup E) /\ Cardinality(A \cup E) = Cardinality(A) + Cardinality(E)
  <2>1. /\ IsFiniteSet(A \cup E)
        /\ Cardinality(A \cup E) = Cardinality(A) + Cardinality(E) - Cardinality(A \cap E)
    BY <1>1, FS_Union
  <2>2. Cardinality(A \cap E) = 0
    BY <1>3, Zenon
  <2> QED
    BY <1>2, <2>1, <2>2
<1> DEFINE B == A \cup E
<1>5. B \cap F = {} /\ B \cup F \in SUBSET C
  OBVIOUS
<1> HIDE DEF B
<1>6. IsFiniteSet(B) /\ Cardinality(B) = Cardinality(A) + Cardinality(E)
  BY <1>4 DEF B
<1>7. Cardinality(B \cup F) = Cardinality(B) + Cardinality(F) - Cardinality(B \cap F)
  BY <1>1, <1>6, FS_Union
<1>8. Cardinality(B \cap F) = 0
  BY <1>3, <1>5, Zenon
<1>9. Cardinality(B \cup F) <= Cardinality(C)
  BY <1>5, FS_Subset
<1> QED
  BY <1>2, <1>6, <1>7, <1>8, <1>9

\* A request is at one stage, so the stages do not overlap.
LEMMA StagesFit ==
    ASSUME NEW t
    PROVE  /\ \A s : IsFiniteSet(Stage(t, s)) /\ NumAt(t, s) \in Nat
           /\ Cardinality(Claimers) \in Nat
           /\ NumAt(t, "paying") + NumAt(t, "escalating") + NumAt(t, "paid")
                 <= Cardinality(Claimers)
<1>1. IsFiniteSet(Claimers)
  BY InsuranceAssumption
<1>2. \A s : Stage(t, s) \in SUBSET Claimers
  BY DEF Stage
<1>3. \A r, s : r # s => Stage(t, r) \cap Stage(t, s) = {}
  BY DEF Stage
<1> QED
  BY <1>1, <1>2, <1>3, DisjointFit, FS_Subset, FS_CardinalityType DEF NumAt

\* A request that goes from one stage to another changes two counts by one.
LEMMA StageMoves ==
    ASSUME claim = [v \in Claimers |-> claim[v]], NEW w \in Claimers, NEW c,
           claim' = [claim EXCEPT ![w] = c], NEW t, NEW s
    PROVE  /\ Stage(t, s)' = (Stage(t, s) \ {w})
                 \cup (IF c = [at |-> s, ticket |-> t] THEN {w} ELSE {})
           /\ NumAt(t, s)' = NumAt(t, s)
                 - (IF claim[w] = [at |-> s, ticket |-> t] THEN 1 ELSE 0)
                 + (IF c = [at |-> s, ticket |-> t] THEN 1 ELSE 0)
<1> DEFINE here == claim[w] = [at |-> s, ticket |-> t]
           there == c = [at |-> s, ticket |-> t]
           S == Stage(t, s)
           T == S \ {w}
<1>1. Stage(t, s)' = T \cup (IF there THEN {w} ELSE {})
  BY DEF Stage
<1>2. (w \in S) <=> here
  BY DEF Stage
<1>3. IsFiniteSet(S) /\ Cardinality(S) \in Nat
  BY StagesFit DEF NumAt
<1> HIDE DEF S, here, there
<1>4. /\ IsFiniteSet(T)
      /\ Cardinality(T) = Cardinality(S) - (IF here THEN 1 ELSE 0)
  BY <1>2, <1>3, FS_RemoveElement
<1>5. Cardinality(T \cup {w}) = Cardinality(T) + 1
  <2>1. w \notin T
    OBVIOUS
  <2> QED
    BY <1>4, <2>1, FS_AddElement
<1>6. Cardinality(Stage(t, s)') = Cardinality(T) + (IF there THEN 1 ELSE 0)
  <2>1. CASE there
    BY <1>1, <1>5, <2>1
  <2>2. CASE ~ there
    <3>1. Stage(t, s)' = T
      BY <1>1, <2>2
    <3>2. Cardinality(T) \in Nat
      BY <1>4, FS_CardinalityType
    <3> QED
      BY <2>2, <3>1, <3>2
  <2> QED
    BY <2>1, <2>2
<1> QED
  BY <1>1, <1>4, <1>6 DEF NumAt, S, here, there


\* The same counts, in the next state.
LEMMA StagesFitNext ==
    ASSUME NEW t
    PROVE  /\ \A s : NumAt(t, s)' \in Nat
           /\ NumAt(t, "paying")' + NumAt(t, "escalating")' + NumAt(t, "paid")'
                 <= Cardinality(Claimers)
<1>1. \A s : Stage(t, s)' \in SUBSET Claimers
  BY DEF Stage
<1>2. \A r, s : r # s => Stage(t, r)' \cap Stage(t, s)' = {}
  BY DEF Stage
<1> QED
  BY <1>1, <1>2, DisjointFit, InsuranceAssumption, FS_Subset, FS_CardinalityType DEF NumAt

\* What a request keeps of itself at the stage s of the ticket t.
Tag(s, t) == IF s = "idle" THEN NoClaim ELSE [at |-> s, ticket |-> t]
One(s, r) == IF s = r THEN 1 ELSE 0

\* One request goes from one stage to the next.
LEMMA RequestMoves ==
    ASSUME InsuranceInv, InsuranceTyped',
           NEW w \in Claimers, NEW t \in InsuredTickets,
           NEW r \in Stages \cup {"idle"}, NEW s \in Stages \cup {"idle"},
           claim[w] = Tag(r, t), claim' = [claim EXCEPT ![w] = Tag(s, t)],
           \A u \in InsuredTickets \ {t} : policy'[u] = policy[u] /\ payouts'[u] = payouts[u],
           mishapsSeen' \in {mishapsSeen, mishapsSeen + 1},
           policy'[t] = "none" => policy[t] = "none" /\ s \in {"idle", "buying"},
           policy'[t] = "active" => policy[t] \in {"none", "active"} /\ s # "rejecting",
           PayoutRoom(policy'[t], payouts'[t],
                 NumAt(t, "paying") - One(r, "paying") + One(s, "paying"),
                 NumAt(t, "escalating") - One(r, "escalating") + One(s, "escalating"),
                 NumAt(t, "paid") - One(r, "paid") + One(s, "paid"),
                 Cardinality(Claimers), mishapsSeen')
    PROVE  InsuranceInv'
<1> DEFINE c == Tag(s, t)
           Is(k, x, u) == k = [at |-> x, ticket |-> u]
<1>1. /\ claim = [v \in Claimers |-> claim[v]]
      /\ claim' = [claim EXCEPT ![w] = c]
  BY DEF InsuranceInv, InsuranceTyped
<1>2. \A u, x : /\ Stage(u, x)' = (Stage(u, x) \ {w}) \cup (IF Is(c, x, u) THEN {w} ELSE {})
                /\ NumAt(u, x)' = NumAt(u, x) - (IF Is(claim[w], x, u) THEN 1 ELSE 0)
                                              + (IF Is(c, x, u) THEN 1 ELSE 0)
  <2> HIDE DEF c
  <2> QED
    BY <1>1, StageMoves
<1>3. \A x \in Stages : /\ Is(c, x, t) <=> s = x
                        /\ Is(claim[w], x, t) <=> r = x
  <2>1. "idle" \notin Stages
    BY DEF Stages
  <2>2. \A x, y : [at |-> x, ticket |-> t] = [at |-> y, ticket |-> t] <=> x = y
    OBVIOUS
  <2>3. \A x \in Stages : ~ Is(NoClaim, x, t)
    BY <2>1 DEF NoClaim
  <2> QED
    BY <2>1, <2>2, <2>3 DEF Tag
<1>4. \A u \in InsuredTickets \ {t}, x \in Stages : ~ Is(c, x, u) /\ ~ Is(claim[w], x, u)
  <2>1. "idle" \notin Stages
    BY DEF Stages
  <2>2. \A x, y, u : u # t => [at |-> x, ticket |-> t] # [at |-> y, ticket |-> u]
    OBVIOUS
  <2>3. \A x \in Stages : \A u : ~ Is(NoClaim, x, u)
    BY <2>1 DEF NoClaim
  <2> QED
    BY <2>1, <2>2, <2>3 DEF Tag
<1>5. {"buying", "paying", "escalating", "rejecting", "paid"} \subseteq Stages
  BY DEF Stages
<1> DEFINE n == Cardinality(Claimers)
<1>6. \A u, x : NumAt(u, x) \in Nat
  BY StagesFit
<1>7. \A u \in InsuredTickets : NewPolicy(u) /\ RoomLeft(u)
  BY DEF InsuranceInv
<1>8. ASSUME NEW u \in InsuredTickets \ {t}
      PROVE  NewPolicy(u)' /\ RoomLeft(u)'
  <2>1. policy'[u] = policy[u] /\ payouts'[u] = payouts[u]
    OBVIOUS
  <2>2. \A x \in Stages : /\ Stage(u, x)' = Stage(u, x) \ {w}
                          /\ NumAt(u, x)' = NumAt(u, x)
    BY <1>2, <1>4, <1>6
  <2>3. NewPolicy(u)'
    BY <1>5, <1>7, <2>1, <2>2 DEF NewPolicy
  <2>4. /\ NumAt(u, "paying")' = NumAt(u, "paying")
        /\ NumAt(u, "escalating")' = NumAt(u, "escalating")
        /\ NumAt(u, "paid")' = NumAt(u, "paid")
    BY <1>5, <2>2
  <2>5. RoomLeft(u)'
    <3> DEFINE p == policy[u]
               k == payouts[u]
               a == NumAt(u, "paying")
               e == NumAt(u, "escalating")
               f == NumAt(u, "paid")
    <3>1. /\ p \in {"none", "active", "under_review"} \cup Decided /\ k \in Nat
          /\ mishapsSeen \in Nat
      BY DEF InsuranceInv, InsuranceTyped
    <3>2. a \in Nat /\ e \in Nat /\ f \in Nat /\ n \in Nat /\ a + e + f <= n
      BY StagesFit
    <3>3. PayoutRoom(p, k, a, e, f, n, mishapsSeen)
      BY <1>7 DEF RoomLeft
    <3> HIDE DEF p, k, a, e, f, n
    <3>4. PayoutRoom(p, k, a, e, f, n, mishapsSeen + 1)
      BY <3>1, <3>2, <3>3, RoomSteps
    <3>5. PayoutRoom(p, k, a, e, f, n, mishapsSeen')
      BY <3>3, <3>4
    <3> QED
      BY <2>1, <2>4, <3>5 DEF RoomLeft, p, k, a, e, f, n
  <2> QED
    BY <2>3, <2>5
<1>9. NewPolicy(t)'
  <2>1. \A x \in Stages : Stage(t, x) = {} /\ s # x => Stage(t, x)' = {}
    BY <1>2, <1>3
  <2>2. ASSUME policy'[t] = "none"
        PROVE  \A x \in Stages \ {"buying"} : Stage(t, x)' = {}
    <3>1. "idle" \notin Stages
      BY DEF Stages
    <3> QED
      BY <1>7, <2>1, <2>2, <3>1 DEF NewPolicy
  <2>3. ASSUME policy'[t] = "active" PROVE Stage(t, "rejecting")' = {}
    BY <1>5, <1>7, <2>1, <2>3 DEF NewPolicy
  <2> QED
    BY <2>2, <2>3 DEF NewPolicy
<1>10. RoomLeft(t)'
  <2>1. \A x \in Stages : NumAt(t, x)' = NumAt(t, x) - One(r, x) + One(s, x)
    BY <1>2, <1>3 DEF One
  <2> QED
    BY <1>5, <2>1 DEF RoomLeft
<1> QED
  BY <1>8, <1>9, <1>10 DEF InsuranceInv


\* What the invariant says of a ticket, in the terms the steps below use.
LEMMA TicketNow ==
    ASSUME InsuranceInv, NEW t \in InsuredTickets
    PROVE  /\ policy[t] \in {"none", "active", "under_review"} \cup Decided
           /\ payouts[t] \in Nat /\ mishapsSeen \in Nat
           /\ NumAt(t, "paying") \in Nat /\ NumAt(t, "escalating") \in Nat
           /\ NumAt(t, "paid") \in Nat /\ Cardinality(Claimers) \in Nat
           /\ NumAt(t, "paying") + NumAt(t, "escalating") + NumAt(t, "paid")
                 <= Cardinality(Claimers)
           /\ PayoutRoom(policy[t], payouts[t], NumAt(t, "paying"), NumAt(t, "escalating"),
                    NumAt(t, "paid"), Cardinality(Claimers), mishapsSeen)
           /\ NewPolicy(t)
  BY StagesFit DEF InsuranceInv, InsuranceTyped, RoomLeft

\* A request at a stage is counted there.
LEMMA CountedThere ==
    ASSUME NEW w \in Claimers, NEW t, NEW s, claim[w] = [at |-> s, ticket |-> t]
    PROVE  Stage(t, s) # {} /\ NumAt(t, s) > 0
<1>1. w \in Stage(t, s)
  BY DEF Stage
<1>2. IsFiniteSet(Stage(t, s)) /\ NumAt(t, s) \in Nat
  BY StagesFit
<1>3. NumAt(t, s) # 0
  BY <1>1, <1>2, FS_EmptySet DEF NumAt
<1> QED
  BY <1>1, <1>2, <1>3

\* A request is idle, or at a stage of some ticket.
LEMMA ClaimShape ==
    ASSUME InsuranceTyped, NEW w \in Claimers, ~ At(w, "idle")
    PROVE  /\ claim[w].at \in Stages /\ claim[w].ticket \in InsuredTickets
           /\ claim[w] = Tag(claim[w].at, claim[w].ticket)
           /\ claim[w] = [at |-> claim[w].at, ticket |-> claim[w].ticket]
<1>1. claim[w] \in [at : Stages, ticket : InsuredTickets]
  BY DEF InsuranceTyped, At, NoClaim
<1>2. "idle" \notin Stages
  BY DEF Stages
<1> QED
  BY <1>1, <1>2 DEF Tag

\* The moves from r to s that leave a policy of status p and the payments alone.
QuietMove(r, s, p) ==
    \/ s \in {"idle", "approved", "to review"} /\ r # "paid"
         /\ (s # "idle" => p # "none")
    \/ s = "buying" /\ r = "idle"
    \/ s \in {"paying", "escalating"} /\ p = "active" /\ r \in {"approved", "to review"}
    \/ s \in {"paying", "rejecting"} /\ p = "under_review" /\ r = "idle"

\* Steps that leave the policies and the payments alone.
LEMMA ClaimOnlyStep ==
    ASSUME InsuranceInv, NEW w \in Claimers, NEW t \in InsuredTickets,
           NEW r \in Stages \cup {"idle"}, NEW s \in Stages \cup {"idle"},
           claim[w] = Tag(r, t), claim' = [claim EXCEPT ![w] = Tag(s, t)],
           policy' = policy, payouts' = payouts, mishapsSeen' = mishapsSeen,
           QuietMove(r, s, policy[t])
    PROVE  InsuranceInv'
<1> DEFINE p == policy[t]
           k == payouts[t]
           a == NumAt(t, "paying")
           e == NumAt(t, "escalating")
           f == NumAt(t, "paid")
           n == Cardinality(Claimers)
           b == a - One(r, "paying") + One(s, "paying")
           d == e - One(r, "escalating") + One(s, "escalating")
           g == f - One(r, "paid") + One(s, "paid")
<1>1. InsuranceTyped'
  <2>1. Tag(s, t) \in {NoClaim} \cup [at : Stages, ticket : InsuredTickets]
    BY DEF Tag
  <2> QED
    BY <2>1 DEF InsuranceInv, InsuranceTyped
<1>2. /\ p \in {"none", "active", "under_review"} \cup Decided
      /\ k \in Nat /\ mishapsSeen \in Nat /\ a \in Nat /\ e \in Nat /\ f \in Nat /\ n \in Nat
      /\ a + e + f <= n /\ PayoutRoom(p, k, a, e, f, n, mishapsSeen)
  BY TicketNow
<1>3. /\ r = "paying" => a > 0
      /\ r = "escalating" => e > 0
  BY CountedThere DEF Tag
<1>o. \A x, y : One(x, y) \in {0, 1} /\ (One(x, y) = 1 <=> x = y)
  BY DEF One
<1>4. b \in Nat /\ d \in Nat /\ g \in Nat /\ g = f
  <2>1. s # "paid" /\ r # "paid"
    BY DEF QuietMove
  <2> HIDE DEF a, e, f
  <2> QED
    BY <1>2, <1>3, <1>o, <2>1
<1>5. b + d + g <= n
  <2>1. InsuranceTyped' /\ claim = [v \in Claimers |-> claim[v]]
    BY <1>1 DEF InsuranceInv, InsuranceTyped
  <2>2. /\ NumAt(t, "paying")' = b /\ NumAt(t, "escalating")' = d /\ NumAt(t, "paid")' = g
    <3>1. "idle" \notin Stages /\ {"paying", "escalating", "paid"} \subseteq Stages
      BY DEF Stages
    <3>2. \A x \in Stages : /\ Tag(s, t) = [at |-> x, ticket |-> t] <=> s = x
                            /\ Tag(r, t) = [at |-> x, ticket |-> t] <=> r = x
      BY <3>1 DEF Tag, NoClaim
    <3>3. \A x \in Stages : NumAt(t, x)' = NumAt(t, x) - One(r, x) + One(s, x)
      BY <2>1, <3>2, StageMoves DEF One
    <3> QED
      BY <3>1, <3>3
  <2>3. NumAt(t, "paying")' + NumAt(t, "escalating")' + NumAt(t, "paid")' <= n
    BY StagesFitNext
  <2> QED
    BY <2>2, <2>3
<1>6. /\ p \in {"under_review"} \cup Decided => d \in {e, e - 1}
      /\ p \in Decided => b <= a
  <2>1. /\ s = "paying" => p \in {"active", "under_review"}
        /\ s = "escalating" => p = "active"
    BY DEF QuietMove
  <2>2. /\ One(s, "paying") = 1 => s = "paying"
        /\ One(s, "escalating") = 1 => s = "escalating"
    BY <1>o, Zenon
  <2> HIDE DEF p, a, e
  <2> QED
    BY <1>2, <1>o, <2>1, <2>2 DEF Decided
<1> HIDE DEF p, k, a, e, f, n, b, d, g
<1>7. PayoutRoom(p, k, b, d, g, n, mishapsSeen)
  <2>1. g >= f /\ g \in Nat
    BY <1>2, <1>4
  <2> QED
    BY <1>2, <1>4, <1>5, <1>6, <2>1, RoomSteps
<1>8. /\ policy'[t] = "none" => policy[t] = "none" /\ s \in {"idle", "buying"}
      /\ policy'[t] = "active" => policy[t] \in {"none", "active"} /\ s # "rejecting"
  BY DEF QuietMove
<1>9. PayoutRoom(policy'[t], payouts'[t], b, d, g, n, mishapsSeen')
  BY <1>7 DEF p, k
<1> QED
  BY <1>1, <1>8, <1>9, RequestMoves DEF b, d, g, a, e, f, n


\* Going on, ending and starting, in terms of the stages.
LEMMA MovesAreTags ==
    ASSUME InsuranceTyped, NEW w \in Claimers, NEW s \in Stages
    PROVE  /\ ~ At(w, "idle") /\ Go(w, s) =>
                 claim' = [claim EXCEPT ![w] = Tag(s, claim[w].ticket)]
           /\ \A t : End(w) => claim' = [claim EXCEPT ![w] = Tag("idle", t)]
           /\ \A t : Start(w, t, s) => /\ claim[w] = Tag("idle", t)
                                       /\ claim' = [claim EXCEPT ![w] = Tag(s, t)]
<1>1. "idle" \notin Stages
  BY DEF Stages
<1>2. ASSUME ~ At(w, "idle"), Go(w, s)
      PROVE  claim' = [claim EXCEPT ![w] = Tag(s, claim[w].ticket)]
  <2> DEFINE t == claim[w].ticket
  <2>1. claim[w] = [at |-> claim[w].at, ticket |-> t]
    BY <1>2, ClaimShape
  <2>2. [claim[w] EXCEPT !.at = s] = [at |-> s, ticket |-> t]
    BY <2>1
  <2>3. claim' = [claim EXCEPT ![w] = [claim[w] EXCEPT !.at = s]]
    BY <1>2 DEF Go
  <2> QED
    BY <1>1, <2>2, <2>3 DEF Tag
<1>3. ASSUME NEW t, Start(w, t, s)
      PROVE  claim[w] = Tag("idle", t) /\ claim' = [claim EXCEPT ![w] = Tag(s, t)]
  <2>1. claim[w] = NoClaim
    BY <1>1, <1>3 DEF Start, At, InsuranceTyped
  <2> QED
    BY <1>1, <1>3, <2>1 DEF Start, Tag
<1> QED
  BY <1>2, <1>3 DEF End, Tag

\* Steps that change a policy or pay one.
LEMMA PolicyStep ==
    ASSUME InsuranceInv, NEW w \in Claimers, NEW t \in InsuredTickets,
           NEW r \in Stages \cup {"idle"}, NEW s \in Stages \cup {"idle"},
           claim[w] = Tag(r, t), claim' = [claim EXCEPT ![w] = Tag(s, t)],
           NEW q \in {"none", "active", "under_review"} \cup Decided, NEW k \in Nat,
           policy' = [policy EXCEPT ![t] = q], payouts' = [payouts EXCEPT ![t] = k],
           mishapsSeen' \in {mishapsSeen, mishapsSeen + 1},
           q = "none" => policy[t] = "none" /\ s \in {"idle", "buying"},
           q = "active" => policy[t] \in {"none", "active"} /\ s # "rejecting",
           PayoutRoom(q, k, NumAt(t, "paying") - One(r, "paying") + One(s, "paying"),
                 NumAt(t, "escalating") - One(r, "escalating") + One(s, "escalating"),
                 NumAt(t, "paid") - One(r, "paid") + One(s, "paid"),
                 Cardinality(Claimers), mishapsSeen')
    PROVE  InsuranceInv'
<1>1. Tag(s, t) \in {NoClaim} \cup [at : Stages, ticket : InsuredTickets]
  BY DEF Tag
<1>2. InsuranceTyped'
  BY <1>1 DEF InsuranceInv, InsuranceTyped
<1>3. policy'[t] = q /\ payouts'[t] = k
  BY DEF InsuranceInv, InsuranceTyped
<1>4. \A u \in InsuredTickets \ {t} : policy'[u] = policy[u] /\ payouts'[u] = payouts[u]
  BY DEF InsuranceInv, InsuranceTyped
<1> QED
  BY <1>2, <1>3, <1>4, RequestMoves

\* A policy is inserted only where there is none.
LEMMA InsertPolicyStep ==
    ASSUME InsuranceInv, NEW w \in Claimers, InsertPolicy(w) PROVE InsuranceInv'
<1> DEFINE t == claim[w].ticket
           q == IF policy[t] = "none" THEN "active" ELSE policy[t]
           a == NumAt(t, "paying")
           e == NumAt(t, "escalating")
           f == NumAt(t, "paid")
           n == Cardinality(Claimers)
<1>1. /\ InsuranceTyped /\ claim[w].at = "buying" /\ ~ At(w, "idle")
      /\ t \in InsuredTickets /\ claim[w] = Tag("buying", t)
      /\ claim' = [claim EXCEPT ![w] = Tag("idle", t)]
  <2>1. InsuranceTyped /\ claim[w].at = "buying" /\ ~ At(w, "idle")
    BY DEF InsuranceInv, InsertPolicy, At
  <2> QED
    BY <2>1, ClaimShape, MovesAreTags DEF InsertPolicy, End, Tag
<1>2. /\ policy[t] \in {"none", "active", "under_review"} \cup Decided
      /\ payouts[t] \in Nat /\ mishapsSeen \in Nat /\ f \in Nat
      /\ a \in Nat /\ e \in Nat
      /\ PayoutRoom(policy[t], payouts[t], a, e, f, n, mishapsSeen)
  BY <1>1, TicketNow
<1>3. PayoutRoom(q, payouts[t], a, e, f, n, mishapsSeen)
  BY <1>2 DEF PayoutRoom, Decided
<1>4. /\ policy' = [policy EXCEPT ![t] = q] /\ payouts' = [payouts EXCEPT ![t] = payouts[t]]
      /\ mishapsSeen' = mishapsSeen
  BY DEF InsertPolicy, InsuranceInv, InsuranceTyped
<1>5. /\ q \in {"none", "active", "under_review"} \cup Decided /\ q # "none"
      /\ q = "active" => policy[t] \in {"none", "active"}
  BY <1>2
<1>6. \A s \in {"buying", "idle"}, x \in {"paying", "escalating", "paid"} : One(s, x) = 0
  BY DEF One
<1>7. PayoutRoom(q, payouts[t], a - One("buying", "paying") + One("idle", "paying"),
            e - One("buying", "escalating") + One("idle", "escalating"),
            f - One("buying", "paid") + One("idle", "paid"), n, mishapsSeen')
  <2>1. /\ a - One("buying", "paying") + One("idle", "paying") = a
        /\ e - One("buying", "escalating") + One("idle", "escalating") = e
        /\ f - One("buying", "paid") + One("idle", "paid") = f
    BY <1>2, <1>6
  <2> QED
    BY <1>3, <1>4, <2>1
<1>8. "buying" \in Stages /\ "idle" # "rejecting"
  BY DEF Stages
<1> HIDE DEF q, t
<1> QED
  BY <1>1, <1>2, <1>4, <1>5, <1>7, <1>8, PolicyStep


\* What is known of the ticket of a request at the stage r.
LEMMA InHand ==
    ASSUME InsuranceInv, NEW w \in Claimers, NEW r \in Stages, At(w, r)
    PROVE  /\ InsuranceTyped /\ ~ At(w, "idle")
           /\ claim[w].ticket \in InsuredTickets
           /\ claim[w] = Tag(r, claim[w].ticket)
           /\ NumAt(claim[w].ticket, r) > 0
           /\ r # "buying" => policy[claim[w].ticket] # "none"
           /\ r = "rejecting" => policy[claim[w].ticket] # "active"
<1> DEFINE t == claim[w].ticket
<1>1. InsuranceTyped /\ ~ At(w, "idle")
  BY DEF InsuranceInv, At, Stages
<1>2. t \in InsuredTickets /\ claim[w] = [at |-> r, ticket |-> t] /\ claim[w] = Tag(r, t)
  BY <1>1, ClaimShape DEF At
<1>3. NumAt(t, r) > 0 /\ Stage(t, r) # {}
  BY <1>2, CountedThere
<1>4. NewPolicy(t)
  BY <1>2, TicketNow
<1> QED
  BY <1>1, <1>2, <1>3, <1>4 DEF NewPolicy

LEMMA SavePolicyStep ==
    ASSUME InsuranceInv, NEW w \in Claimers, SavePolicy(w) PROVE InsuranceInv'
<1> DEFINE t == claim[w].ticket
           a == NumAt(t, "paying")
           e == NumAt(t, "escalating")
           f == NumAt(t, "paid")
           n == Cardinality(Claimers)
<1>1. PICK c \in {<<"escalating", "under_review">>, <<"rejecting", "claim_rejected">>} :
        /\ At(w, c[1])
        /\ policy' = [policy EXCEPT ![t] = c[2]]
        /\ End(w)
        /\ UNCHANGED <<payouts, mishapsSeen>>
  BY DEF SavePolicy
<1> DEFINE r == c[1]
           q == c[2]
<1>2. /\ r \in Stages /\ r # "buying"
      /\ q \in {"none", "active", "under_review"} \cup Decided
      /\ q \notin {"none", "active"}
  <2>1. CASE c = <<"escalating", "under_review">>
    BY <2>1 DEF Stages, Decided
  <2>2. CASE c = <<"rejecting", "claim_rejected">>
    BY <2>2 DEF Stages, Decided
  <2> QED
    BY <1>1, <2>1, <2>2
<1>3. /\ InsuranceTyped /\ t \in InsuredTickets /\ claim[w] = Tag(r, t)
      /\ NumAt(t, r) > 0 /\ policy[t] # "none" /\ (r = "rejecting" => policy[t] # "active")
  BY <1>1, <1>2, InHand
<1>4. claim' = [claim EXCEPT ![w] = Tag("idle", t)]
  BY <1>1 DEF End, Tag
<1>5. /\ payouts' = [payouts EXCEPT ![t] = payouts[t]] /\ mishapsSeen' = mishapsSeen
  BY <1>1, <1>3 DEF InsuranceTyped
<1>6. /\ policy[t] \in {"none", "active", "under_review"} \cup Decided
      /\ payouts[t] \in Nat /\ mishapsSeen \in Nat
      /\ a \in Nat /\ e \in Nat /\ f \in Nat /\ n \in Nat /\ a + e + f <= n
      /\ PayoutRoom(policy[t], payouts[t], a, e, f, n, mishapsSeen)
  BY <1>3, TicketNow
<1>7. PayoutRoom(q, payouts[t], a, IF r = "escalating" THEN e - 1 ELSE e, f, n, mishapsSeen)
  <2>1. CASE c = <<"escalating", "under_review">>
    <3>1. e > 0 /\ policy[t] # "none"
      BY <1>3, <2>1
    <3> HIDE DEF a, e, f, n, t
    <3>2. PayoutRoom("under_review", payouts[t], a, e - 1, f, n, mishapsSeen)
      BY <1>6, <3>1, RoomSteps
    <3> QED
      BY <2>1, <3>2
  <2>2. CASE c = <<"rejecting", "claim_rejected">>
    <3>1. policy[t] \notin {"none", "active"}
      BY <1>3, <2>2
    <3> HIDE DEF a, e, f, n, t
    <3>2. PayoutRoom("claim_rejected", payouts[t], a, e, f, n, mishapsSeen)
      BY <1>6, <3>1, RoomSteps
    <3> QED
      BY <2>2, <3>2
  <2> QED
    BY <1>1, <2>1, <2>2
<1>8. /\ a - One(r, "paying") + One("idle", "paying") = a
      /\ e - One(r, "escalating") + One("idle", "escalating")
            = (IF r = "escalating" THEN e - 1 ELSE e)
      /\ f - One(r, "paid") + One("idle", "paid") = f
  BY <1>6 DEF One
<1> HIDE DEF t, a, e, f, n, r, q
<1>9. PayoutRoom(q, payouts[t], a - One(r, "paying") + One("idle", "paying"),
            e - One(r, "escalating") + One("idle", "escalating"),
            f - One(r, "paid") + One("idle", "paid"), n, mishapsSeen')
  BY <1>5, <1>7, <1>8
<1>10. policy' = [policy EXCEPT ![t] = q]
  BY <1>1 DEF q
<1> QED
  BY <1>2, <1>3, <1>4, <1>5, <1>6, <1>9, <1>10, PolicyStep DEF a, e, f, n

\* A payment, whether its request learns of it or not.
LEMMA PayStep ==
    ASSUME InsuranceInv, NEW w \in Claimers, SendCoverage(w) \/ LoseAnswer(w)
    PROVE  InsuranceInv'
<1> DEFINE t == claim[w].ticket
           a == NumAt(t, "paying")
           e == NumAt(t, "escalating")
           f == NumAt(t, "paid")
           n == Cardinality(Claimers)
           p == policy[t]
           k == payouts[t]
           m == mishapsSeen
<1>1. At(w, "paying") /\ payouts' = [payouts EXCEPT ![t] = k + 1] /\ policy' = policy
  BY DEF SendCoverage, LoseAnswer
<1>2. {"paying", "paid"} \subseteq Stages
  BY DEF Stages
<1>3. /\ InsuranceTyped /\ ~ At(w, "idle") /\ t \in InsuredTickets
      /\ claim[w] = Tag("paying", t) /\ a > 0 /\ p # "none"
  BY <1>1, <1>2, InHand
<1>4. policy' = [policy EXCEPT ![t] = p]
  BY <1>1, <1>3 DEF InsuranceTyped
<1>5. /\ p \in {"none", "active", "under_review"} \cup Decided
      /\ k \in Nat /\ m \in Nat /\ a \in Nat /\ e \in Nat /\ f \in Nat /\ n \in Nat
      /\ a + e + f <= n /\ PayoutRoom(p, k, a, e, f, n, m)
  BY <1>3, TicketNow
<1>6. PICK s \in {"paid", "idle"} :
        /\ claim' = [claim EXCEPT ![w] = Tag(s, t)]
        /\ mishapsSeen' = IF s = "paid" THEN m ELSE m + 1
  <2>1. CASE SendCoverage(w)
    BY <1>2, <1>3, <2>1, MovesAreTags DEF SendCoverage
  <2>2. CASE LoseAnswer(w)
    BY <1>2, <1>3, <2>2, MovesAreTags DEF LoseAnswer
  <2> QED
    BY <2>1, <2>2
<1>7. /\ a - One("paying", "paying") + One(s, "paying") = a - 1
      /\ e - One("paying", "escalating") + One(s, "escalating") = e
      /\ f - One("paying", "paid") + One(s, "paid") = (IF s = "paid" THEN f + 1 ELSE f)
  BY <1>5 DEF One
<1> HIDE DEF t, a, e, f, n, p, k, m
<1>8. /\ PayoutRoom(p, k + 1, a - 1, e, f + 1, n, m)
      /\ PayoutRoom(p, k + 1, a - 1, e, f, n, m + 1)
  BY <1>3, <1>5, RoomSteps
<1>9. PayoutRoom(p, k + 1, a - One("paying", "paying") + One(s, "paying"),
            e - One("paying", "escalating") + One(s, "escalating"),
            f - One("paying", "paid") + One(s, "paid"), n, mishapsSeen')
  BY <1>6, <1>7, <1>8
<1>10. /\ s \in Stages \cup {"idle"} /\ s # "rejecting" /\ k + 1 \in Nat
       /\ mishapsSeen' \in {mishapsSeen, mishapsSeen + 1}
  BY <1>2, <1>5, <1>6 DEF m
<1> QED
  BY <1>1, <1>2, <1>3, <1>4, <1>5, <1>6, <1>9, <1>10, PolicyStep DEF a, e, f, n, p

\* A claim that was paid is saved over whatever the policy has become.
LEMMA SaveClaimedStep ==
    ASSUME InsuranceInv, NEW w \in Claimers, SaveClaimed(w) PROVE InsuranceInv'
<1> DEFINE t == claim[w].ticket
           a == NumAt(t, "paying")
           e == NumAt(t, "escalating")
           f == NumAt(t, "paid")
           n == Cardinality(Claimers)
<1>1. /\ At(w, "paid") /\ policy' = [policy EXCEPT ![t] = "claimed"]
      /\ Go(w, "claimed") /\ UNCHANGED <<payouts, mishapsSeen>>
  BY DEF SaveClaimed
<1>2. /\ "paid" \in Stages /\ "claimed" \in Stages
      /\ "claimed" \in {"none", "active", "under_review"} \cup Decided
  BY DEF Stages, Decided
<1>3. /\ InsuranceTyped /\ ~ At(w, "idle") /\ t \in InsuredTickets
      /\ claim[w] = Tag("paid", t) /\ f > 0 /\ policy[t] # "none"
  BY <1>1, <1>2, InHand
<1>4. /\ claim' = [claim EXCEPT ![w] = Tag("claimed", t)]
      /\ payouts' = [payouts EXCEPT ![t] = payouts[t]] /\ mishapsSeen' = mishapsSeen
  BY <1>1, <1>2, <1>3, MovesAreTags DEF InsuranceTyped
<1>5. /\ policy[t] \in {"none", "active", "under_review"} \cup Decided
      /\ payouts[t] \in Nat /\ mishapsSeen \in Nat
      /\ a \in Nat /\ e \in Nat /\ f \in Nat /\ n \in Nat /\ a + e + f <= n
      /\ PayoutRoom(policy[t], payouts[t], a, e, f, n, mishapsSeen)
  BY <1>3, TicketNow
<1>6. /\ a - One("paid", "paying") + One("claimed", "paying") = a
      /\ e - One("paid", "escalating") + One("claimed", "escalating") = e
      /\ f - One("paid", "paid") + One("claimed", "paid") = f - 1
  BY <1>5 DEF One
<1> HIDE DEF t, a, e, f, n
<1>7. PayoutRoom("claimed", payouts[t], a, e, f - 1, n, mishapsSeen)
  BY <1>3, <1>5, RoomSteps
<1>8. PayoutRoom("claimed", payouts[t], a - One("paid", "paying") + One("claimed", "paying"),
            e - One("paid", "escalating") + One("claimed", "escalating"),
            f - One("paid", "paid") + One("claimed", "paid"), n, mishapsSeen')
  BY <1>4, <1>6, <1>7
<1> QED
  BY <1>1, <1>2, <1>3, <1>4, <1>5, <1>8, PolicyStep DEF a, e, f, n


\* The steps of a request that change nothing but how far it is.
LEMMA GoOnStep ==
    ASSUME InsuranceInv, NEW w \in Claimers,
           \/ ProcessInsuranceClaim(w) \/ ReadEscalated(w) \/ FailClaim(w) \/ RefundTicket(w)
    PROVE  InsuranceInv'
<1> DEFINE t == claim[w].ticket
           r == claim[w].at
<1>1. policy' = policy /\ payouts' = payouts /\ mishapsSeen' = mishapsSeen
  BY DEF ProcessInsuranceClaim, ReadEscalated, FailClaim, RefundTicket
<1>2. InsuranceTyped /\ ~ At(w, "idle")
  BY DEF InsuranceInv, At, ProcessInsuranceClaim, ReadEscalated, FailClaim, RefundTicket
<1>3. r \in Stages /\ t \in InsuredTickets /\ claim[w] = Tag(r, t)
  BY <1>2, ClaimShape
<1>4. "paying" \in Stages /\ "escalating" \in Stages
  BY DEF Stages
<1>5. CASE End(w) /\ r # "paid"
  <2>1. claim' = [claim EXCEPT ![w] = Tag("idle", t)]
    BY <1>5 DEF End, Tag
  <2>2. QuietMove(r, "idle", policy[t])
    BY <1>5 DEF QuietMove
  <2> HIDE DEF t, r
  <2> QED
    BY <1>1, <1>3, <2>1, <2>2, ClaimOnlyStep
<1>6. CASE ProcessInsuranceClaim(w) /\ policy[t] = "active"
  <2>1. r = "approved" /\ Go(w, "paying")
    BY <1>6 DEF ProcessInsuranceClaim, At, Policy
  <2>2. claim' = [claim EXCEPT ![w] = Tag("paying", t)]
    BY <1>2, <1>4, <2>1, MovesAreTags
  <2>3. QuietMove(r, "paying", policy[t])
    BY <1>6, <2>1 DEF QuietMove
  <2> HIDE DEF t, r
  <2> QED
    BY <1>1, <1>3, <1>4, <2>2, <2>3, ClaimOnlyStep
<1>7. CASE ReadEscalated(w) /\ policy[t] = "active"
  <2>1. r = "to review" /\ Go(w, "escalating")
    BY <1>7 DEF ReadEscalated, At, Policy
  <2>2. claim' = [claim EXCEPT ![w] = Tag("escalating", t)]
    BY <1>2, <1>4, <2>1, MovesAreTags
  <2>3. QuietMove(r, "escalating", policy[t])
    BY <1>7, <2>1 DEF QuietMove
  <2> HIDE DEF t, r
  <2> QED
    BY <1>1, <1>3, <1>4, <2>2, <2>3, ClaimOnlyStep
<1>8. \/ End(w) /\ r # "paid"
      \/ ProcessInsuranceClaim(w) /\ policy[t] = "active"
      \/ ReadEscalated(w) /\ policy[t] = "active"
  BY DEF ProcessInsuranceClaim, ReadEscalated, FailClaim, RefundTicket, At, Policy
<1> QED
  BY <1>5, <1>6, <1>7, <1>8

LEMMA StartStep ==
    ASSUME InsuranceInv, NEW w \in Claimers, NEW t \in InsuredTickets,
           CheckPurchase(w, t) \/ ApplyClaimRules(w, t) \/ ReviewEscalatedClaim(w, t)
    PROVE  InsuranceInv'
<1>1. policy' = policy /\ payouts' = payouts /\ mishapsSeen' = mishapsSeen
  BY DEF CheckPurchase, ApplyClaimRules, ReviewEscalatedClaim
<1>2. PICK s \in {"buying", "approved", "to review", "paying", "rejecting"} :
        Start(w, t, s) /\ QuietMove("idle", s, policy[t])
  <2>1. CASE CheckPurchase(w, t)
    BY <2>1 DEF CheckPurchase, QuietMove
  <2>2. CASE ApplyClaimRules(w, t)
    BY <2>2 DEF ApplyClaimRules, QuietMove
  <2>3. CASE ReviewEscalatedClaim(w, t)
    BY <2>3 DEF ReviewEscalatedClaim, QuietMove
  <2> QED
    BY <2>1, <2>2, <2>3
<1>3. InsuranceTyped /\ s \in Stages /\ Start(w, t, s)
  BY <1>2 DEF InsuranceInv, Stages
<1>4. claim[w] = Tag("idle", t) /\ claim' = [claim EXCEPT ![w] = Tag(s, t)]
  <2>1. \A u : Start(w, u, s) => /\ claim[w] = Tag("idle", u)
                                 /\ claim' = [claim EXCEPT ![w] = Tag(s, u)]
    BY <1>3, MovesAreTags, Zenon
  <2> QED
    BY <1>3, <2>1, Zenon
<1> QED
  BY <1>1, <1>2, <1>3, <1>4, ClaimOnlyStep

LEMMA InsuranceStep == InsuranceInv /\ [InsuranceNext]_insuranceVars => InsuranceInv'
<1> SUFFICES ASSUME InsuranceInv, [InsuranceNext]_insuranceVars PROVE InsuranceInv'
  OBVIOUS
<1>1. CASE CallOff \/ UNCHANGED insuranceVars
  <2>1. policy' = policy /\ payouts' = payouts /\ claim' = claim /\ mishapsSeen' = mishapsSeen
    BY <1>1 DEF CallOff, insuranceVars
  <2> QED
    BY <2>1 DEF InsuranceInv, InsuranceTyped, NewPolicy, RoomLeft, NumAt, Stage
<1> QED
  BY <1>1, InsertPolicyStep, SavePolicyStep, PayStep, SaveClaimedStep, GoOnStep, StartStep
     DEF InsuranceNext

LEMMA InitInsurance == InsuranceInit => InsuranceInv
<1> SUFFICES ASSUME InsuranceInit PROVE InsuranceInv
  OBVIOUS
<1>1. InsuranceTyped
  BY DEF InsuranceInit, InsuranceTyped
<1>2. ASSUME NEW t \in InsuredTickets PROVE NewPolicy(t) /\ RoomLeft(t)
  <2>1. policy[t] = "none" /\ payouts[t] = 0
    BY DEF InsuranceInit
  <2>2. \A s \in Stages : Stage(t, s) = {}
    BY DEF InsuranceInit, Stage, NoClaim
  <2> QED
    BY <2>1, <2>2 DEF NewPolicy, RoomLeft, PayoutRoom, Decided
<1> QED
  BY <1>1, <1>2 DEF InsuranceInv

(***************************************************************************)
(* A ticket is never insured for more payments than its n requests can     *)
(* lead to: of n requests, one after the other whose escalation is saved   *)
(* over a claim lets the others pay again, 1 + 2 + ... + n times in all,   *)
(* and once more for each payment whose handler did not learn of it        *)
(* (insurance.service.ts, the status checks before payoutClaim).           *)
(***************************************************************************)
THEOREM PayoutsLimited == InsuranceSpec => []PayoutsBounded
<1>1. InsuranceInv => PayoutsBounded
  <2> SUFFICES ASSUME InsuranceInv, NEW t \in InsuredTickets
               PROVE  2 * payouts[t] <= Limit(Cardinality(Claimers), mishapsSeen)
    BY DEF PayoutsBounded, Limit
  <2> DEFINE p == policy[t]
             k == payouts[t]
             a == NumAt(t, "paying")
             e == NumAt(t, "escalating")
             f == NumAt(t, "paid")
             n == Cardinality(Claimers)
             m == mishapsSeen
  <2>1. /\ p \in {"none", "active", "under_review"} \cup Decided
        /\ k \in Nat /\ m \in Nat /\ a \in Nat /\ e \in Nat /\ f \in Nat /\ n \in Nat
        /\ a + e + f <= n /\ PayoutRoom(p, k, a, e, f, n, m)
    BY TicketNow
  <2> HIDE DEF p, k, a, e, f, n, m
  <2>2. e <= n
    BY <2>1
  <2>3. /\ Round(e, n) \in Int /\ Limit(n, m) \in Int
        /\ 0 <= Round(e, n) /\ Round(e, n) + 2 * m <= Limit(n, m)
        /\ 2 * n + 2 * m <= Limit(n, m)
    BY <2>1, <2>2, RoundMax
  <2>4. 2 * k <= Limit(n, m)
    <3>1. CASE p = "none"
      BY <2>1, <2>3, <3>1 DEF PayoutRoom
    <3>2. CASE p = "active"
      BY <2>1, <2>3, <3>2 DEF PayoutRoom
    <3>3. CASE p = "under_review"
      BY <2>1, <2>3, <3>3 DEF PayoutRoom
    <3>4. CASE p \in Decided
      BY <2>1, <2>3, <3>4 DEF PayoutRoom
    <3> QED
      BY <2>1, <3>1, <3>2, <3>3, <3>4
  <2> QED
    BY <2>4 DEF k, n, m
<1> QED
  BY <1>1, InitInsurance, InsuranceStep, PTL DEF InsuranceSpec


-----------------------------------------------------------------------------
(* Merchandise.  What is counted is the pieces of the pre-orders that are  *)
(* placed and of those whose stock is reserved and whose row is still to   *)
(* be inserted.                                                            *)

Stocked == {p \in Preorders : handling[p].at = "stocked"} \cup Placed

MerchTyped ==
    /\ stockReserved \in Nat
    /\ preorder \in [Preorders -> [quantity : Nat, status : {"none", "reserved", "picked_up"}]]
    /\ handling \in [Preorders -> [at : {"new", "asked", "stocked", "over"}, read : Nat]]
    /\ pickups \subseteq Placed
    /\ \A p \in Preorders : handling[p].at \in {"new", "asked"} => p \notin Placed

MerchInv ==
    /\ MerchTyped
    /\ IsFiniteSet(Pieces(Stocked))
    /\ Cardinality(Pieces(Stocked)) <= stockReserved
    /\ stockReserved <= StockTotal

\* The pieces of one more pre-order are as many as its quantity.
LEMMA OneMorePreorder ==
    ASSUME NEW A, IsFiniteSet(A), NEW p, NEW n \in Nat
    PROVE  /\ IsFiniteSet(A \cup ({p} \X (1..n)))
           /\ Cardinality(A \cup ({p} \X (1..n))) <= Cardinality(A) + n
<1> DEFINE B == {p} \X (1..n)
<1>1. IsFiniteSet({p}) /\ Cardinality({p}) = 1
  BY FS_Singleton
<1>2. IsFiniteSet(1..n) /\ Cardinality(1..n) = n
  BY FS_Interval
<1>3. IsFiniteSet(B) /\ Cardinality(B) = Cardinality({p}) * Cardinality(1..n)
  BY <1>1, <1>2, FS_Product
<1>4. Cardinality(B) = n
  BY <1>1, <1>2, <1>3
<1> HIDE DEF B
<1>5. /\ IsFiniteSet(A \cup B)
      /\ Cardinality(A \cup B) = Cardinality(A) + Cardinality(B) - Cardinality(A \cap B)
  BY <1>3, FS_Union
<1>6. Cardinality(A) \in Nat /\ Cardinality(A \cap B) \in Nat
  <2>1. IsFiniteSet(A \cap B)
    BY FS_Intersection
  <2> QED
    BY <2>1, FS_CardinalityType
<1>7. Cardinality(A \cup B) <= Cardinality(A) + n
  BY <1>4, <1>5, <1>6
<1> QED
  BY <1>5, <1>7 DEF B

\* Steps that stock nothing: the same pieces or fewer are to be covered.
LEMMA NothingStocked ==
    ASSUME MerchInv, MerchTyped', stockReserved' = stockReserved,
           Stocked' \subseteq Stocked,
           \A p \in Stocked' : preorder'[p].quantity = preorder[p].quantity
    PROVE  MerchInv'
<1> DEFINE A == Pieces(Stocked)
           B == Pieces(Stocked)'
<1>1. B \subseteq A
  BY DEF Pieces
<1>2. IsFiniteSet(A) /\ Cardinality(A) <= stockReserved
  BY DEF MerchInv
<1> HIDE DEF A, B
<1>3. IsFiniteSet(B) /\ Cardinality(B) <= Cardinality(A)
  BY <1>1, <1>2, FS_Subset
<1>4. Cardinality(A) \in Nat /\ Cardinality(B) \in Nat
  BY <1>2, <1>3, FS_CardinalityType
<1>5. stockReserved \in Nat /\ stockReserved <= StockTotal
  BY DEF MerchInv, MerchTyped
<1>6. Cardinality(B) <= stockReserved'
  BY <1>2, <1>3, <1>4, <1>5
<1> QED
  BY <1>3, <1>5, <1>6 DEF MerchInv, B

LEMMA ReserveStep ==
    ASSUME MerchInv, NEW p \in Preorders, ReserveVariantStock(p) PROVE MerchInv'
<1> DEFINE n == preorder[p].quantity
           A == Pieces(Stocked)
           B == Pieces(Stocked)'
<1>1. /\ handling[p].at = "asked" /\ stockReserved + n <= StockTotal
      /\ stockReserved' = stockReserved + n /\ preorder' = preorder /\ pickups' = pickups
      /\ handling' = [handling EXCEPT ![p].at = "stocked"]
  BY DEF ReserveVariantStock
<1>2. n \in Nat /\ stockReserved \in Nat /\ StockTotal \in Nat
  BY MerchandiseAssumption DEF MerchInv, MerchTyped
<1>3. Stocked' = Stocked \cup {p} /\ Placed' = Placed
  BY <1>1 DEF Stocked, Placed, MerchInv, MerchTyped
<1>4. B = A \cup ({p} \X (1..n))
  BY <1>1, <1>3 DEF Pieces
<1>5. MerchTyped'
  BY <1>1, <1>2, <1>3 DEF MerchInv, MerchTyped
<1>6. IsFiniteSet(A) /\ Cardinality(A) <= stockReserved
  BY DEF MerchInv
<1> HIDE DEF A, B, n
<1>7. IsFiniteSet(B) /\ Cardinality(B) <= Cardinality(A) + n
  BY <1>2, <1>4, <1>6, OneMorePreorder
<1>8. Cardinality(A) \in Nat /\ Cardinality(B) \in Nat
  BY <1>6, <1>7, FS_CardinalityType
<1>9. Cardinality(B) <= stockReserved' /\ stockReserved' <= StockTotal
  BY <1>1, <1>2, <1>6, <1>7, <1>8
<1> QED
  BY <1>5, <1>7, <1>9 DEF MerchInv, B

LEMMA MerchStep == MerchInv /\ [MerchNext]_merchVars => MerchInv'
<1> SUFFICES ASSUME MerchInv, [MerchNext]_merchVars PROVE MerchInv'
  OBVIOUS
<1> USE DEF MerchInv, MerchTyped, Stocked, Placed
<1>1. CASE UNCHANGED merchVars
  <2>1. MerchTyped' /\ stockReserved' = stockReserved /\ Stocked' = Stocked /\ preorder' = preorder
    BY <1>1 DEF merchVars
  <2> QED
    BY <2>1, NothingStocked
<1>2. ASSUME NEW p \in Preorders, NEW n \in Quantities, AskPreorder(p, n) PROVE MerchInv'
  <2>1. n \in Nat /\ stockReserved' = stockReserved
    BY <1>2, MerchandiseAssumption DEF AskPreorder
  <2>2. MerchTyped'
    BY <1>2, <2>1 DEF AskPreorder
  <2>3. Stocked' \subseteq Stocked /\ p \notin Stocked'
    BY <1>2 DEF AskPreorder
  <2>4. \A q \in Stocked' : preorder'[q].quantity = preorder[q].quantity
    BY <1>2, <2>3 DEF AskPreorder
  <2> QED
    BY <2>1, <2>2, <2>3, <2>4, NothingStocked
<1>3. ASSUME NEW p \in Preorders,
             \/ RefusePreorder(p) \/ InsertPreorder(p) \/ LosePreorder(p)
             \/ ReadPickup(p) \/ SavePickup(p)
      PROVE  MerchInv'
  <2>1. MerchTyped' /\ stockReserved' = stockReserved
    <3>1. CASE RefusePreorder(p) \/ LosePreorder(p)
      BY <3>1 DEF RefusePreorder, LosePreorder
    <3>2. CASE InsertPreorder(p)
      BY <3>2 DEF InsertPreorder
    <3>3. CASE ReadPickup(p)
      BY <3>3 DEF ReadPickup
    <3>4. CASE SavePickup(p)
      BY <3>4 DEF SavePickup
    <3> QED
      BY <1>3, <3>1, <3>2, <3>3, <3>4
  <2>2. Stocked' \subseteq Stocked
    BY <1>3 DEF RefusePreorder, InsertPreorder, LosePreorder, ReadPickup, SavePickup
  <2>3. \A q \in Stocked' : preorder'[q].quantity = preorder[q].quantity
    BY <1>3 DEF RefusePreorder, InsertPreorder, LosePreorder, ReadPickup, SavePickup
  <2> QED
    BY <2>1, <2>2, <2>3, NothingStocked
<1> QED
  BY <1>1, <1>2, <1>3, ReserveStep DEF MerchNext

LEMMA InitMerch == MerchInit => MerchInv
<1> SUFFICES ASSUME MerchInit PROVE MerchInv
  OBVIOUS
<1>1. MerchTyped
  BY DEF MerchInit, MerchTyped, Placed, NoPreorder
<1>2. Stocked = {}
  BY DEF MerchInit, Stocked, Placed, NoPreorder
<1>3. Pieces(Stocked) = {}
  BY <1>2 DEF Pieces
<1>4. IsFiniteSet(Pieces(Stocked)) /\ Cardinality(Pieces(Stocked)) = 0
  BY <1>3, FS_EmptySet, Zenon
<1> QED
  BY <1>1, <1>4, MerchandiseAssumption DEF MerchInv, MerchInit

(***************************************************************************)
(* The stock reserved covers every pre-order and is never more than there  *)
(* is, for any number of buyers (merch-preorder.service.ts,                *)
(* reserveVariantStock).                                                   *)
(***************************************************************************)
THEOREM PreordersCovered == MerchSpec => []StockCoversPreorders
<1>1. MerchInv => StockCoversPreorders
  <2> SUFFICES ASSUME MerchInv PROVE StockCoversPreorders
    OBVIOUS
  <2> DEFINE A == Pieces(Stocked)
             B == Pieces(Placed)
  <2>1. B \subseteq A
    BY DEF Pieces, Stocked
  <2>2. /\ IsFiniteSet(A) /\ Cardinality(A) <= stockReserved /\ stockReserved <= StockTotal
        /\ stockReserved \in Nat
    BY DEF MerchInv, MerchTyped
  <2> HIDE DEF A, B
  <2>3. IsFiniteSet(B) /\ Cardinality(B) <= Cardinality(A)
    BY <2>1, <2>2, FS_Subset
  <2>4. Cardinality(A) \in Nat /\ Cardinality(B) \in Nat
    BY <2>2, <2>3, FS_CardinalityType
  <2>5. Cardinality(B) <= stockReserved /\ stockReserved <= StockTotal
    BY <2>2, <2>3, <2>4
  <2> QED
    BY <2>5 DEF StockCoversPreorders, B
<1> QED
  BY <1>1, InitMerch, MerchStep, PTL DEF MerchSpec

-----------------------------------------------------------------------------
(* Upgrade auctions.  While an auction is open its active bids rise, each  *)
(* with a ticket of its own, and whatever a ticket offered before, its     *)
(* active bid offers more.  Finalizing ranks the active bids; the bids     *)
(* recorded afterwards change nothing the awards depend on.                *)

Bid == [ticket : UpgradeTickets, amount : Nat,
        status : {"active", "outbid", "won", "lost"}]

AuctionTyped ==
    /\ auction \in [status : {"open", "finalized"}, slotsAwarded : Nat,
                    now : {"early", "bidding", "over"}]
    /\ offer \in [BidRequests -> {NoOffer} \cup Offer]
    /\ bids \in Seq(Bid)

ActiveIn(b) == {i \in DOMAIN b : b[i].status = "active"}

\* What finalizing relies on.
Rising(b) ==
    /\ \A i \in DOMAIN b : b[i].status \in {"active", "outbid"}
    /\ \A i, j \in ActiveIn(b) :
          i < j => b[i].amount < b[j].amount /\ b[i].ticket # b[j].ticket
    /\ \A i \in DOMAIN b : \E j \in ActiveIn(b) :
          i <= j /\ b[j].ticket = b[i].ticket /\ b[i].amount <= b[j].amount

AuctionInv ==
    /\ AuctionTyped
    /\ auction.status = "open" => Rising(bids)
    /\ AwardsGoToBestOffers

\* Its place from the top numbers the members of a set of naturals.
Above(A, i) == {j \in A : i < j}

LEMMA Ranking ==
    ASSUME NEW A \in SUBSET Nat, IsFiniteSet(A)
    PROVE  [i \in A |-> Cardinality(Above(A, i))]
               \in Bijection(A, 0 .. Cardinality(A) - 1)
<1> DEFINE m == Cardinality(A)
           f == [i \in A |-> Cardinality(Above(A, i))]
<1>1. m \in Nat
  BY FS_CardinalityType
<1>2. ASSUME NEW i \in A
      PROVE  /\ IsFiniteSet(Above(A, i)) /\ Cardinality(Above(A, i)) \in Nat
             /\ Cardinality(Above(A, i)) < m
  <2>1. Above(A, i) \in SUBSET A /\ Above(A, i) # A
    BY DEF Above
  <2>2. IsFiniteSet(Above(A, i)) /\ Cardinality(Above(A, i)) \in Nat
    BY <2>1, FS_Subset, FS_CardinalityType
  <2>3. Cardinality(Above(A, i)) <= m /\ Cardinality(Above(A, i)) # m
    BY <2>1, FS_Subset
  <2> QED
    BY <1>1, <2>2, <2>3
<1>3. \A i \in A : f[i] = Cardinality(Above(A, i)) /\ f[i] \in 0 .. m - 1
  BY <1>1, <1>2
<1>4. ASSUME NEW i \in A, NEW j \in A, i < j
      PROVE  f[j] < f[i]
  <2>1. Above(A, j) \in SUBSET Above(A, i) /\ j \in Above(A, i) \ Above(A, j)
    <3>1. i \in Nat /\ j \in Nat
      OBVIOUS
    <3>2. \A x \in A : j < x => i < x
      BY <1>4, <3>1
    <3>3. ~ j < j
      BY <3>1
    <3> QED
      BY <1>4, <3>2, <3>3 DEF Above
  <2>2. Cardinality(Above(A, j)) <= Cardinality(Above(A, i))
        /\ Cardinality(Above(A, j)) # Cardinality(Above(A, i))
    BY <1>2, <2>1, FS_Subset
  <2> QED
    BY <1>2, <1>3, <2>2
<1>5. f \in Injection(A, 0 .. m - 1)
  <2>1. f \in [A -> 0 .. m - 1]
    BY <1>3
  <2>2. \A i, j \in A : f[i] = f[j] => i = j
    <3> SUFFICES ASSUME NEW i \in A, NEW j \in A, i # j PROVE f[i] # f[j]
      OBVIOUS
    <3>1. i < j \/ j < i
      OBVIOUS
    <3> HIDE DEF f
    <3>2. f[i] \in Int /\ f[j] \in Int
      BY <1>1, <1>3
    <3> QED
      BY <1>4, <3>1, <3>2
  <2> QED
    BY <2>1, <2>2 DEF Injection, IsInjective
<1> HIDE DEF f, m
<1>6. IsFiniteSet(0 .. m - 1) /\ Cardinality(0 .. m - 1) = m
  BY <1>1, FS_Interval
<1>7. f \in Surjection(A, 0 .. m - 1)
  BY <1>5, <1>6, FS_Injection DEF m
<1> QED
  BY <1>5, <1>7 DEF Bijection, f, m

\* Of the members, those with fewer than k above them: k, or all.
LEMMA TopMembers ==
    ASSUME NEW A \in SUBSET Nat, IsFiniteSet(A), NEW k \in Nat,
           NEW W, W = {i \in A : Cardinality(Above(A, i)) < k}
    PROVE  /\ IsFiniteSet(W)
           /\ Cardinality(W) = IF k <= Cardinality(A) THEN k ELSE Cardinality(A)
<1> DEFINE m == Cardinality(A)
           c == IF k <= m THEN k ELSE m
           f == [i \in A |-> Cardinality(Above(A, i))]
           g == [i \in W |-> f[i]]
<1>1. m \in Nat
  BY FS_CardinalityType
<1>2. f \in Bijection(A, 0 .. m - 1)
  BY Ranking
<1>3. IsFiniteSet(W) /\ W \subseteq A
  BY FS_Subset
<1>4. \A i \in A : i \in W <=> f[i] < k
  OBVIOUS
<1> HIDE DEF f, m
<1>5. /\ \A i \in A : f[i] \in 0 .. m - 1
      /\ \A i, j \in A : f[i] = f[j] => i = j
      /\ \A r \in 0 .. m - 1 : \E i \in A : f[i] = r
  BY <1>2 DEF Bijection, Injection, Surjection, IsInjective
<1>6. g \in Bijection(W, 0 .. c - 1)
  <2>1. g \in [W -> 0 .. c - 1]
    <3>1. \A i \in W : f[i] \in 0 .. m - 1 /\ f[i] < k
      BY <1>3, <1>4, <1>5
    <3>2. \A i \in W : f[i] \in 0 .. c - 1
      BY <1>1, <3>1
    <3> HIDE DEF c
    <3> QED
      BY <3>2
  <2>2. \A i, j \in W : g[i] = g[j] => i = j
    BY <1>3, <1>5
  <2>3. \A r \in 0 .. c - 1 : \E i \in W : g[i] = r
    <3> SUFFICES ASSUME NEW r \in 0 .. c - 1 PROVE \E i \in W : g[i] = r
      OBVIOUS
    <3>1. r \in 0 .. m - 1 /\ r < k
      BY <1>1
    <3>2. PICK i \in A : f[i] = r
      BY <1>5, <3>1
    <3>3. i \in W
      BY <1>4, <3>1, <3>2
    <3> QED
      BY <3>2, <3>3
  <2> HIDE DEF g, c
  <2> QED
    BY <2>1, <2>2, <2>3 DEF Bijection, Injection, Surjection, IsInjective
<1>7. c \in Nat
  BY <1>1
<1> HIDE DEF g, c
<1>8. IsFiniteSet(W) /\ Cardinality(0 .. c - 1) = Cardinality(W)
  BY <1>3, <1>6, FS_Bijection DEF ExistsBijection
<1>9. Cardinality(0 .. c - 1) = c
  BY <1>7, FS_Interval
<1> QED
  BY <1>8, <1>9 DEF c, m

LEMMA MaxIs ==
    ASSUME NEW S \in SUBSET Nat, NEW a \in S, \A b \in S : b <= a
    PROVE  Max(S) = a
<1>1. Max(S) \in S /\ \A y \in S : Max(S) >= y
  BY DEF Max
<1>2. Max(S) >= a /\ a >= Max(S) /\ Max(S) \in Nat /\ a \in Nat
  BY <1>1
<1> QED
  BY <1>2

LEMMA MinOfTwo ==
    ASSUME NEW a \in Nat, NEW b \in Nat
    PROVE  Min({a, b}) = IF a <= b THEN a ELSE b
<1>1. Min({a, b}) \in {a, b} /\ \A y \in {a, b} : Min({a, b}) <= y
  BY DEF Min
<1> QED
  BY <1>1

\* The property, of the bids b.
WonIn(b) == {i \in DOMAIN b : b[i].status = "won"}
InTimeIn(b) == {i \in DOMAIN b : \E j \in DOMAIN b : i <= j /\ b[j].status = "won"}
OffersIn(b, t) == {b[i].amount : i \in {j \in InTimeIn(b) : b[j].ticket = t}}
TicketsIn(b) == {b[i].ticket : i \in InTimeIn(b)}
Exceeding(b, a) == {t \in TicketsIn(b) : Max(OffersIn(b, t)) > a}

Awarded(b, n) ==
    /\ Cardinality(WonIn(b)) = n
    /\ n = Min({UpgradeSlots, Cardinality(TicketsIn(b))})
    /\ \A i \in WonIn(b) :
          /\ b[i].amount = Max(OffersIn(b, b[i].ticket))
          /\ Cardinality(Exceeding(b, b[i].amount)) < UpgradeSlots

LEMMA AwardsAre ==
    AwardsGoToBestOffers <=>
        (auction.status = "finalized" => Awarded(bids, auction.slotsAwarded))
BY DEF AwardsGoToBestOffers, Awarded, WonIn, TicketsIn, Exceeding, OffersIn, InTimeIn,
   InTime, BidTickets, BestOffer

\* The bids c, which are b with one more that has not won.
LEMMA AwardsStay ==
    ASSUME NEW b \in Seq(Bid), NEW c \in Seq(Bid), Len(c) = Len(b) + 1,
           \A i \in 1 .. Len(b) : /\ c[i].ticket = b[i].ticket
                                  /\ c[i].amount = b[i].amount
                                  /\ c[i].status = "won" <=> b[i].status = "won",
           c[Len(b) + 1].status # "won", NEW n, Awarded(b, n)
    PROVE  Awarded(c, n)
<1>1. /\ Len(b) \in Nat /\ DOMAIN b = 1 .. Len(b)
      /\ DOMAIN c = (1 .. Len(b)) \cup {Len(b) + 1}
  BY LenProperties
<1>2. \A i \in DOMAIN c : c[i].status = "won" => i \in DOMAIN b
  BY <1>1
<1>3. WonIn(c) = WonIn(b)
  BY <1>1, <1>2 DEF WonIn
<1>4. InTimeIn(c) = InTimeIn(b)
  <2>1. ASSUME NEW i \in InTimeIn(c) PROVE i \in InTimeIn(b)
    <3>1. PICK j \in DOMAIN c : i <= j /\ c[j].status = "won"
      BY DEF InTimeIn
    <3>2. j \in DOMAIN b /\ i \in DOMAIN b
      BY <1>1, <1>2, <3>1 DEF InTimeIn
    <3> QED
      BY <1>1, <3>1, <3>2 DEF InTimeIn
  <2>2. ASSUME NEW i \in InTimeIn(b) PROVE i \in InTimeIn(c)
    BY <1>1 DEF InTimeIn
  <2> QED
    BY <2>1, <2>2
<1>5. \A i \in InTimeIn(b) : c[i].ticket = b[i].ticket /\ c[i].amount = b[i].amount
  BY <1>1 DEF InTimeIn
<1>6. ASSUME NEW t PROVE OffersIn(c, t) = OffersIn(b, t)
  BY <1>4, <1>5 DEF OffersIn
<1>7. TicketsIn(c) = TicketsIn(b)
  BY <1>4, <1>5 DEF TicketsIn
<1>8. ASSUME NEW a PROVE Exceeding(c, a) = Exceeding(b, a)
  BY <1>6, <1>7 DEF Exceeding
<1>9. \A i \in WonIn(b) : c[i].ticket = b[i].ticket /\ c[i].amount = b[i].amount
  BY <1>1 DEF WonIn
<1> QED
  BY <1>3, <1>6, <1>7, <1>8, <1>9 DEF Awarded

-----------------------------------------------------------------------------
\* What finalizing makes of rising bids.
Beats(b, i) == {j \in ActiveIn(b) : \/ b[j].amount > b[i].amount
                                    \/ b[j].amount = b[i].amount /\ j < i}

Finalized(b, W) ==
    [i \in DOMAIN b |->
        IF i \notin ActiveIn(b) THEN b[i]
        ELSE [b[i] EXCEPT !.status = IF i \in W THEN "won" ELSE "lost"]]

LEMMA RisingFacts ==
    ASSUME NEW b \in Seq(Bid), Rising(b)
    PROVE  /\ Len(b) \in Nat /\ DOMAIN b = 1 .. Len(b)
           /\ ActiveIn(b) \in SUBSET Nat /\ IsFiniteSet(ActiveIn(b))
           /\ \A i \in DOMAIN b : b[i] \in Bid /\ b[i].amount \in Nat
           /\ \A i \in ActiveIn(b) : Beats(b, i) = Above(ActiveIn(b), i)
           /\ DOMAIN b # {} => Len(b) \in ActiveIn(b)
<1>1. /\ Len(b) \in Nat /\ DOMAIN b = 1 .. Len(b)
      /\ \A i \in DOMAIN b : b[i] \in Bid /\ b[i].amount \in Nat
  <2>1. /\ Len(b) \in Nat /\ DOMAIN b = 1 .. Len(b)
        /\ b \in [1 .. Len(b) -> Bid]
    BY LenProperties
  <2>2. \A i \in DOMAIN b : b[i] \in Bid
    BY <2>1
  <2> QED
    BY <2>1, <2>2 DEF Bid
<1>2. ActiveIn(b) \in SUBSET (1 .. Len(b)) /\ IsFiniteSet(1 .. Len(b))
  BY <1>1, FS_Interval DEF ActiveIn
<1>3. IsFiniteSet(ActiveIn(b)) /\ ActiveIn(b) \in SUBSET Nat
  BY <1>1, <1>2, FS_Subset
<1>4. ASSUME NEW i \in ActiveIn(b) PROVE Beats(b, i) = Above(ActiveIn(b), i)
  <2>1. ASSUME NEW j \in ActiveIn(b)
        PROVE  (\/ b[j].amount > b[i].amount
                \/ b[j].amount = b[i].amount /\ j < i) <=> i < j
    <3>1. /\ i \in Nat /\ j \in Nat
          /\ b[i].amount \in Nat /\ b[j].amount \in Nat
      BY <1>1, <1>2, <1>3
    <3>2. /\ i < j => b[i].amount < b[j].amount
          /\ j < i => b[j].amount < b[i].amount
      BY DEF Rising
    <3> QED
      BY <3>1, <3>2
  <2> QED
    BY <2>1 DEF Beats, Above
<1>5. ASSUME DOMAIN b # {} PROVE Len(b) \in ActiveIn(b)
  <2>1. Len(b) \in DOMAIN b
    BY <1>1, <1>5
  <2>2. PICK j \in ActiveIn(b) : Len(b) <= j
    BY <2>1 DEF Rising
  <2>3. j = Len(b)
    BY <1>1, <1>2, <2>2
  <2> QED
    BY <2>2, <2>3
<1> QED
  BY <1>1, <1>3, <1>4, <1>5

LEMMA FinalBids ==
    ASSUME NEW b \in Seq(Bid), Rising(b), NEW W \in SUBSET ActiveIn(b),
           NEW c, c = Finalized(b, W)
    PROVE  /\ c \in Seq(Bid) /\ DOMAIN c = DOMAIN b
           /\ \A i \in DOMAIN b : /\ c[i].ticket = b[i].ticket
                                  /\ c[i].amount = b[i].amount
                                  /\ c[i].status = "won" <=> i \in W
<1>1. DOMAIN b = 1 .. Len(b) /\ Len(b) \in Nat /\ \A i \in DOMAIN b : b[i] \in Bid
  BY RisingFacts
<1>2. ASSUME NEW i \in DOMAIN b
      PROVE  /\ c[i] \in Bid /\ c[i].ticket = b[i].ticket
             /\ c[i].amount = b[i].amount
             /\ c[i].status = "won" <=> i \in W
  <2>1. CASE i \in ActiveIn(b)
    <3>1. c[i] = [b[i] EXCEPT !.status = IF i \in W THEN "won" ELSE "lost"]
      BY <2>1 DEF Finalized
    <3> QED
      BY <1>1, <3>1 DEF Bid
  <2>2. CASE i \notin ActiveIn(b)
    <3>1. c[i] = b[i] /\ i \notin W
      BY <2>2 DEF Finalized
    <3> QED
      BY <1>1, <3>1 DEF Rising
  <2> QED
    BY <2>1, <2>2
<1>3. c = [i \in 1 .. Len(b) |-> c[i]] /\ DOMAIN c = DOMAIN b
  BY <1>1 DEF Finalized
<1>4. c \in [1 .. Len(b) -> Bid]
  BY <1>1, <1>2, <1>3
<1>5. c \in Seq(Bid)
  BY <1>1, <1>4, IsASeq
<1> QED
  BY <1>2, <1>3, <1>5

LEMMA AwardsFinal ==
    ASSUME NEW b \in Seq(Bid), Rising(b), NEW W,
           W = {i \in ActiveIn(b) : Cardinality(Beats(b, i)) < UpgradeSlots}
    PROVE  /\ Cardinality(W) \in Nat
           /\ Awarded(Finalized(b, W), Cardinality(W))
<1> DEFINE c == Finalized(b, W)
           A == ActiveIn(b)
           T == TicketsIn(c)
<1>1. /\ Len(b) \in Nat /\ DOMAIN b = 1 .. Len(b)
      /\ A \in SUBSET Nat /\ IsFiniteSet(A)
      /\ \A i \in DOMAIN b : b[i] \in Bid /\ b[i].amount \in Nat
      /\ \A i \in A : Beats(b, i) = Above(A, i)
      /\ DOMAIN b # {} => Len(b) \in A
  BY RisingFacts
<1>2. UpgradeSlots \in Nat /\ UpgradeSlots > 0
  BY UpgradeAssumption
<1>3. W = {i \in A : Cardinality(Above(A, i)) < UpgradeSlots} /\ W \in SUBSET A
  BY <1>1
<1>4. /\ DOMAIN c = DOMAIN b
      /\ \A i \in DOMAIN b : /\ c[i].ticket = b[i].ticket
                             /\ c[i].amount = b[i].amount
                             /\ c[i].status = "won" <=> i \in W
  BY <1>3, FinalBids
<1>5. A \subseteq DOMAIN b
  BY DEF ActiveIn
<1>6. /\ \A i \in A, j \in A : b[i].ticket = b[j].ticket => i = j
      /\ \A i \in DOMAIN b : \E j \in A : /\ b[j].ticket = b[i].ticket
                                          /\ b[i].amount <= b[j].amount
      /\ \A i, j \in A : i < j <=> b[i].amount < b[j].amount
  <2>1. ASSUME NEW i \in A, NEW j \in A
        PROVE  /\ b[i].ticket = b[j].ticket => i = j
               /\ i < j <=> b[i].amount < b[j].amount
    <3>1. /\ i < j => b[i].amount < b[j].amount /\ b[i].ticket # b[j].ticket
          /\ j < i => b[j].amount < b[i].amount /\ b[j].ticket # b[i].ticket
      BY DEF Rising
    <3>2. i \in Nat /\ j \in Nat /\ b[i].amount \in Nat /\ b[j].amount \in Nat
      BY <1>1, <1>5
    <3> QED
      BY <3>1, <3>2
  <2> QED
    BY <2>1 DEF Rising
<1> HIDE DEF c, A
<1>7. /\ IsFiniteSet(W)
      /\ Cardinality(W) = IF UpgradeSlots <= Cardinality(A) THEN UpgradeSlots
                          ELSE Cardinality(A)
  BY <1>1, <1>2, <1>3, TopMembers
<1>8. Cardinality(A) \in Nat /\ Cardinality(W) \in Nat
  BY <1>1, <1>7, FS_CardinalityType
<1>9. WonIn(c) = W
  BY <1>3, <1>4, <1>5 DEF WonIn
\* The last bid wins, so every bid came in time.
<1>10. InTimeIn(c) = DOMAIN b
  <2>1. ASSUME NEW i \in DOMAIN b PROVE i \in InTimeIn(c)
    <3>1. Len(b) \in A /\ i <= Len(b)
      BY <1>1
    <3>2. Above(A, Len(b)) = {}
      <4>1. \A j \in A : ~ Len(b) < j
        BY <1>1, <1>5
      <4> QED
        BY <4>1 DEF Above
    <3>3. Cardinality(Above(A, Len(b))) = 0
      BY <3>2, FS_EmptySet
    <3>4. Len(b) \in W
      BY <1>2, <1>3, <3>1, <3>3
    <3> QED
      BY <1>4, <1>5, <3>1, <3>4 DEF InTimeIn
  <2> QED
    BY <1>4, <2>1 DEF InTimeIn
\* Each ticket has one active bid, its best.
<1>11. \A i \in A : Max(OffersIn(c, b[i].ticket)) = b[i].amount
  <2> SUFFICES ASSUME NEW i \in A
               PROVE  Max(OffersIn(c, b[i].ticket)) = b[i].amount
    OBVIOUS
  <2> DEFINE S == OffersIn(c, b[i].ticket)
  <2>1. S = {b[j].amount : j \in {l \in DOMAIN b : b[l].ticket = b[i].ticket}}
    BY <1>4, <1>10 DEF OffersIn
  <2>2. S \in SUBSET Nat /\ b[i].amount \in S
    BY <1>1, <1>5, <2>1
  <2>3. \A a \in S : a <= b[i].amount
    <3> SUFFICES ASSUME NEW j \in DOMAIN b, b[j].ticket = b[i].ticket
                 PROVE  b[j].amount <= b[i].amount
      BY <2>1
    <3>1. PICK l \in A : b[l].ticket = b[j].ticket /\ b[j].amount <= b[l].amount
      BY <1>6
    <3>2. l = i
      BY <1>6, <3>1
    <3> QED
      BY <3>1, <3>2
  <2> HIDE DEF S
  <2>4. Max(S) = b[i].amount
    BY <2>2, <2>3, MaxIs
  <2> QED
    BY <2>4 DEF S
<1>12. /\ T = {b[i].ticket : i \in A}
       /\ IsFiniteSet(T) /\ Cardinality(T) = Cardinality(A)
  <2>1. T = {b[i].ticket : i \in DOMAIN b}
    BY <1>4, <1>10 DEF TicketsIn
  <2>2. T = {b[i].ticket : i \in A}
    BY <1>5, <1>6, <2>1
  <2> DEFINE f == [i \in A |-> b[i].ticket]
  <2> HIDE DEF T
  <2>3. f \in Bijection(A, T)
    BY <1>6, <2>2 DEF Bijection, Injection, Surjection, IsInjective
  <2> QED
    BY <1>1, <2>2, <2>3, FS_Bijection DEF ExistsBijection
<1> HIDE DEF T
<1>13. ASSUME NEW i \in W
       PROVE  Cardinality(Exceeding(c, b[i].amount)) < UpgradeSlots
  <2> DEFINE E == Exceeding(c, b[i].amount)
             B == Above(A, i)
             f == [j \in B |-> b[j].ticket]
  <2>1. i \in A /\ Cardinality(B) < UpgradeSlots
    BY <1>3
  <2>2. B \in SUBSET A /\ IsFiniteSet(B)
    BY <1>1, FS_Subset DEF Above
  <2>3. E = {b[j].ticket : j \in B}
    <3>1. E = {t \in T : Max(OffersIn(c, t)) > b[i].amount}
      BY DEF Exceeding, T
    <3>2. \A j \in A : Max(OffersIn(c, b[j].ticket)) > b[i].amount <=> j \in B
      <4> SUFFICES ASSUME NEW j \in A
                   PROVE  b[j].amount > b[i].amount <=> i < j
        BY <1>11 DEF Above
      <4>1. b[j].amount \in Nat /\ b[i].amount \in Nat
        BY <1>1, <1>5, <2>1
      <4> QED
        BY <1>6, <2>1, <4>1
    <3> HIDE DEF E, B
    <3> QED
      BY <1>12, <2>2, <3>1, <3>2
  <2> HIDE DEF E, B
  <2>4. f \in Surjection(B, E)
    BY <2>3 DEF Surjection
  <2>5. Cardinality(E) <= Cardinality(B) /\ IsFiniteSet(E)
    BY <2>2, <2>4, FS_Surjection
  <2>6. Cardinality(E) \in Nat /\ Cardinality(B) \in Nat
    BY <2>2, <2>5, FS_CardinalityType
  <2>7. Cardinality(E) < UpgradeSlots
    BY <1>2, <2>1, <2>5, <2>6
  <2> QED
    BY <2>7 DEF E
<1>14. Cardinality(W) = Min({UpgradeSlots, Cardinality(T)})
  BY <1>2, <1>7, <1>8, <1>12, MinOfTwo
<1>15. Awarded(c, Cardinality(W))
  <2>1. \A i \in W : c[i].amount = b[i].amount /\ c[i].ticket = b[i].ticket /\ i \in A
    BY <1>3, <1>4, <1>5
  <2> QED
    BY <1>9, <1>11, <1>13, <1>14, <2>1 DEF Awarded, T
<1> QED
  BY <1>8, <1>15 DEF c


\* A recorded bid offers more than every active one.
LEMMA MinRequiredIs ==
    ASSUME AuctionTyped, Rising(bids)
    PROVE  MinRequired \in Nat /\ \A i \in ActiveBids : bids[i].amount < MinRequired
<1>1. /\ ActiveBids \in SUBSET Nat /\ ActiveBids \subseteq DOMAIN bids
      /\ \A i \in DOMAIN bids : bids[i].amount \in Nat
      /\ Len(bids) \in Nat /\ DOMAIN bids = 1 .. Len(bids)
      /\ DOMAIN bids # {} => Len(bids) \in ActiveBids
  BY RisingFacts DEF AuctionTyped, ActiveBids, ActiveIn
<1>2. CASE ActiveBids = {}
  BY <1>2, UpgradeAssumption DEF MinRequired
<1>3. CASE ActiveBids # {}
  <2> DEFINE S == {bids[i].amount : i \in ActiveBids}
             l == bids[Len(bids)].amount
  <2>1. Len(bids) \in ActiveBids /\ l \in S /\ S \in SUBSET Nat
    BY <1>1, <1>3
  <2>2. \A i \in ActiveBids : bids[i].amount <= l
    <3> SUFFICES ASSUME NEW i \in ActiveBids PROVE bids[i].amount <= l
      OBVIOUS
    <3>1. i \in 1 .. Len(bids)
      BY <1>1
    <3>2. i < Len(bids) => bids[i].amount < l
      BY <2>1 DEF Rising, ActiveBids, ActiveIn
    <3>3. bids[i].amount \in Nat /\ l \in Nat
      BY <1>1, <2>1
    <3> QED
      BY <1>1, <3>1, <3>2, <3>3
  <2>3. Max(S) = l
    <3>1. \A a \in S : a <= l
      BY <2>2
    <3> HIDE DEF S, l
    <3> QED
      BY <2>1, <3>1, MaxIs
  <2>4. MinRequired = l + MinIncrement
    BY <1>3, <2>3 DEF MinRequired
  <2>5. l \in Nat /\ MinIncrement \in Nat /\ MinIncrement > 0
    BY <1>1, <2>1, UpgradeAssumption
  <2> HIDE DEF l
  <2>6. ASSUME NEW i \in ActiveBids PROVE bids[i].amount < MinRequired
    <3>1. bids[i].amount \in Nat /\ bids[i].amount <= l
      BY <1>1, <2>2
    <3> QED
      BY <2>4, <2>5, <3>1
  <2> QED
    BY <2>4, <2>5, <2>6
<1> QED
  BY <1>2, <1>3

\* The bids after RecordBid.
LEMMA RecordedBids ==
    ASSUME AuctionTyped, NEW o \in Offer
    PROVE  /\ WithBid(o) \in Seq(Bid) /\ Len(WithBid(o)) = Len(bids) + 1
           /\ WithBid(o)[Len(bids) + 1] =
                 [ticket |-> o.ticket, amount |-> o.amount, status |-> "active"]
           /\ \A i \in 1 .. Len(bids) :
                 WithBid(o)[i] =
                    IF i \in ActiveBids /\ bids[i].ticket = o.ticket
                    THEN [bids[i] EXCEPT !.status = "outbid"] ELSE bids[i]
<1> DEFINE n == [ticket |-> o.ticket, amount |-> o.amount, status |-> "active"]
           S == {i \in ActiveBids : bids[i].ticket = o.ticket}
           m == Marked(S, "outbid")
<1>1. n \in Bid
  BY UpgradeAssumption DEF Bid, Offer
<1>2. /\ Len(bids) \in Nat /\ DOMAIN bids = 1 .. Len(bids)
      /\ bids \in [1 .. Len(bids) -> Bid]
  BY LenProperties DEF AuctionTyped
<1>3. /\ m = [i \in 1 .. Len(bids) |-> m[i]]
      /\ \A i \in 1 .. Len(bids) :
            m[i] = IF i \in S THEN [bids[i] EXCEPT !.status = "outbid"] ELSE bids[i]
  BY <1>2 DEF Marked
<1>4. \A i \in 1 .. Len(bids) : m[i] \in Bid
  <2> SUFFICES ASSUME NEW i \in 1 .. Len(bids) PROVE m[i] \in Bid
    OBVIOUS
  <2>1. bids[i] \in Bid
    BY <1>2
  <2>2. [bids[i] EXCEPT !.status = "outbid"] \in Bid
    BY <2>1 DEF Bid
  <2> HIDE DEF m, S
  <2> QED
    BY <1>3, <2>1, <2>2
<1> HIDE DEF m
<1>5. m \in Seq(Bid) /\ DOMAIN m = 1 .. Len(bids)
  BY <1>2, <1>3, <1>4, IsASeq
<1>6. Len(m) = Len(bids)
  BY <1>2, <1>5, LenProperties
<1> HIDE DEF n
<1>7. WithBid(o) = Append(m, n)
  BY DEF WithBid, m, n
<1>8. /\ Append(m, n) \in Seq(Bid) /\ Len(Append(m, n)) = Len(m) + 1
      /\ \A i \in 1 .. Len(m) : Append(m, n)[i] = m[i]
      /\ Append(m, n)[Len(m) + 1] = n
  BY <1>1, <1>5, AppendProperties
<1> QED
  BY <1>3, <1>6, <1>7, <1>8 DEF n

LEMMA RecordKeepsRising ==
    ASSUME AuctionTyped, Rising(bids), NEW o \in Offer, o.amount >= MinRequired,
           NEW c, c = WithBid(o)
    PROVE  Rising(c)
<1> DEFINE k == Len(bids)
           b == bids
<1>1. /\ k \in Nat /\ DOMAIN b = 1 .. k
      /\ \A i \in DOMAIN b : b[i] \in Bid /\ b[i].amount \in Nat
      /\ ActiveBids \subseteq DOMAIN b /\ ActiveBids = ActiveIn(b)
  BY RisingFacts DEF AuctionTyped, ActiveBids, ActiveIn
<1>2. /\ c \in Seq(Bid) /\ Len(c) = k + 1
      /\ c[k + 1] = [ticket |-> o.ticket, amount |-> o.amount, status |-> "active"]
      /\ \A i \in 1 .. k :
            c[i] = IF i \in ActiveBids /\ b[i].ticket = o.ticket
                   THEN [b[i] EXCEPT !.status = "outbid"] ELSE b[i]
  BY RecordedBids
<1>3. DOMAIN c = (1 .. k) \cup {k + 1}
  BY <1>1, <1>2, LenProperties
<1>4. o.amount \in Nat /\ \A i \in ActiveBids : b[i].amount < o.amount
  <2>1. o.amount \in Nat
    BY UpgradeAssumption DEF Offer
  <2>2. ASSUME NEW i \in ActiveBids PROVE b[i].amount < o.amount
    <3>1. b[i].amount \in Nat /\ b[i].amount < MinRequired /\ MinRequired \in Nat
      BY <1>1, MinRequiredIs
    <3> QED
      BY <2>1, <3>1
  <2> QED
    BY <2>1, <2>2
<1>5. ASSUME NEW i \in 1 .. k
      PROVE  /\ c[i].ticket = b[i].ticket /\ c[i].amount = b[i].amount
             /\ c[i].status \in {"active", "outbid"}
             /\ c[i].status = "active" <=>
                   i \in ActiveBids /\ b[i].ticket # o.ticket
  <2>1. b[i] \in Bid /\ b[i].status \in {"active", "outbid"}
        /\ (b[i].status = "active" <=> i \in ActiveBids)
    BY <1>1 DEF Rising, ActiveIn
  <2>2. CASE i \in ActiveBids /\ b[i].ticket = o.ticket
    <3>1. c[i] = [b[i] EXCEPT !.status = "outbid"]
      BY <1>2, <2>2
    <3> QED
      BY <2>1, <2>2, <3>1 DEF Bid
  <2>3. CASE ~ (i \in ActiveBids /\ b[i].ticket = o.ticket)
    <3>1. c[i] = b[i]
      BY <1>2, <2>3
    <3> QED
      BY <2>1, <2>3, <3>1
  <2> QED
    BY <2>2, <2>3
<1>6. /\ c[k + 1].ticket = o.ticket /\ c[k + 1].amount = o.amount
      /\ c[k + 1].status = "active"
  BY <1>2
<1>7. ActiveIn(c) = {i \in ActiveBids : b[i].ticket # o.ticket} \cup {k + 1}
  BY <1>1, <1>3, <1>5, <1>6 DEF ActiveIn
<1> HIDE DEF k, b
<1>8. ASSUME NEW i \in DOMAIN c PROVE c[i].status \in {"active", "outbid"}
  BY <1>3, <1>5, <1>6
<1>9. ASSUME NEW i \in ActiveIn(c), NEW j \in ActiveIn(c), i < j
      PROVE  c[i].amount < c[j].amount /\ c[i].ticket # c[j].ticket
  <2>1. i \in ActiveBids /\ i \in 1 .. k /\ b[i].ticket # o.ticket
    <3>1. j \in 1 .. k + 1
      BY <1>1, <1>7
    <3>2. i # k + 1
      BY <1>1, <1>9, <3>1
    <3> QED
      BY <1>1, <1>7, <3>2
  <2>2. CASE j = k + 1
    BY <1>4, <1>5, <1>6, <2>1, <2>2
  <2>3. CASE j \in ActiveBids
    <3>1. b[i].amount < b[j].amount /\ b[i].ticket # b[j].ticket
      BY <1>1, <1>9, <2>1, <2>3 DEF Rising, b
    <3>2. j \in 1 .. k
      BY <1>1, <2>3
    <3> QED
      BY <1>5, <2>1, <3>1, <3>2
  <2> QED
    BY <1>7, <2>2, <2>3
<1>10. ASSUME NEW i \in DOMAIN c
       PROVE  \E j \in ActiveIn(c) : /\ i <= j /\ c[j].ticket = c[i].ticket
                                     /\ c[i].amount <= c[j].amount
  <2>1. k + 1 \in ActiveIn(c)
    BY <1>7
  <2>2. CASE i = k + 1
    BY <1>1, <1>4, <1>6, <2>1, <2>2
  <2>3. CASE i \in 1 .. k
    <3>1. PICK j \in ActiveBids : /\ i <= j /\ b[j].ticket = b[i].ticket
                                  /\ b[i].amount <= b[j].amount
      BY <1>1, <2>3 DEF Rising, b
    <3>2. j \in 1 .. k /\ b[j].amount \in Nat /\ b[i].amount \in Nat
      BY <1>1, <2>3
    <3>3. CASE b[j].ticket = o.ticket
      <4>1. i <= k + 1 /\ b[i].amount <= o.amount
        BY <1>1, <1>4, <2>3, <3>1, <3>2
      <4> QED
        BY <1>5, <1>6, <2>1, <2>3, <3>1, <3>3, <4>1
    <3>4. CASE b[j].ticket # o.ticket
      <4>1. j \in ActiveIn(c)
        BY <1>7, <3>4
      <4> QED
        BY <1>5, <2>3, <3>1, <3>2, <4>1
    <3> QED
      BY <3>3, <3>4
  <2> QED
    BY <1>3, <2>2, <2>3
<1> QED
  BY <1>8, <1>9, <1>10 DEF Rising

LEMMA AuctionStep == AuctionInv /\ [AuctionNext]_auctionVars => AuctionInv'
<1> SUFFICES ASSUME AuctionInv, [AuctionNext]_auctionVars PROVE AuctionInv'
  OBVIOUS
<1>1. /\ AuctionTyped /\ auction.status \in {"open", "finalized"}
      /\ auction.status = "open" => Rising(bids)
      /\ auction.status = "finalized" => Awarded(bids, auction.slotsAwarded)
  BY AwardsAre DEF AuctionInv, AuctionTyped
<1>2. ASSUME AuctionTyped', auction'.status = "open" => Rising(bids'),
             auction'.status = "finalized" => Awarded(bids', auction'.slotsAwarded)
      PROVE  AuctionInv'
  <2>1. AwardsGoToBestOffers'
    BY <1>2 DEF AwardsGoToBestOffers, Awarded, WonIn, TicketsIn, Exceeding, OffersIn,
       InTimeIn, InTime, BidTickets, BestOffer
  <2> QED
    BY <1>2, <2>1 DEF AuctionInv, Rising, ActiveIn
<1>3. ASSUME UNCHANGED bids, auction'.status = auction.status,
             auction'.slotsAwarded = auction.slotsAwarded, AuctionTyped'
      PROVE  AuctionInv'
  BY <1>1, <1>2, <1>3
<1>4. CASE BidsTime \/ UNCHANGED auctionVars
  <2>1. /\ UNCHANGED <<offer, bids>> /\ auction'.status = auction.status
        /\ auction'.slotsAwarded = auction.slotsAwarded
    BY <1>1, <1>4 DEF BidsTime, auctionVars, AuctionTyped
  <2>2. AuctionTyped'
    BY <1>1, <1>4, <2>1 DEF BidsTime, auctionVars, AuctionTyped
  <2> QED
    BY <1>3, <2>1, <2>2
<1>5. ASSUME NEW r \in BidRequests, NEW o \in Offer, EnterBid(r, o)
      PROVE  AuctionInv'
  <2>1. AuctionTyped'
    BY <1>1, <1>5 DEF EnterBid, AuctionTyped
  <2> QED
    BY <1>3, <1>5, <2>1 DEF EnterBid
<1>6. ASSUME NEW r \in BidRequests, RefuseBid(r) PROVE AuctionInv'
  <2>1. AuctionTyped'
    BY <1>1, <1>6 DEF RefuseBid, AuctionTyped
  <2> QED
    BY <1>3, <1>6, <2>1 DEF RefuseBid
<1>7. ASSUME NEW r \in BidRequests, RecordBid(r) PROVE AuctionInv'
  <2> DEFINE o == offer[r]
  <2>1. o \in Offer /\ o.amount >= MinRequired
    BY <1>1, <1>7 DEF RecordBid, AuctionTyped
  <2>2. bids' = WithBid(o) /\ auction' = auction
        /\ offer' = [offer EXCEPT ![r] = NoOffer]
    BY <1>7 DEF RecordBid
  <2> HIDE DEF o
  <2>3. /\ WithBid(o) \in Seq(Bid) /\ Len(WithBid(o)) = Len(bids) + 1
        /\ WithBid(o)[Len(bids) + 1] =
              [ticket |-> o.ticket, amount |-> o.amount, status |-> "active"]
        /\ \A i \in 1 .. Len(bids) :
              WithBid(o)[i] =
                 IF i \in ActiveBids /\ bids[i].ticket = o.ticket
                 THEN [bids[i] EXCEPT !.status = "outbid"] ELSE bids[i]
    BY <1>1, <2>1, RecordedBids
  <2>4. AuctionTyped'
    BY <1>1, <2>2, <2>3 DEF AuctionTyped
  <2>5. auction.status = "open" => Rising(WithBid(o))
    BY <1>1, <2>1, RecordKeepsRising
  <2>6. auction.status = "finalized" => Awarded(WithBid(o), auction.slotsAwarded)
    <3>1. ASSUME NEW i \in 1 .. Len(bids)
          PROVE  /\ WithBid(o)[i].ticket = bids[i].ticket
                 /\ WithBid(o)[i].amount = bids[i].amount
                 /\ WithBid(o)[i].status = "won" <=> bids[i].status = "won"
      <4>1. bids[i] \in Bid
        BY <1>1, LenProperties DEF AuctionTyped
      <4>2. i \in ActiveBids => bids[i].status = "active"
        BY DEF ActiveBids
      <4>3. CASE i \in ActiveBids /\ bids[i].ticket = o.ticket
        <5>1. WithBid(o)[i] = [bids[i] EXCEPT !.status = "outbid"]
          BY <2>3, <4>3
        <5> QED
          BY <4>1, <4>2, <4>3, <5>1 DEF Bid
      <4>4. CASE ~ (i \in ActiveBids /\ bids[i].ticket = o.ticket)
        BY <2>3, <4>4
      <4> QED
        BY <4>3, <4>4
    <3>2. WithBid(o)[Len(bids) + 1].status # "won"
      BY <2>3
    <3>3. bids \in Seq(Bid)
      BY <1>1 DEF AuctionTyped
    <3> QED
      BY <1>1, <2>3, <3>1, <3>2, <3>3, AwardsStay
  <2> QED
    BY <1>2, <2>2, <2>4, <2>5, <2>6
<1>8. CASE FinalizeWinningBid
  <2> DEFINE W == {i \in ActiveIn(bids) : Cardinality(Beats(bids, i)) < UpgradeSlots}
  <2>1. Rising(bids) /\ bids \in Seq(Bid)
    BY <1>1, <1>8 DEF FinalizeWinningBid, AuctionTyped
  <2>2. W = {i \in ActiveBids : Ahead(i) < UpgradeSlots} /\ ActiveBids = ActiveIn(bids)
    BY DEF Ahead, Beats, ActiveBids, ActiveIn
  <2>3. /\ bids' = Finalized(bids, W) /\ offer' = offer
        /\ auction' = [auction EXCEPT !.status = "finalized",
                                      !.slotsAwarded = Cardinality(W)]
    <3> HIDE DEF W
    <3> QED
      BY <1>8, <2>2 DEF FinalizeWinningBid, Finalized
  <2>4. Cardinality(W) \in Nat /\ Awarded(Finalized(bids, W), Cardinality(W))
    BY <2>1, AwardsFinal
  <2>5. Finalized(bids, W) \in Seq(Bid)
    BY <2>1, FinalBids
  <2> HIDE DEF W
  <2>6. auction'.status = "finalized" /\ auction'.slotsAwarded = Cardinality(W)
    BY <1>1, <2>3 DEF AuctionTyped
  <2>7. auction' \in [status : {"open", "finalized"}, slotsAwarded : Nat,
                      now : {"early", "bidding", "over"}]
    BY <1>1, <2>3, <2>4 DEF AuctionTyped
  <2>8. AuctionTyped'
    BY <1>1, <2>3, <2>5, <2>7 DEF AuctionTyped
  <2> QED
    BY <1>2, <2>3, <2>4, <2>6, <2>8
<1> QED
  BY <1>4, <1>5, <1>6, <1>7, <1>8 DEF AuctionNext

LEMMA InitAuction == AuctionInit => AuctionInv
<1> SUFFICES ASSUME AuctionInit PROVE AuctionInv
  OBVIOUS
<1>1. bids = << >> /\ DOMAIN bids = {} /\ auction.status = "open"
  BY DEF AuctionInit
<1>2. AuctionTyped
  BY DEF AuctionInit, AuctionTyped
<1> QED
  BY <1>1, <1>2 DEF AuctionInv, Rising, ActiveIn, AwardsGoToBestOffers

\* Whatever bids race each other, the clock and the organizer, and however
\* long after the auction they are recorded, its upgrades go to the tickets
\* with the best offers, each for its best offer (finalizeWinningBid and the
\* outbid update of placeUpgradeBid).
THEOREM BestOffersWin == AuctionSpec => []AwardsGoToBestOffers
<1>1. AuctionInv => AwardsGoToBestOffers
  BY DEF AuctionInv
<1> QED
  BY <1>1, InitAuction, AuctionStep, PTL DEF AuctionSpec
=============================================================================
