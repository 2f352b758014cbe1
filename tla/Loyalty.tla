------------------------------ MODULE Loyalty ------------------------------
(***************************************************************************)
(* The loyalty account of a user.  Redeeming points locks the account's    *)
(* row; awarding, expiring and evaluating the tier read it without a lock  *)
(* and save the account they read.                                         *)
(***************************************************************************)
EXTENDS Integers, FiniteSets, EntityStore

CONSTANTS
    LoyaltyWorkers,  \* bound: operations being handled at once
    PointAmounts,    \* the points of an award or a discount
    TierMinimums,    \* minPoints of the tiers above the first
    MaxEarned,       \* bound: points awarded
    MaxRestores      \* bound: saves that bring points back

ASSUME LoyaltyAssumption ==
    /\ PointAmounts \subseteq Nat \ {0}
    /\ TierMinimums \subseteq Nat /\ IsFiniteSet(TierMinimums)
    /\ "none" \notin LoyaltyWorkers
    /\ MaxEarned \in Nat /\ MaxRestores \in Nat

VARIABLES
    account,   \* the row: balance, tier, and whether it was active of late
    rowLock,   \* who holds the row locked
    task,      \* by worker: what it does, the account it read, and the
               \* columns its save found to differ
    earned,    \* the points awarded
    spent,     \* the points of the discounts issued
    restores   \* the saves that put back points spent or expired since

loyaltyVars == <<account, rowLock, task, earned, spent, restores>>

Account == [balance : Nat, tier : Nat, recent : BOOLEAN]
NoTask == [at |-> "idle"]
Tier(balance) == Cardinality({m \in TierMinimums : balance >= m})

LoyaltyInit ==
    /\ account = [balance |-> 0, tier |-> 0, recent |-> FALSE]
    /\ rowLock = "none"
    /\ task = [w \in LoyaltyWorkers |-> NoTask]
    /\ earned = 0 /\ spent = 0 /\ restores = 0

\* The worker read the account and changed its copy.
Begin(w, entity, award) ==
    task' = [task EXCEPT ![w] = [at |-> "changed", entity |-> entity, award |-> award]]

ReadAward(w, p) ==
    /\ task[w] = NoTask /\ earned + p <= MaxEarned
    /\ Begin(w, [account EXCEPT !.balance = @ + p, !.recent = TRUE], p)
    /\ UNCHANGED <<account, rowLock, earned, spent, restores>>

\* expireStalePoints reads every account before it saves the first.
ReadStale(w) ==
    /\ task[w] = NoTask
    /\ ~account.recent /\ account.balance > 0
    /\ Begin(w, [account EXCEPT !.balance = 0], 0)
    /\ UNCHANGED <<account, rowLock, earned, spent, restores>>

GoQuiet ==
    /\ account.recent
    /\ account' = [account EXCEPT !.recent = FALSE]
    /\ UNCHANGED <<rowLock, task, earned, spent, restores>>

\* The save selects the row and compares.
Compare(w) ==
    /\ task[w].at \in {"changed", "evaluated"}
    /\ task' = [task EXCEPT ![w] =
          [at |-> IF @.at = "changed" THEN "saving" ELSE "tiering",
           entity |-> @.entity, award |-> @.award,
           dirty |-> Differing(account, @.entity)]]
    /\ UNCHANGED <<account, rowLock, earned, spent, restores>>

\* The save updates the row, once nobody else holds it; the points awarded and
\* expired are on record with it.
Save(w) ==
    /\ task[w].at \in {"saving", "tiering"} /\ rowLock = "none"
    /\ LET new == Updated(account, task[w].entity, task[w].dirty)
           more == new.balance > account.balance + task[w].award
       IN  /\ more => restores < MaxRestores
           /\ restores' = IF more THEN restores + 1 ELSE restores
           /\ account' = new
    /\ earned' = earned + task[w].award
    /\ task' = [task EXCEPT ![w] = IF @.at = "saving" THEN [at |-> "to evaluate"] ELSE NoTask]
    /\ UNCHANGED <<rowLock, spent>>

\* Mutant: the account is read without a lock.
ReadRedeem(w, p) ==
    /\ task[w] = NoTask
    /\ account.balance >= p
    /\ task' = [task EXCEPT ![w] = [at |-> "redeeming", points |-> p, balance |-> account.balance]]
    /\ UNCHANGED <<account, rowLock, earned, spent, restores>>

\* redeemPointsForDiscount: SELECT ... FOR UPDATE.
LockRedeem(w, p) ==
    /\ task[w] = NoTask /\ rowLock = "none"
    /\ account.balance >= p
    /\ rowLock' = w
    /\ task' = [task EXCEPT ![w] = [at |-> "redeeming", points |-> p, balance |-> account.balance]]
    /\ UNCHANGED <<account, earned, spent, restores>>

SaveRedeem(w) ==
    /\ task[w].at = "redeeming"
    /\ account' = [account EXCEPT !.balance = task[w].balance - task[w].points, !.recent = TRUE]
    /\ spent' = spent + task[w].points
    /\ rowLock' = "none"
    /\ task' = [task EXCEPT ![w] = [at |-> "to evaluate"]]
    /\ UNCHANGED <<earned, restores>>

\* evaluateTierStatus, after each of them.  An error in it is logged.
Evaluate(w) ==
    /\ task[w].at = "to evaluate"
    /\ task' = [task EXCEPT ![w] =
          IF Tier(account.balance) = account.tier THEN NoTask
          ELSE [at |-> "evaluated", award |-> 0,
                entity |-> [account EXCEPT !.tier = Tier(account.balance)]]]
    /\ UNCHANGED <<account, rowLock, earned, spent, restores>>

\* An error or a stop: an open transaction is rolled back.
GiveUp(w) ==
    /\ task[w] # NoTask
    /\ task' = [task EXCEPT ![w] = NoTask]
    /\ rowLock' = IF rowLock = w THEN "none" ELSE rowLock
    /\ UNCHANGED <<account, earned, spent, restores>>

LoyaltyNext ==
    \/ GoQuiet
    \/ \E w \in LoyaltyWorkers :
          \/ ReadStale(w)
          \/ Compare(w)
          \/ Save(w)
          \/ SaveRedeem(w)
          \/ Evaluate(w)
          \/ GiveUp(w)
          \/ \E p \in PointAmounts : ReadAward(w, p) \/ LockRedeem(w, p)

-----------------------------------------------------------------------------
LoyaltySpec == LoyaltyInit /\ [][LoyaltyNext]_loyaltyVars

(***************************************************************************)
(* Points are spent twice only when a save of an account read before puts  *)
(* them back; redeeming itself never spends a point that another redeeming *)
(* spends, whatever runs beside it (loyalty.service.ts, the lock of        *)
(* redeemPointsForDiscount).                                               *)
(***************************************************************************)
SpendingBounded == spent + account.balance <= earned * (1 + restores)
=============================================================================
