------------------------------ MODULE BlockLoad -------------------------------
(***************************************************************************)
(* How much goes into a block: the block weights of lib.rs, by which the   *)
(* signed extension CheckWeight lets an extrinsic in, and the multiplier   *)
(* of the fees, that follows how full the blocks are.                      *)
(*                                                                         *)
(* Weights are in twentieths of MAXIMUM_BLOCK_WEIGHT.  The multiplier is   *)
(* an integer number of its own smallest unit.                             *)
(***************************************************************************)
EXTENDS Integers

CONSTANTS
    Accuracy,               \* how many units a multiplier of one is
    AdjustmentVariable,     \* in units
    MinimumMultiplier,      \* in units
    MaxMultiplier,          \* bound: where the multiplier is not followed any more
    Weights                 \* bound: what extrinsics weigh

(* The least multiplier is not too small to grow: the step of a full block  *)
(* is a unit at least.  With the values of lib.rs it is 7500 units.  And    *)
(* four fifths of the accuracy, 10 ^ 18 there, are three quarters of it     *)
(* after rounding.                                                          *)
ASSUME MultiplierAssumption ==
    /\ Accuracy \in Nat /\ Accuracy >= 16
    /\ AdjustmentVariable \in Nat /\ MinimumMultiplier \in Nat
    /\ MinimumMultiplier * ((AdjustmentVariable * 3) \div 4) >= Accuracy
    /\ AdjustmentVariable <= Accuracy
    /\ MaxMultiplier \in Nat /\ Weights \subseteq Nat

VARIABLES
    used,           \* the weight of the block so far, by class
    executing,          \* "hooks" run first, then "extrinsics"
    multiplier

loadVars == <<used, executing, multiplier>>

MAXIMUM_BLOCK_WEIGHT == 20
NormalMax == (MAXIMUM_BLOCK_WEIGHT * 75) \div 100
AverageOnInitialize == MAXIMUM_BLOCK_WEIGHT \div 10
BaseExtrinsic == 1
MaximumSchedulerWeight == (MAXIMUM_BLOCK_WEIGHT * 80) \div 100
DeletionWeightLimit == AverageOnInitialize

Classes == {"normal", "operational", "mandatory"}
Unlimited == -1

-----------------------------------------------------------------------------
(* Mutant: normal extrinsics have no limit in the reserve, as if it had not  *)
(* been set.                                                                 *)
AllReserved(class) ==
    IF class = "operational" THEN MAXIMUM_BLOCK_WEIGHT - NormalMax ELSE Unlimited

(* RuntimeBlockWeights; what the builder is not told is zero, or unlimited   *)
(* for mandatory extrinsics.                                                 *)
MaxTotal(class) ==
    CASE class = "normal" -> NormalMax
      [] class = "operational" -> MAXIMUM_BLOCK_WEIGHT
      [] class = "mandatory" -> Unlimited
Reserved(class) ==
    CASE class = "normal" -> 0
      [] class = "operational" -> MAXIMUM_BLOCK_WEIGHT - NormalMax
      [] class = "mandatory" -> Unlimited
MaxExtrinsic(class) ==
    IF class = "mandatory" THEN Unlimited
    ELSE MaxTotal(class) - AverageOnInitialize - BaseExtrinsic

Within(weight, limit) == limit = Unlimited \/ weight <= limit
Total(u) == u["normal"] + u["operational"] + u["mandatory"]

(* CheckWeight: above the maximum of the block only the reserve is left. *)
Fits(class, weight) ==
    LET after == [used EXCEPT ![class] = @ + weight + BaseExtrinsic]
    IN  /\ Within(weight, MaxExtrinsic(class))
        /\ Within(after[class], MaxTotal(class))
        /\ Total(after) > MAXIMUM_BLOCK_WEIGHT => Within(after[class], Reserved(class))

(* TargetedFeeAdjustment: TargetBlockFullness is a quarter of what normal    *)
(* extrinsics may fill.                                                      *)
Target == NormalMax \div 4
(* Mutant: the share is rounded to a whole before it is scaled. *)
ShareRounded(diff) == Accuracy * (diff \div NormalMax)

Share(diff) == (Accuracy * diff) \div NormalMax
FirstTerm(diff) == (AdjustmentVariable * Share(diff)) \div Accuracy
SecondTerm(diff) ==
    LET v == (AdjustmentVariable * AdjustmentVariable) \div Accuracy
        d == (Share(diff) * Share(diff)) \div Accuracy
    IN  ((v \div 2) * d) \div Accuracy
AtLeastMinimum(m) == IF m < MinimumMultiplier THEN MinimumMultiplier ELSE m

Adjusted(m, weight) ==
    IF weight >= Target
    THEN LET d == weight - Target
         IN  AtLeastMinimum(m + (m * (FirstTerm(d) + SecondTerm(d))) \div Accuracy)
    ELSE LET d == Target - weight
         IN  AtLeastMinimum(m - (m * (FirstTerm(d) - SecondTerm(d))) \div Accuracy)

-----------------------------------------------------------------------------
Empty == [c \in Classes |-> 0]

LoadInit ==
    /\ used = Empty
    /\ executing = "hooks"
    /\ multiplier = MinimumMultiplier

(* on_initialize of all pallets: they are not asked whether they fit.  The  *)
(* scheduler and the deletion of contracts keep to limits of their own.     *)
Hooks(scheduled, deleted) ==
    /\ executing = "hooks" /\ executing' = "extrinsics"
    /\ scheduled <= MaximumSchedulerWeight /\ deleted <= DeletionWeightLimit
    /\ used' = [used EXCEPT !["mandatory"] = scheduled + deleted]
    /\ UNCHANGED multiplier

(* Mandatory extrinsics are let in without end; here up to a whole block. *)
Apply(class, weight) ==
    /\ executing = "extrinsics"
    /\ Fits(class, weight)
    /\ class = "mandatory" => used["mandatory"] <= MAXIMUM_BLOCK_WEIGHT
    /\ used' = [used EXCEPT ![class] = @ + weight + BaseExtrinsic]
    /\ UNCHANGED <<executing, multiplier>>

Finalize ==
    /\ executing = "extrinsics" /\ executing' = "hooks"
    /\ multiplier < MaxMultiplier
    /\ multiplier' = Adjusted(multiplier, used["normal"])
    /\ used' = Empty

LoadNext ==
    \/ \E scheduled \in {0, MaximumSchedulerWeight}, deleted \in {0, DeletionWeightLimit} :
        Hooks(scheduled, deleted)
    \/ \E class \in Classes, weight \in Weights : Apply(class, weight)
    \/ Finalize

LoadSpec == LoadInit /\ [][LoadNext]_loadVars

-----------------------------------------------------------------------------
LoadTypeOK ==
    /\ used \in [Classes -> Nat] /\ executing \in {"hooks", "extrinsics"}
    /\ multiplier \in Nat

(* What the author of a block chooses fits in the block, whatever the hooks  *)
(* took: the reserve of the operational extrinsics does not come on top.     *)
(* And operational extrinsics that fit in their reserve are let in, even if  *)
(* the block has reached its maximum.                                        *)
BlocksFit ==
    /\ used["normal"] <= NormalMax
    /\ used["normal"] + used["operational"] <= MAXIMUM_BLOCK_WEIGHT
    /\ \A weight \in Weights :
        used["operational"] + weight + BaseExtrinsic <= MAXIMUM_BLOCK_WEIGHT - NormalMax
            => Fits("operational", weight)

(* Fees rise after a full block, do not fall after one that was fuller than  *)
(* the target, and do not rise after one that was emptier: they are never    *)
(* too low to rise again.                                                    *)
FeesFollowLoad ==
    [][executing = "extrinsics" /\ executing' = "hooks" =>
        /\ multiplier' >= MinimumMultiplier
        /\ used["normal"] = NormalMax => multiplier' > multiplier
        /\ used["normal"] >= Target => multiplier' >= multiplier
        /\ used["normal"] < Target => multiplier' <= multiplier]_loadVars
=============================================================================
