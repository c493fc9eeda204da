---------------------------- MODULE RuntimeProofs ----------------------------
(***************************************************************************)
(* The fees, the weights of the blocks and the eras of the runtime, for all *)
(* of their parameters, and all of its parts together.                     *)
(***************************************************************************)
EXTENDS MCRuntime, GovernanceProofs

-----------------------------------------------------------------------------
(***************************************************************************)
(* FeesConserved for every existential deposit, every fund and every set   *)
(* of prices.  What is added to make it inductive: nothing is in the hands *)
(* of the fee handler while no extrinsic is under way, and the treasury is *)
(* never below the existential deposit, so that what it is given is never  *)
(* dropped.                                                                *)
(***************************************************************************)

Books == [charged : Nat, treasury : Nat, author : Nat, burned : Nat, count : Nat]

FeeTyped ==
    /\ free \in [Holders -> Nat] /\ issuance \in Int /\ author \in BOOLEAN
    /\ charge \in [fee : Nat, tip : Nat, open : BOOLEAN]
    /\ books \in Books

FeeIInv ==
    /\ FeeTyped
    /\ ~charge.open => charge = NoCharge
    /\ free["treasury"] >= ExistentialDeposit
    /\ FeesConserved

-----------------------------------------------------------------------------
(* The two shares of an amount are all of it, and the first is four fifths   *)
(* of it up to a unit (lib.rs, DealWithFees).                                *)
LEMMA RationExact ==
    ASSUME NEW amount \in Nat
    PROVE  LET r == Ration(amount)
           IN  /\ r.treasury \in Nat /\ r.author \in Nat
               /\ r.treasury + r.author = amount
               /\ 5 * r.treasury <= 4 * amount
               /\ 5 * r.treasury >= 4 * amount - 4
<1> DEFINE first == (amount * 80) \div 100
<1>1. /\ first \in Nat /\ amount - first \in Nat
      /\ 5 * first <= 4 * amount
      /\ 5 * first >= 4 * amount - 4
  OBVIOUS
<1> HIDE DEF first
<1>2. Ration(amount).treasury = first /\ Ration(amount).author = amount - first
  BY DEF Ration, first
<1>3. first + (amount - first) = amount
  BY <1>1
<1> QED
  BY <1>1, <1>2, <1>3

(* What the treasury and the author get adds up to the fee and the tip. *)
LEMMA SharesExact ==
    ASSUME NEW fee \in Nat, NEW tip \in Nat
    PROVE  LET s == Shares(fee, tip)
           IN  /\ s.treasury \in Nat /\ s.author \in Nat
               /\ s.treasury + s.author = fee + tip
               /\ 5 * s.treasury <= 4 * (fee + tip)
               /\ 5 * s.treasury >= 4 * (fee + tip) - 8
<1> DEFINE f == Ration(fee)  t == Ration(tip)
<1>1. /\ f.treasury \in Nat /\ f.author \in Nat /\ f.treasury + f.author = fee
      /\ 5 * f.treasury <= 4 * fee /\ 5 * f.treasury >= 4 * fee - 4
  BY RationExact
<1>2. /\ t.treasury \in Nat /\ t.author \in Nat /\ t.treasury + t.author = tip
      /\ 5 * t.treasury <= 4 * tip /\ 5 * t.treasury >= 4 * tip - 4
  BY RationExact
<1>3. /\ Shares(fee, tip).treasury = f.treasury + t.treasury
      /\ Shares(fee, tip).author = f.author + t.author
  BY DEF Shares
<1> HIDE DEF f, t
<1> QED
  BY <1>1, <1>2, <1>3

-----------------------------------------------------------------------------
(* At first the issuance is what the accounts hold. *)
LEMMA FeeInitInv == FeeInit => FeeIInv
BY FeesAssumption
   DEF FeeInit, FeeIInv, FeeTyped, Books, FeesConserved, NoCharge, Holders

(* Every withdrawal, spend and deposit, and every new block, keeps it. *)
LEMMA FeeStepInv == FeeIInv /\ [FeeNext]_feeVars => FeeIInv'
<1> SUFFICES ASSUME FeeIInv, [FeeNext]_feeVars PROVE FeeIInv'
  OBVIOUS
<1> USE FeesAssumption
<1>1. CASE NextBlock
  BY <1>1 DEF NextBlock, FeeIInv, FeeTyped, FeesConserved
<1>2. ASSUME NEW fee \in Prices, NEW tip \in Prices, Withdraw(fee, tip) PROVE FeeIInv'
  <2>1. fee \in Nat /\ tip \in Nat
    OBVIOUS
  <2>2. charge.fee = 0 /\ charge.tip = 0
    BY <1>2 DEF Withdraw, FeeIInv, NoCharge
  <2>3. /\ free'["payer"] = free["payer"] - (fee + tip)
        /\ free'["treasury"] = free["treasury"] /\ free'["author"] = free["author"]
        /\ free' \in [Holders -> Nat]
    BY <1>2, <2>1 DEF Withdraw, FeeIInv, FeeTyped, Holders
  <2>4. charge'.fee = fee /\ charge'.tip = tip /\ charge'.open
        /\ charge' \in [fee : Nat, tip : Nat, open : BOOLEAN]
    BY <1>2, <2>1 DEF Withdraw
  <2>5. free["payer"] \in Nat /\ free["treasury"] \in Nat /\ free["author"] \in Nat
    BY DEF FeeIInv, FeeTyped, Holders
  <2>6. UNCHANGED <<issuance, author, books>>
    BY <1>2 DEF Withdraw
  <2>7. FeesConserved'
    BY <2>1, <2>2, <2>3, <2>4, <2>5, <2>6 DEF FeeIInv, FeeTyped, FeesConserved
  <2> QED
    BY <2>3, <2>4, <2>6, <2>7 DEF FeeIInv, FeeTyped
<1>3. CASE SpendAll
  <2>1. free["payer"] \in Nat /\ free["treasury"] \in Nat /\ free["author"] \in Nat
    BY DEF FeeIInv, FeeTyped, Holders
  <2>2. /\ free'["payer"] = 0
        /\ free'["treasury"] = free["treasury"] + free["payer"]
        /\ free'["author"] = free["author"]
        /\ free' \in [Holders -> Nat]
    BY <1>3, <2>1 DEF SpendAll, FeeIInv, FeeTyped, Holders
  <2>3. UNCHANGED <<issuance, author, charge, books>>
    BY <1>3 DEF SpendAll
  <2>4. FeesConserved'
    BY <2>1, <2>2, <2>3 DEF FeeIInv, FeeTyped, FeesConserved
  <2> QED
    BY <2>1, <2>2, <2>3, <2>4 DEF FeeIInv, FeeTyped
<1>4. ASSUME NEW actual \in Prices, Deposit(actual) PROVE FeeIInv'
  <2> DEFINE refund == IF free["payer"] = 0 THEN 0 ELSE charge.fee - actual
             paid == charge.fee + charge.tip - refund
             shares == Shares(paid - charge.tip, charge.tip)
             treasury == Credited(free["treasury"], shares.treasury)
             authors == IF author THEN Credited(free["author"], shares.author) ELSE 0
             dropped == shares.treasury + shares.author - treasury - authors
  <2>1. /\ free["payer"] \in Nat /\ free["treasury"] \in Nat /\ free["author"] \in Nat
        /\ free["treasury"] > 0
        /\ charge.fee \in Nat /\ charge.tip \in Nat /\ actual \in Nat /\ actual <= charge.fee
        /\ issuance \in Int
        /\ books.charged \in Nat /\ books.treasury \in Nat /\ books.author \in Nat
        /\ books.burned \in Nat /\ books.count \in Nat
    BY <1>4 DEF Deposit, FeeIInv, FeeTyped, Holders, Books
  <2>2. /\ free'["payer"] = free["payer"] + refund
        /\ free'["treasury"] = free["treasury"] + treasury
        /\ free'["author"] = free["author"] + authors
        /\ issuance' = issuance - dropped
        /\ books' = [charged |-> books.charged + paid, treasury |-> books.treasury + treasury,
                     author |-> books.author + authors, burned |-> books.burned + dropped,
                     count |-> books.count + 1]
        /\ charge' = NoCharge /\ author' = author
        /\ DOMAIN free' = Holders
        /\ free' = [h \in Holders |-> free'[h]]
    BY <1>4 DEF Deposit, Holders
  <2>3. refund \in Nat /\ refund <= charge.fee /\ paid \in Nat
        /\ paid - charge.tip \in Nat
    BY <2>1
  <2>4. /\ shares.treasury \in Nat /\ shares.author \in Nat
        /\ shares.treasury + shares.author = paid
        /\ 5 * shares.treasury <= 4 * paid
        /\ 5 * shares.treasury >= 4 * paid - 8
    <3>1. (paid - charge.tip) + charge.tip = paid
      BY <2>1, <2>3
    <3> HIDE DEF paid
    <3> QED
      BY <3>1, <2>1, <2>3, SharesExact
  <2> HIDE DEF shares
  <2>5. treasury = shares.treasury
    BY <2>1 DEF Credited
  <2>6. authors \in Nat /\ authors <= shares.author
    BY <2>4 DEF Credited
  <2>7. dropped \in Nat /\ dropped = shares.author - authors
    BY <2>4, <2>5, <2>6
  <2> HIDE DEF treasury, authors, dropped, paid, refund
  <2>8. paid = charge.fee + charge.tip - refund
    BY DEF paid
  <2>9. free' \in [Holders -> Nat] /\ free'["treasury"] >= ExistentialDeposit
    BY <2>1, <2>2, <2>3, <2>4, <2>5, <2>6 DEF Holders, FeeIInv
  <2>10. books' \in Books
    BY <2>1, <2>2, <2>3, <2>4, <2>5, <2>6, <2>7 DEF Books
  <2>11. /\ books'.charged = books.charged + paid
         /\ books'.treasury = books.treasury + treasury
         /\ books'.author = books.author + authors /\ books'.burned = books.burned + dropped
         /\ books'.count = books.count + 1
         /\ charge'.fee = 0 /\ charge'.tip = 0
    BY <2>2 DEF NoCharge
  <2>12. FeesConserved'
    <3>1. free["payer"] + free["treasury"] + free["author"] + charge.fee + charge.tip
            = issuance
          /\ books.charged = books.treasury + books.author + books.burned
          /\ 5 * books.treasury <= 4 * books.charged
          /\ 5 * books.treasury >= 4 * books.charged - 8 * books.count
      BY DEF FeeIInv, FeesConserved
    <3>2. free'["payer"] + free'["treasury"] + free'["author"] + charge'.fee + charge'.tip
            = issuance'
      <4>1. /\ free'["payer"] = free["payer"] + refund
            /\ free'["treasury"] = free["treasury"] + treasury
            /\ free'["author"] = free["author"] + authors
            /\ issuance' = issuance - dropped
        BY <2>2
      <4>2. treasury \in Nat /\ refund + treasury + authors + dropped = charge.fee + charge.tip
        BY <2>1, <2>3, <2>4, <2>5, <2>6, <2>7, <2>8
      <4>3. charge'.fee = 0 /\ charge'.tip = 0
        BY <2>11
      <4> QED
        BY <3>1, <2>1, <2>3, <2>6, <2>7, <4>1, <4>2, <4>3
    <3>3. books'.charged = books'.treasury + books'.author + books'.burned
      BY <3>1, <2>1, <2>3, <2>4, <2>5, <2>6, <2>7, <2>11
    <3>4. 5 * books'.treasury <= 4 * books'.charged
          /\ 5 * books'.treasury >= 4 * books'.charged - 8 * books'.count
      BY <3>1, <2>1, <2>3, <2>4, <2>5, <2>11
    <3> QED
      BY <3>2, <3>3, <3>4 DEF FeesConserved
  <2> QED
    BY <2>1, <2>2, <2>7, <2>9, <2>10, <2>12 DEF FeeIInv, FeeTyped, NoCharge
<1>5. CASE UNCHANGED feeVars
  BY <1>5 DEF feeVars, FeeIInv, FeeTyped, FeesConserved
<1> QED
  BY <1>1, <1>2, <1>3, <1>4, <1>5 DEF FeeNext

-----------------------------------------------------------------------------
(* No fee and no tip is lost or made up, whatever the rounding, a missing    *)
(* author and the existential deposit do (lib.rs, DealWithFees).             *)
THEOREM FeesSafe == FeeSpec => []FeesConserved
<1>1. FeeIInv => FeesConserved
  BY DEF FeeIInv
<1> QED
  BY <1>1, FeeInitInv, FeeStepInv, PTL DEF FeeSpec

-----------------------------------------------------------------------------
(***************************************************************************)
(* BlocksFit for every set of weights and whatever the multiplier is.      *)
(***************************************************************************)

LoadIInv ==
    /\ used \in [Classes -> Nat]
    /\ used["normal"] <= NormalMax
    /\ used["normal"] + used["operational"] <= MAXIMUM_BLOCK_WEIGHT

-----------------------------------------------------------------------------
(* The limits that RuntimeBlockWeights builds, in the unit of the model. *)
LEMMA Limits ==
    /\ MAXIMUM_BLOCK_WEIGHT = 20 /\ NormalMax = 15 /\ AverageOnInitialize = 2
    /\ MaxTotal("normal") = 15 /\ MaxTotal("operational") = 20
    /\ Reserved("normal") = 0 /\ Reserved("operational") = 5
    /\ MaxExtrinsic("operational") = 17
BY DEF MAXIMUM_BLOCK_WEIGHT, NormalMax, AverageOnInitialize, MaxTotal, Reserved,
       MaxExtrinsic, BaseExtrinsic

(* What an extrinsic that fits leaves: the reserve is for the operational    *)
(* ones, and they for it, once the block has reached its maximum.            *)
LEMMA FitsKeeps ==
    ASSUME LoadIInv, NEW class \in Classes, NEW w \in Nat, Fits(class, w),
           NEW after, after = [used EXCEPT ![class] = @ + w + BaseExtrinsic]
    PROVE  /\ after \in [Classes -> Nat]
           /\ after["normal"] <= NormalMax
           /\ after["normal"] + after["operational"] <= MAXIMUM_BLOCK_WEIGHT
<1>1. /\ used["normal"] \in Nat /\ used["operational"] \in Nat /\ used["mandatory"] \in Nat
  BY DEF LoadIInv, Classes
<1>2. after \in [Classes -> Nat]
  BY DEF LoadIInv, Classes, BaseExtrinsic
<1>3. /\ Within(after[class], MaxTotal(class))
      /\ Total(after) > MAXIMUM_BLOCK_WEIGHT => Within(after[class], Reserved(class))
  BY DEF Fits
<1>4. CASE class = "normal"
  <2>1. after["normal"] = used["normal"] + w + 1
        /\ after["operational"] = used["operational"] /\ after["mandatory"] \in Nat
    BY <1>1, <1>2, <1>4 DEF LoadIInv, Classes, BaseExtrinsic
  <2>2. after["normal"] <= 15 /\ (Total(after) > 20 => after["normal"] <= 0)
    BY <1>3, <1>4, <2>1, <1>1, Limits DEF Within, Unlimited
  <2> QED
    BY <1>1, <1>2, <2>1, <2>2, Limits DEF Total
<1>5. CASE class = "operational"
  <2>1. after["operational"] = used["operational"] + w + 1
        /\ after["normal"] = used["normal"] /\ after["mandatory"] \in Nat
    BY <1>1, <1>2, <1>5 DEF LoadIInv, Classes, BaseExtrinsic
  <2>2. after["operational"] <= 20 /\ (Total(after) > 20 => after["operational"] <= 5)
    BY <1>3, <1>5, <2>1, <1>1, Limits DEF Within, Unlimited
  <2>3. used["normal"] <= 15
    BY Limits DEF LoadIInv
  <2> QED
    BY <1>1, <1>2, <2>1, <2>2, <2>3, Limits DEF Total
<1>6. CASE class = "mandatory"
  <2>1. after["operational"] = used["operational"] /\ after["normal"] = used["normal"]
    BY <1>6 DEF LoadIInv, Classes
  <2> QED
    BY <1>2, <2>1 DEF LoadIInv
<1> QED
  BY <1>4, <1>5, <1>6 DEF Classes

-----------------------------------------------------------------------------
(* A block starts with what the hooks take, and nothing of normal or operational weight. *)
LEMMA EmptyFits == Empty \in [Classes -> Nat] /\ Empty["normal"] = 0 /\ Empty["operational"] = 0
BY DEF Empty, Classes

(* The first block starts empty. *)
LEMMA LoadInitInv == LoadInit => LoadIInv
BY EmptyFits, Limits DEF LoadInit, LoadIInv

(* What the author adds, and the end of a block, keep every class in its limits. *)
LEMMA LoadStepInv == LoadIInv /\ [LoadNext]_loadVars => LoadIInv'
<1> SUFFICES ASSUME LoadIInv, [LoadNext]_loadVars PROVE LoadIInv'
  OBVIOUS
<1>1. ASSUME NEW scheduled \in {0, MaximumSchedulerWeight},
             NEW deleted \in {0, DeletionWeightLimit}, Hooks(scheduled, deleted)
      PROVE  LoadIInv'
  <2>1. scheduled + deleted \in Nat
    BY DEF MaximumSchedulerWeight, DeletionWeightLimit, AverageOnInitialize,
           MAXIMUM_BLOCK_WEIGHT
  <2>2. used' = [used EXCEPT !["mandatory"] = scheduled + deleted]
    BY <1>1 DEF Hooks
  <2>3. used' \in [Classes -> Nat] /\ used'["normal"] = used["normal"]
        /\ used'["operational"] = used["operational"]
    BY <2>1, <2>2 DEF LoadIInv, Classes
  <2> QED
    BY <2>3 DEF LoadIInv
<1>2. ASSUME NEW class \in Classes, NEW w \in Weights, Apply(class, w)
      PROVE  LoadIInv'
  <2>1. w \in Nat
    BY MultiplierAssumption
  <2>2. Fits(class, w) /\ used' = [used EXCEPT ![class] = @ + w + BaseExtrinsic]
    BY <1>2 DEF Apply
  <2> QED
    BY <2>1, <2>2, FitsKeeps DEF LoadIInv
<1>3. CASE Finalize
  <2>1. used' = Empty
    BY <1>3 DEF Finalize
  <2> QED
    BY <2>1, EmptyFits, Limits DEF LoadIInv
<1>4. CASE UNCHANGED loadVars
  BY <1>4 DEF loadVars, LoadIInv
<1> QED
  BY <1>1, <1>2, <1>3, <1>4 DEF LoadNext

(* The reserve of the operational extrinsics is always there for them.       *)
LEMMA ReserveIsKept ==
    ASSUME LoadIInv, NEW w \in Weights,
           used["operational"] + w + BaseExtrinsic <= MAXIMUM_BLOCK_WEIGHT - NormalMax
    PROVE  Fits("operational", w)
<1> DEFINE after == [used EXCEPT !["operational"] = @ + w + BaseExtrinsic]
<1>1. w \in Nat /\ used["operational"] \in Nat
  BY MultiplierAssumption DEF LoadIInv, Classes
<1>2. after["operational"] = used["operational"] + w + 1
  BY DEF LoadIInv, Classes, BaseExtrinsic
<1>3. after["operational"] <= 5 /\ w <= 17
  BY <1>1, <1>2, Limits DEF BaseExtrinsic
<1>4. /\ Within(w, MaxExtrinsic("operational"))
      /\ Within(after["operational"], MaxTotal("operational"))
      /\ Within(after["operational"], Reserved("operational"))
  BY <1>1, <1>2, <1>3, Limits DEF Within
<1> HIDE DEF after
<1>5. Fits("operational", w) <=>
        /\ Within(w, MaxExtrinsic("operational"))
        /\ Within(after["operational"], MaxTotal("operational"))
        /\ Total(after) > MAXIMUM_BLOCK_WEIGHT
            => Within(after["operational"], Reserved("operational"))
  BY DEF Fits, after
<1> QED
  BY <1>4, <1>5

-----------------------------------------------------------------------------
(* What the author chooses fits in the block, and the reserve is kept,       *)
(* whatever the hooks took (lib.rs, RuntimeBlockWeights).                    *)
THEOREM BlocksSafe == LoadSpec => []BlocksFit
<1>1. LoadIInv => BlocksFit
  BY ReserveIsKept DEF LoadIInv, BlocksFit
<1> QED
  BY <1>1, LoadInitInv, LoadStepInv, PTL DEF LoadSpec

-----------------------------------------------------------------------------
(***************************************************************************)
(* FeesFollowLoad for every accuracy, every least multiplier that can grow *)
(* and every adjustment variable up to one.  The products and quotients of *)
(* the adjustment are of unknowns: what their proofs need is said once.    *)
(***************************************************************************)

(* A product of naturals grows with its factors. *)
LEMMA ProductMonotone ==
    ASSUME NEW a \in Nat, NEW b \in Nat, NEW c \in Nat, NEW d \in Nat, a <= b, c <= d
    PROVE  a * c \in Nat /\ b * d \in Nat /\ a * c <= b * d
OBVIOUS

(* A quotient is at most any number whose product is not exceeded. *)
LEMMA QuotientAtMost ==
    ASSUME NEW a \in Int, NEW b \in Int, NEW n \in Nat \ {0}, a <= b * n
    PROVE  a \div n \in Int /\ a \div n <= b
OBVIOUS

(* And at least any whose product is reached. *)
LEMMA QuotientAtLeast ==
    ASSUME NEW a \in Int, NEW b \in Int, NEW n \in Nat \ {0}, a >= b * n
    PROVE  a \div n \in Int /\ a \div n >= b
OBVIOUS

(* Dividing by the accuracy a product with a factor that is at most the      *)
(* accuracy does not exceed the other factor.                                *)
LEMMA ScaledAtMost ==
    ASSUME NEW a \in Nat, NEW b \in Nat, b <= Accuracy
    PROVE  (a * b) \div Accuracy \in Nat /\ (a * b) \div Accuracy <= a
<1>1. Accuracy \in Nat \ {0}
  BY MultiplierAssumption
<1>2. a * b \in Nat /\ a * b <= a * Accuracy
  BY <1>1, ProductMonotone
<1>3. (a * b) \div Accuracy \in Int /\ (a * b) \div Accuracy <= a
  BY <1>1, <1>2, QuotientAtMost
<1>4. a * b >= 0 * Accuracy
  BY <1>1, <1>2
<1>5. (a * b) \div Accuracy >= 0
  BY <1>1, <1>2, <1>4, QuotientAtLeast
<1> QED
  BY <1>3, <1>5

(* A share of the normal weight is at most one (lib.rs, TargetBlockFullness). *)
LEMMA ShareAtMostOne ==
    ASSUME NEW d \in 0 .. 15
    PROVE  Share(d) \in Nat /\ Share(d) <= Accuracy
<1>1. Accuracy \in Nat /\ d \in Nat /\ d <= 15
  BY MultiplierAssumption
<1>2. Accuracy * d \in Nat /\ Accuracy * d <= Accuracy * 15
  BY <1>1, ProductMonotone
<1> DEFINE part == Accuracy * d
<1>3. Share(d) = part \div 15
  BY Limits DEF Share
<1> HIDE DEF part
<1>4. part \in Nat /\ part <= Accuracy * 15
  BY <1>2 DEF part
<1> QED
  BY <1>1, <1>3, <1>4

(* The second term of the adjustment does not outweigh the first, so that    *)
(* the sign of the adjustment is that of the difference from the target.     *)
LEMMA TermsOrdered ==
    ASSUME NEW d \in 0 .. 15
    PROVE  /\ FirstTerm(d) \in Nat /\ SecondTerm(d) \in Nat
           /\ SecondTerm(d) <= FirstTerm(d)
<1> DEFINE s == Share(d)
           A == Accuracy
           V == AdjustmentVariable
           v == (V * V) \div A
           h == v \div 2
           q == (s * s) \div A
<1>1. /\ A \in Nat \ {0} /\ V \in Nat /\ V <= A /\ s \in Nat /\ s <= A
  BY MultiplierAssumption, ShareAtMostOne
<1>2. FirstTerm(d) = (V * s) \div A /\ SecondTerm(d) = (h * q) \div A
  BY DEF FirstTerm, SecondTerm
<1>3. v \in Nat /\ v <= V
  BY <1>1, ScaledAtMost
<1>4. q \in Nat /\ q <= s
  BY <1>1, ScaledAtMost
<1> HIDE DEF v, q, s
<1>5. h \in Nat /\ h <= V
  BY <1>1, <1>3
<1> HIDE DEF h
<1>6. h * q \in Nat /\ V * s \in Nat /\ h * q <= V * s
  BY <1>1, <1>4, <1>5, ProductMonotone
<1> DEFINE least == h * q
           most == V * s
<1>7. least \in Nat /\ most \in Nat /\ least <= most
  BY <1>6
<1> HIDE DEF least, most
<1>8. least \div A \in Nat /\ most \div A \in Nat /\ least \div A <= most \div A
  BY <1>1, <1>7
<1> QED
  BY <1>2, <1>8 DEF least, most

(* The first term of a full block: three quarters of the adjustment          *)
(* variable at least, for four fifths of the normal weight are too much.     *)
LEMMA FullBlockTerm == FirstTerm(12) >= (AdjustmentVariable * 3) \div 4
<1> DEFINE s == Share(12)
           A == Accuracy
           V == AdjustmentVariable
           q == (V * 3) \div 4
<1>1. /\ A \in Nat /\ A >= 16 /\ V \in Nat
  BY MultiplierAssumption
<1>2. s = (A * 12) \div 15
  BY Limits DEF Share
<1>3. s \in Nat /\ 3 * A <= 4 * s
  BY <1>1, <1>2
<1>4. q \in Nat /\ 4 * q <= 3 * V
  BY <1>1
<1> HIDE DEF s, q
<1>5. (4 * q) * A <= (3 * V) * A
  BY <1>1, <1>4, ProductMonotone
<1>6. V * (3 * A) <= V * (4 * s)
  BY <1>1, <1>3, ProductMonotone
<1>7. q * A \in Int /\ V * s \in Int /\ V * s >= q * A
  <2>1. (4 * q) * A = 4 * (q * A) /\ (3 * V) * A = V * (3 * A) /\ V * (4 * s) = 4 * (V * s)
    BY <1>1, <1>3, <1>4
  <2>2. q * A \in Int /\ V * s \in Int
    BY <1>1, <1>3, <1>4
  <2>3. 4 * (q * A) <= 4 * (V * s)
    BY <1>5, <1>6, <2>1, <2>2, <1>1
  <2> QED
    BY <2>2, <2>3
<1>8. (V * s) \div A >= q
  BY <1>1, <1>4, <1>7, QuotientAtLeast
<1> QED
  BY <1>8 DEF FirstTerm, s, q

-----------------------------------------------------------------------------
LoadTyped ==
    /\ LoadIInv /\ executing \in {"hooks", "extrinsics"}
    /\ multiplier \in Nat /\ multiplier >= MinimumMultiplier

(* What a block whose normal weight is given does to the multiplier.         *)
LEMMA AdjustmentFollows ==
    ASSUME NEW m \in Nat, m >= MinimumMultiplier, NEW w \in 0 .. NormalMax
    PROVE  /\ Adjusted(m, w) \in Nat /\ Adjusted(m, w) >= MinimumMultiplier
           /\ w = NormalMax => Adjusted(m, w) > m
           /\ w >= Target => Adjusted(m, w) >= m
           /\ w < Target => Adjusted(m, w) <= m
<1>0. /\ Target = 3 /\ NormalMax = 15 /\ MinimumMultiplier \in Nat
      /\ Accuracy \in Nat \ {0} /\ w \in Nat /\ w <= 15
  BY Limits, MultiplierAssumption DEF Target
<1>1. ASSUME NEW x \in Int
      PROVE  /\ AtLeastMinimum(x) \in Nat /\ AtLeastMinimum(x) >= MinimumMultiplier
             /\ AtLeastMinimum(x) >= x
             /\ x <= m => AtLeastMinimum(x) <= m
  BY <1>0 DEF AtLeastMinimum
<1>2. CASE w >= Target
  <2> DEFINE d == w - Target
             f == FirstTerm(d) + SecondTerm(d)
             step == (m * f) \div Accuracy
  <2>1. d \in 0 .. 15 /\ (w = NormalMax => d = 12)
    BY <1>0, <1>2
  <2>2. Adjusted(m, w) = AtLeastMinimum(m + step)
    BY <1>2 DEF Adjusted
  <2>3. FirstTerm(d) \in Nat /\ SecondTerm(d) \in Nat
    BY <2>1, TermsOrdered
  <2>4. f \in Nat /\ FirstTerm(d) <= f
    BY <2>3
  <2> HIDE DEF f
  <2>5. m * f \in Nat /\ m * f >= 0 * Accuracy
    BY <1>0, <2>4, ProductMonotone
  <2>6. step \in Int /\ step >= 0
    BY <1>0, <2>5, QuotientAtLeast
  <2>7. ASSUME w = NormalMax PROVE step >= 1
    <3> DEFINE q == (AdjustmentVariable * 3) \div 4
    <3>1. q \in Nat /\ MinimumMultiplier * q >= Accuracy
      BY MultiplierAssumption
    <3>2. q <= f
      BY <2>1, <2>3, <2>4, <2>7, <3>1, FullBlockTerm
    <3> HIDE DEF q
    <3>3. MinimumMultiplier * q <= m * f
      BY <1>0, <2>4, <3>1, <3>2, ProductMonotone
    <3>4. MinimumMultiplier * q \in Nat
      BY <1>0, <2>4, <3>1, <3>2, ProductMonotone
    <3>5. m * f >= 1 * Accuracy
      BY <1>0, <2>5, <3>1, <3>3, <3>4
    <3> QED
      BY <1>0, <2>5, <3>5, QuotientAtLeast
  <2> HIDE DEF step, d
  <2>8. /\ Adjusted(m, w) \in Nat /\ Adjusted(m, w) >= MinimumMultiplier
        /\ Adjusted(m, w) >= m + step
    BY <1>1, <2>2, <2>6
  <2> QED
    BY <1>0, <1>2, <2>6, <2>7, <2>8
<1>3. CASE w < Target
  <2> DEFINE d == Target - w
             f == FirstTerm(d) - SecondTerm(d)
             step == (m * f) \div Accuracy
  <2>1. d \in 0 .. 15
    BY <1>0, <1>3
  <2>2. Adjusted(m, w) = AtLeastMinimum(m - step)
    BY <1>0, <1>3 DEF Adjusted
  <2>3. f \in Nat
    BY <2>1, TermsOrdered
  <2> HIDE DEF f
  <2>4. m * f \in Nat /\ m * f >= 0 * Accuracy
    BY <1>0, <2>3, ProductMonotone
  <2>5. step \in Int /\ step >= 0
    BY <1>0, <2>4, QuotientAtLeast
  <2> HIDE DEF step
  <2>6. Adjusted(m, w) \in Nat /\ Adjusted(m, w) >= MinimumMultiplier /\ Adjusted(m, w) <= m
    BY <1>1, <2>2, <2>5
  <2> QED
    BY <1>0, <1>3, <2>6
<1> QED
  BY <1>0, <1>2, <1>3

(* on_finalize moves the multiplier with the fullness of the block that ends. *)
LEMMA FinalizeFollows ==
    ASSUME LoadTyped, Finalize
    PROVE  /\ multiplier' = Adjusted(multiplier, used["normal"])
           /\ multiplier' \in Nat /\ multiplier' >= MinimumMultiplier
           /\ used["normal"] \in 0 .. NormalMax
<1>1. used["normal"] \in 0 .. NormalMax
  BY Limits DEF LoadTyped, LoadIInv, Classes
<1>2. multiplier' = Adjusted(multiplier, used["normal"])
  BY DEF Finalize
<1> QED
  BY <1>1, <1>2, AdjustmentFollows DEF LoadTyped

(* The multiplier is never below its least value, and the blocks fit.        *)
LEMMA LoadInvariance == LoadSpec => []LoadTyped
<1>1. LoadInit => LoadTyped
  BY LoadInitInv, MultiplierAssumption DEF LoadInit, LoadTyped
<1>2. LoadTyped /\ [LoadNext]_loadVars => LoadTyped'
  <2> SUFFICES ASSUME LoadTyped, [LoadNext]_loadVars PROVE LoadTyped'
    OBVIOUS
  <2>1. LoadIInv'
    BY LoadStepInv DEF LoadTyped
  <2>2. CASE Finalize
    BY <2>1, <2>2, FinalizeFollows DEF Finalize, LoadTyped
  <2>3. CASE ~Finalize
    BY <2>1, <2>3 DEF LoadNext, Hooks, Apply, loadVars, LoadTyped
  <2> QED
    BY <2>2, <2>3
<1> QED
  BY <1>1, <1>2, PTL DEF LoadSpec

(* LoadTypeOK: the weights of the classes and the multiplier stay numbers    *)
(* that are not negative (lib.rs, RuntimeBlockWeights).                      *)
THEOREM LoadIsTyped == LoadSpec => []LoadTypeOK
<1>1. LoadTyped => LoadTypeOK
  BY DEF LoadTyped, LoadIInv, LoadTypeOK
<1> QED
  BY <1>1, LoadInvariance, PTL

(* FeesFollowLoad: after a full block the fees rise, and they move with the  *)
(* load from then on (lib.rs, SlowAdjustingFeeUpdate): the integer division  *)
(* never holds them at their least value.                                    *)
THEOREM FeesMoveWithLoad == LoadSpec => FeesFollowLoad
<1> DEFINE Follows ==
        executing = "extrinsics" /\ executing' = "hooks" =>
            /\ multiplier' >= MinimumMultiplier
            /\ used["normal"] = NormalMax => multiplier' > multiplier
            /\ used["normal"] >= Target => multiplier' >= multiplier
            /\ used["normal"] < Target => multiplier' <= multiplier
<1>1. LoadTyped /\ [LoadNext]_loadVars => [Follows]_loadVars
  <2> SUFFICES ASSUME LoadTyped, LoadNext, executing = "extrinsics", executing' = "hooks"
               PROVE  Follows
    BY DEF loadVars
  <2>1. Finalize
    BY DEF LoadNext, Hooks, Apply
  <2>2. /\ multiplier' = Adjusted(multiplier, used["normal"])
        /\ multiplier' >= MinimumMultiplier /\ used["normal"] \in 0 .. NormalMax
    BY <2>1, FinalizeFollows
  <2> QED
    BY <2>2, AdjustmentFollows DEF LoadTyped
<1>2. LoadSpec => [][Follows]_loadVars
  BY <1>1, LoadInvariance, PTL DEF LoadSpec
<1> QED
  BY <1>2, PTL DEF FeesFollowLoad

-----------------------------------------------------------------------------
(***************************************************************************)
(* ErasSound for every length of an epoch and of an era, as long as fewer  *)
(* slots in a row stay empty than a phase has blocks.  The invariant says  *)
(* how the phases an election has had follow from what remains until it:   *)
(* no block can step over a phase, since each is at least a quarter of an  *)
(* epoch, and a new session always starts with more than both ahead.       *)
(***************************************************************************)

Both == {"signed", "unsigned"}

(* What remains at a slot of a session, within the epoch. *)
RemainingIn(s, at) ==
    (EpochDuration - at) + (IF s + 2 >= SessionsPerEra THEN 0 ELSE SessionsPerEra - s - 2)
                             * EpochDuration

Clock ==
    /\ slot \in 0 .. EpochDuration - 1 /\ session \in Int
    /\ activeEra \in Int /\ plannedEra \in Int /\ startsIn \in 0 .. 1

Keys ==
    /\ validators = activeEra /\ queuedKeys = plannedEra
    /\ plannedEra - activeEra = startsIn

PhasesFollow ==
    /\ phase \in {"off", "signed", "unsigned", "emergency"} /\ phases \subseteq Both
    /\ phase = "signed" => "signed" \in phases
    /\ phase \in {"unsigned", "emergency"} => phases = Both
    /\ RemainingIn(session, slot) <= 2 * UnsignedPhase => "signed" \in phases
    /\ RemainingIn(session, slot) <= UnsignedPhase => "unsigned" \in phases

EraIInv == Clock /\ Keys /\ PhasesFollow

-----------------------------------------------------------------------------
(* The epoch, its two phases and the empty slots between blocks, as numbers. *)
LEMMA Durations ==
    /\ EpochDuration \in Nat /\ EpochDuration >= 4 /\ SessionsPerEra \in Nat
    /\ UnsignedPhase \in Nat /\ UnsignedPhase >= 1 /\ SignedPhase = UnsignedPhase
    /\ 4 * UnsignedPhase <= EpochDuration
    /\ MaxSkip \in Nat /\ MaxSkip < UnsignedPhase
<1>1. EpochDuration \in Nat /\ EpochDuration >= 4 /\ SessionsPerEra \in Nat /\ MaxSkip \in Nat
      /\ MaxSkip < EpochDuration \div 4
  BY EraAssumption
<1>2. EpochDuration \div 4 \in Nat /\ EpochDuration \div 4 >= 1
      /\ 4 * (EpochDuration \div 4) <= EpochDuration
  BY <1>1
<1> QED
  BY <1>1, <1>2 DEF UnsignedPhase, SignedPhase

(* A session starts with more than three phases ahead. *)
LEMMA FreshSession ==
    ASSUME NEW s \in Int, NEW at \in Nat, at <= MaxSkip
    PROVE  RemainingIn(s, at) \in Int /\ RemainingIn(s, at) > 2 * UnsignedPhase
<1> DEFINE left == IF s + 2 >= SessionsPerEra THEN 0 ELSE SessionsPerEra - s - 2
           rest == left * EpochDuration
<1>1. left \in Nat
  BY Durations
<1>2. rest \in Nat
  BY <1>1, Durations
<1>3. RemainingIn(s, at) = (EpochDuration - at) + rest
  BY DEF RemainingIn
<1> HIDE DEF rest
<1> QED
  BY <1>2, <1>3, Durations

(* Within a session what remains goes down with the slots, by a phase at     *)
(* most from block to block.                                                 *)
LEMMA NextBlockInSession ==
    ASSUME Clock, NEW skip \in 0 .. MaxSkip, slot + 1 + skip < EpochDuration
    PROVE  LET at == slot + 1 + skip
           IN  /\ at \in 0 .. EpochDuration - 1
               /\ Remaining(at) = RemainingIn(session, at)
               /\ Remaining(at) \in Nat \ {0}
               /\ RemainingIn(session, slot) \in Int
               /\ RemainingIn(session, slot) <= Remaining(at) + UnsignedPhase
<1> DEFINE at == slot + 1 + skip
           left == IF session + 2 >= SessionsPerEra THEN 0 ELSE SessionsPerEra - session - 2
           rest == left * EpochDuration
<1>1. /\ slot \in Nat /\ session \in Int /\ skip \in Nat
      /\ at \in 0 .. EpochDuration - 1 /\ at - slot <= UnsignedPhase
  BY Durations DEF Clock
<1>2. left \in Nat
  BY <1>1, Durations
<1>3. rest \in Nat
  BY <1>2, Durations
<1>4. Remaining(at) = (EpochDuration - at) + rest
  <2>1. (session + 1) + 1 = session + 2 /\ SessionsPerEra - (session + 1) - 1
                                              = SessionsPerEra - session - 2
    BY <1>1, Durations
  <2>2. ~(at >= EpochDuration)
    BY <1>1, Durations
  <2> QED
    BY <2>1, <2>2 DEF Remaining
<1>5. /\ RemainingIn(session, at) = (EpochDuration - at) + rest
      /\ RemainingIn(session, slot) = (EpochDuration - slot) + rest
  BY DEF RemainingIn
<1> HIDE DEF at, rest
<1>6. /\ Remaining(at) = RemainingIn(session, at) /\ Remaining(at) \in Nat \ {0}
      /\ RemainingIn(session, slot) \in Int
      /\ RemainingIn(session, slot) <= Remaining(at) + UnsignedPhase
  BY <1>1, <1>3, <1>4, <1>5, Durations
<1> QED
  BY <1>1, <1>6 DEF at

(* The last block of an epoch before a rotation was in the last phase.       *)
LEMMA LastBlock ==
    ASSUME Clock, NEW skip \in 0 .. MaxSkip, slot + 1 + skip >= EpochDuration
    PROVE  /\ (slot + 1 + skip) - EpochDuration \in 0 .. MaxSkip
           /\ (slot + 1 + skip) - EpochDuration \in 0 .. EpochDuration - 1
           /\ session + 2 >= SessionsPerEra
                => RemainingIn(session, slot) <= UnsignedPhase
<1>1. slot \in Nat /\ slot < EpochDuration /\ session \in Int /\ skip \in Nat /\ skip <= MaxSkip
  BY Durations DEF Clock
<1>2. (slot + 1 + skip) - EpochDuration \in 0 .. MaxSkip
      /\ (slot + 1 + skip) - EpochDuration \in 0 .. EpochDuration - 1
  BY <1>1, Durations
<1>3. ASSUME session + 2 >= SessionsPerEra
      PROVE  RemainingIn(session, slot) <= UnsignedPhase
  <2>1. RemainingIn(session, slot) = (EpochDuration - slot) + 0 * EpochDuration
    BY <1>3 DEF RemainingIn
  <2> QED
    BY <2>1, <1>1, Durations
<1> QED
  BY <1>2, <1>3

-----------------------------------------------------------------------------
(* The chain starts with an era and no election. *)
LEMMA EraInitInv == EraInit => EraIInv
<1> SUFFICES ASSUME EraInit PROVE EraIInv
  OBVIOUS
<1>1. slot = 0 /\ session = 0 /\ phase = "off" /\ phases = {}
  BY DEF EraInit
<1>2. RemainingIn(session, slot) \in Int /\ RemainingIn(session, slot) > 2 * UnsignedPhase
  BY <1>1, FreshSession, Durations
<1>3. PhasesFollow
  BY <1>1, <1>2, Durations DEF PhasesFollow
<1>4. Clock /\ Keys
  BY Durations DEF EraInit, Clock, Keys
<1> QED
  BY <1>3, <1>4 DEF EraIInv

(* A rotation: the queued keys become active with the era they were queued   *)
(* for.                                                                      *)
LEMMA RotateKeeps ==
    ASSUME EraIInv, NEW skip \in 0 .. MaxSkip, Rotate(slot + 1 + skip)
    PROVE  /\ slot' \in 0 .. MaxSkip /\ slot' \in 0 .. EpochDuration - 1
           /\ activeEra' = plannedEra /\ validators' = plannedEra
           /\ session + 2 >= SessionsPerEra => phases = Both
<1> DEFINE at == slot + 1 + skip
<1>1. /\ at >= EpochDuration /\ slot' = at - EpochDuration
      /\ validators' = queuedKeys
      /\ startsIn = 1 => activeEra' = plannedEra
      /\ startsIn # 1 => activeEra' = activeEra
  <2>1. Rotate(at)
    OBVIOUS
  <2> HIDE DEF at
  <2>2. CASE startsIn = 1
    BY <2>1, <2>2, Zenon DEF Rotate
  <2>3. CASE startsIn # 1
    BY <2>1, <2>3, Zenon DEF Rotate
  <2> QED
    BY <2>2, <2>3
<1>2. /\ slot' \in 0 .. MaxSkip /\ slot' \in 0 .. EpochDuration - 1
      /\ session + 2 >= SessionsPerEra => RemainingIn(session, slot) <= UnsignedPhase
  <2>1. slot + 1 + skip >= EpochDuration /\ slot' = (slot + 1 + skip) - EpochDuration
    BY <1>1
  <2>2. /\ (slot + 1 + skip) - EpochDuration \in 0 .. MaxSkip
        /\ (slot + 1 + skip) - EpochDuration \in 0 .. EpochDuration - 1
        /\ session + 2 >= SessionsPerEra => RemainingIn(session, slot) <= UnsignedPhase
    BY <2>1, LastBlock DEF EraIInv
  <2> QED
    BY <2>1, <2>2
<1>3. activeEra' = plannedEra /\ validators' = plannedEra
  <2>1. CASE startsIn = 1
    BY <2>1, <1>1 DEF EraIInv, Keys
  <2>2. CASE startsIn = 0
    BY <2>2, <1>1 DEF EraIInv, Keys, Clock
  <2> QED
    BY <2>1, <2>2 DEF EraIInv, Clock
<1>4. session + 2 >= SessionsPerEra => phases = Both
  <2> SUFFICES ASSUME session + 2 >= SessionsPerEra PROVE phases = Both
    OBVIOUS
  <2>1. RemainingIn(session, slot) <= UnsignedPhase
    BY <1>2
  <2>2. RemainingIn(session, slot) = (EpochDuration - slot) + 0 * EpochDuration
    BY DEF RemainingIn
  <2>3. RemainingIn(session, slot) <= 2 * UnsignedPhase
    BY <2>1, <2>2, Durations DEF EraIInv, Clock
  <2> QED
    BY <2>1, <2>3 DEF EraIInv, PhasesFollow, Both
<1> QED
  BY <1>2, <1>3, <1>4

(* No phase opens in the block that ends an epoch.                           *)
LEMMA OpensWithin ==
    ASSUME Clock, NEW STATE at, at \in Nat, at >= EpochDuration
    PROVE  ~OpensSigned(at) /\ ~OpensUnsigned(at)
<1> DEFINE left == IF (session + 1) + 1 >= SessionsPerEra THEN 0
                   ELSE SessionsPerEra - (session + 1) - 1
           rest == left * EpochDuration
<1>1. left \in Nat
  BY Durations DEF Clock
<1>2. Remaining(at) = 0 + rest
  BY DEF Remaining
<1>3. rest = 0 \/ (rest \in Nat /\ rest >= EpochDuration)
  <2> HIDE DEF left
  <2>1. CASE left = 0
    BY <2>1, Durations
  <2>2. CASE left >= 1
    BY <2>2, <1>1, Durations
  <2> QED
    BY <1>1, <2>1, <2>2
<1> HIDE DEF rest
<1> QED
  BY <1>2, <1>3, Durations DEF OpensSigned, OpensUnsigned

-----------------------------------------------------------------------------
(* Every block, with whatever slots are empty before it, keeps the invariant. *)
LEMMA EraStepInv == EraIInv /\ [EraNext]_eraVars => EraIInv'
<1> SUFFICES ASSUME EraIInv, [EraNext]_eraVars PROVE EraIInv'
  OBVIOUS
<1> USE DEF setVars, clockVars, electionVars, stakeVars
<1>1. ASSUME NEW skip \in 0 .. MaxSkip, BlockAt(slot + 1 + skip) PROVE EraIInv'
  <2> DEFINE at == slot + 1 + skip
  <2>1. /\ at < EpochDuration /\ ~OpensSigned(at) /\ ~OpensUnsigned(at) /\ slot' = at
        /\ UNCHANGED <<session, activeEra, plannedEra, startsIn, validators, queuedKeys,
                       phase, phases>>
    BY <1>1 DEF BlockAt
  <2>2. /\ at \in 0 .. EpochDuration - 1
        /\ Remaining(at) = RemainingIn(session, at) /\ Remaining(at) \in Nat \ {0}
        /\ RemainingIn(session, slot) \in Int
        /\ RemainingIn(session, slot) <= Remaining(at) + UnsignedPhase
    BY <2>1, NextBlockInSession DEF EraIInv
  <2>3. /\ ~(phase = "off" /\ Remaining(at) > UnsignedPhase
               /\ Remaining(at) <= 2 * UnsignedPhase)
        /\ ~(phase \in {"off", "signed"} /\ Remaining(at) <= UnsignedPhase)
    <3> HIDE DEF at
    <3> QED
      BY <2>1, <2>2, Durations DEF OpensSigned, OpensUnsigned
  <2> HIDE DEF at
  <2>4. Remaining(at) <= UnsignedPhase => "unsigned" \in phases
    BY <2>3 DEF EraIInv, PhasesFollow, Both
  <2>5. Remaining(at) <= 2 * UnsignedPhase => "signed" \in phases
    <3>1. CASE Remaining(at) <= UnsignedPhase
      <4>1. RemainingIn(session, slot) <= 2 * UnsignedPhase
        BY <2>2, <3>1, Durations
      <4> QED
        BY <4>1 DEF EraIInv, PhasesFollow
    <3>2. CASE Remaining(at) > UnsignedPhase
      BY <2>3, <3>2 DEF EraIInv, PhasesFollow, Both
    <3> QED
      BY <3>1, <3>2, <2>2, Durations
  <2>6. RemainingIn(session', slot') = Remaining(at)
    BY <2>1, <2>2
  <2>7. PhasesFollow'
    BY <2>1, <2>4, <2>5, <2>6 DEF EraIInv, PhasesFollow, UnsignedPhase, RemainingIn
  <2> QED
    BY <2>1, <2>2, <2>7 DEF EraIInv, Clock, Keys
<1>2. ASSUME NEW skip \in 0 .. MaxSkip, StartSigned(slot + 1 + skip) PROVE EraIInv'
  <2> DEFINE at == slot + 1 + skip
  <2>1. /\ OpensSigned(at) /\ slot' = at /\ phase' = "signed"
        /\ phases' = phases \cup {"signed"}
        /\ UNCHANGED <<session, activeEra, plannedEra, startsIn, validators, queuedKeys>>
    BY <1>2 DEF StartSigned
  <2>2. at < EpochDuration
    BY <2>1, OpensWithin, Durations DEF EraIInv, Clock
  <2>3. /\ at \in 0 .. EpochDuration - 1
        /\ Remaining(at) = RemainingIn(session, at) /\ Remaining(at) \in Nat \ {0}
    BY <2>2, NextBlockInSession DEF EraIInv
  <2> HIDE DEF at
  <2>4. Remaining(at) > UnsignedPhase
    BY <2>1, <2>3, Durations DEF OpensSigned
  <2>5. RemainingIn(session', slot') = Remaining(at)
    BY <2>1, <2>3
  <2>6. PhasesFollow'
    BY <2>1, <2>3, <2>4, <2>5, Durations
      DEF EraIInv, PhasesFollow, Both, UnsignedPhase, RemainingIn
  <2> QED
    BY <2>1, <2>3, <2>6 DEF EraIInv, Clock, Keys
<1>3. ASSUME NEW skip \in 0 .. MaxSkip, StartUnsigned(slot + 1 + skip) PROVE EraIInv'
  <2> DEFINE at == slot + 1 + skip
  <2>1. /\ OpensUnsigned(at) /\ slot' = at /\ phase' = "unsigned"
        /\ phases' = phases \cup {"unsigned"}
        /\ UNCHANGED <<session, activeEra, plannedEra, startsIn, validators, queuedKeys>>
    BY <1>3 DEF StartUnsigned
  <2>2. at < EpochDuration
    BY <2>1, OpensWithin, Durations DEF EraIInv, Clock
  <2>3. /\ at \in 0 .. EpochDuration - 1 /\ Remaining(at) \in Nat \ {0}
        /\ RemainingIn(session, slot) \in Int
        /\ RemainingIn(session, slot) <= Remaining(at) + UnsignedPhase
    BY <2>2, NextBlockInSession DEF EraIInv
  <2> HIDE DEF at
  <2>4. RemainingIn(session, slot) <= 2 * UnsignedPhase
    BY <2>1, <2>3, Durations DEF OpensUnsigned
  <2>5. phases' = Both
    BY <2>1, <2>4 DEF EraIInv, PhasesFollow, Both
  <2>6. PhasesFollow'
    BY <2>1, <2>5 DEF PhasesFollow, Both
  <2> QED
    BY <2>1, <2>3, <2>6 DEF EraIInv, Clock, Keys
<1>4. ASSUME NEW skip \in 0 .. MaxSkip, RotateSession(slot + 1 + skip) PROVE EraIInv'
  <2>1. /\ Rotate(slot + 1 + skip) /\ session' = NextSession
        /\ startsIn' = IF startsIn > 0 THEN startsIn - 1 ELSE 0
        /\ UNCHANGED <<plannedEra, queuedKeys, phase, phases>>
    BY <1>4 DEF RotateSession
  <2>2. /\ slot' \in 0 .. MaxSkip /\ slot' \in 0 .. EpochDuration - 1
        /\ activeEra' = plannedEra /\ validators' = plannedEra
    BY <2>1, RotateKeeps
  <2>3. startsIn' = 0 /\ session' \in Int
    BY <2>1, Durations DEF EraIInv, Clock, NextSession
  <2>4. RemainingIn(session', slot') \in Int /\ RemainingIn(session', slot') > 2 * UnsignedPhase
    BY <2>2, <2>3, FreshSession, Durations
  <2>5. PhasesFollow'
    BY <2>1, <2>4, Durations DEF EraIInv, PhasesFollow, UnsignedPhase, RemainingIn
  <2>6. Clock' /\ Keys'
    BY <2>1, <2>2, <2>3 DEF EraIInv, Clock, Keys
  <2> QED
    BY <2>5, <2>6 DEF EraIInv
<1>5. ASSUME NEW skip \in 0 .. MaxSkip, PlanEra(slot + 1 + skip) PROVE EraIInv'
  <2>1. /\ Rotate(slot + 1 + skip) /\ session' = -1 /\ startsIn' = 1
        /\ plannedEra' = plannedEra + 1 /\ queuedKeys' = plannedEra + 1
        /\ phase' = "off" /\ phases' = {}
    BY <1>5 DEF PlanEra
  <2>2. /\ slot' \in 0 .. MaxSkip /\ slot' \in 0 .. EpochDuration - 1
        /\ activeEra' = plannedEra /\ validators' = plannedEra
    BY <2>1, RotateKeeps
  <2>3. RemainingIn(session', slot') \in Int /\ RemainingIn(session', slot') > 2 * UnsignedPhase
    BY <2>1, <2>2, FreshSession, Durations
  <2>4. PhasesFollow'
    BY <2>1, <2>3, Durations DEF PhasesFollow, UnsignedPhase, RemainingIn
  <2>5. Clock' /\ Keys'
    BY <2>1, <2>2 DEF EraIInv, Clock, Keys
  <2> QED
    BY <2>4, <2>5 DEF EraIInv
<1>6. ASSUME NEW skip \in 0 .. MaxSkip, ElectionFails(slot + 1 + skip) PROVE EraIInv'
  <2>1. /\ session + 2 >= SessionsPerEra
        /\ Rotate(slot + 1 + skip) /\ session' = NextSession /\ phase' = "emergency"
        /\ startsIn' = IF startsIn > 0 THEN startsIn - 1 ELSE 0
        /\ UNCHANGED <<plannedEra, queuedKeys, phases>>
    BY <1>6 DEF ElectionFails
  <2>2. /\ slot' \in 0 .. EpochDuration - 1 /\ phases = Both
        /\ activeEra' = plannedEra /\ validators' = plannedEra
    BY <2>1, RotateKeeps
  <2>3. startsIn' = 0 /\ session' \in Int
    BY <2>1, Durations DEF EraIInv, Clock, NextSession
  <2>4. PhasesFollow'
    BY <2>1, <2>2 DEF PhasesFollow, Both
  <2>5. Clock' /\ Keys'
    BY <2>1, <2>2, <2>3 DEF EraIInv, Clock, Keys
  <2> QED
    BY <2>4, <2>5 DEF EraIInv
<1>7. ASSUME UNCHANGED <<clockVars, setVars, phase, phases>> PROVE EraIInv'
  BY <1>7 DEF EraIInv, Clock, Keys, PhasesFollow, RemainingIn, UnsignedPhase
<1>8. ASSUME \/ SubmitSigned \/ SubmitUnsigned \/ SetEmergencyResult
             \/ Offend \/ Unbond \/ WithdrawUnbonded \/ Report \/ CancelSlash
             \/ UNCHANGED eraVars
      PROVE  EraIInv'
  <2>1. UNCHANGED <<clockVars, setVars, phase, phases>>
    BY <1>8 DEF SubmitSigned, SubmitUnsigned, SetEmergencyResult, Offend, Unbond,
                WithdrawUnbonded, Report, CancelSlash, eraVars
  <2> QED
    BY <2>1, <1>7
<1> QED
  BY <1>1, <1>2, <1>3, <1>4, <1>5, <1>6, <1>8 DEF EraNext

(* The invariant implies that the validators follow the eras. *)
LEMMA EraInvSound == EraIInv => ErasSound
  BY DEF EraIInv, Clock, Keys, PhasesFollow, Both, ErasSound

(* ErasSound: the sets of validators follow the eras, and no election fails  *)
(* without having had both of its phases.                                    *)
THEOREM ErasRunSoundly == EraSpec => []ErasSound
<1>1. EraInit => EraIInv
  BY EraInitInv
<1>2. EraIInv /\ [EraNext]_eraVars => EraIInv'
  BY EraStepInv
<1>3. EraIInv => ErasSound
  BY EraInvSound
<1> QED
  BY <1>1, <1>2, <1>3, PTL DEF EraSpec

-----------------------------------------------------------------------------
(***************************************************************************)
(* ReportsBite for every bonding duration.  What is added: stake on its    *)
(* way out leaves no sooner than one bonding duration after the offence,   *)
(* and a deferred slash is applied as soon as it is due.                   *)
(***************************************************************************)

StakeStates == {"bonded", "unlocking", "withdrawn", "slashed"}
OffenceStates == {"none", "committed", "deferred", "cancelled", "applied", "escaped"}
Offences == [at : Int, reported : Int, state : OffenceStates]

StakeFollows ==
    /\ offence \in Offences /\ bond \in StakeStates /\ unlockEra \in Int
    /\ offence.state # "none" => offence.at <= activeEra
    /\ offence.state = "deferred" => activeEra <= offence.reported + SlashDeferDuration
    /\ bond \in {"unlocking", "withdrawn"}
         => offence.state # "none" /\ unlockEra >= offence.at + BondingDuration
    /\ bond = "withdrawn" => plannedEra >= unlockEra
    /\ ReportsBite

StakeIInv == EraIInv /\ StakeFollows

-----------------------------------------------------------------------------
(* A slash is deferred for whole eras (lib.rs, SlashDeferDuration).          *)
LEMMA DeferredForEras ==
    /\ BondingDuration \in Nat /\ SlashDeferDuration \in Nat
    /\ SlashDeferDuration = BondingDuration \div 4
BY EraAssumption DEF SlashDeferDuration

(* At genesis nothing is reported or unbonding. *)
LEMMA StakeInit == EraInit => StakeFollows
BY DeferredForEras
   DEF EraInit, StakeFollows, Offences, OffenceStates, StakeStates, NoOffence, ReportsBite

(* What a rotation does to the offender: the active era does not go back,    *)
(* and a slash that finds the stake gone was due an era ago at the earliest. *)
LEMMA RotateStake ==
    ASSUME EraIInv, StakeFollows, NEW skip \in 0 .. MaxSkip, Rotate(slot + 1 + skip),
           plannedEra' \in {plannedEra, plannedEra + 1}
    PROVE  StakeFollows'
<1>1. activeEra' = plannedEra /\ unlockEra' = unlockEra
      /\ activeEra \in Int /\ plannedEra \in Int /\ activeEra <= plannedEra
  BY RotateKeeps DEF Rotate, EraIInv, Clock, Keys
<1>2. /\ offence.at \in Int /\ offence.reported \in Int /\ offence.state \in OffenceStates
      /\ unlockEra \in Int
  BY DEF StakeFollows, Offences
<1>3. CASE startsIn # 1
  <2>1. bond' = bond /\ offence' = offence
    BY <1>3, Zenon DEF Rotate
  <2>2. activeEra' = activeEra
    BY <1>3, Zenon DEF Rotate
  <2> QED
    BY <2>1, <2>2, <1>1, <1>2, DeferredForEras DEF StakeFollows, ReportsBite
<1>4. CASE startsIn = 1
  <2>1. plannedEra = activeEra + 1
    BY <1>4, <1>1 DEF EraIInv, Keys
  <2>2. Slashed(plannedEra)
    BY <1>4, Zenon DEF Rotate
  <2>3. CASE ~Due(plannedEra)
    <3>1. bond' = bond /\ offence' = offence
      BY <2>2, <2>3, Zenon DEF Slashed
    <3>2. offence.state = "deferred" => plannedEra <= offence.reported + SlashDeferDuration
      BY <2>3, <1>1, <1>2, DeferredForEras DEF Due
    <3> QED
      BY <3>1, <3>2, <1>1, <1>2, DeferredForEras DEF StakeFollows, ReportsBite
  <2>4. CASE Due(plannedEra) /\ bond = "withdrawn"
    <3>1. bond' = bond /\ offence' = [offence EXCEPT !.state = "escaped"]
      BY <2>2, <2>4, Zenon DEF Slashed
    <3>2. /\ offence' \in Offences /\ offence'.at = offence.at
          /\ offence'.reported = offence.reported /\ offence'.state = "escaped"
      BY <3>1 DEF StakeFollows, Offences, OffenceStates
    <3>3. /\ offence.state = "deferred" /\ activeEra <= offence.reported + SlashDeferDuration
          /\ unlockEra >= offence.at + BondingDuration /\ plannedEra >= unlockEra
          /\ offence.at <= activeEra
      BY <2>4 DEF Due, StakeFollows
    <3>4. offence.reported + SlashDeferDuration + 2 > offence.at + BondingDuration
      BY <3>3, <2>1, <1>1, <1>2, DeferredForEras
    <3>5. ReportsBite'
      BY <3>2, <3>4, DeferredForEras DEF ReportsBite
    <3> QED
      BY <3>1, <3>2, <3>3, <3>5, <1>1, <1>2, <2>1, <2>4 DEF StakeFollows
  <2>5. CASE Due(plannedEra) /\ bond # "withdrawn"
    <3>1. bond' = "slashed" /\ offence' = [offence EXCEPT !.state = "applied"]
      BY <2>2, <2>5, Zenon DEF Slashed
    <3>2. /\ offence' \in Offences /\ offence'.at = offence.at /\ offence'.state = "applied"
      BY <3>1 DEF StakeFollows, Offences, OffenceStates
    <3>3. offence.at <= activeEra
      BY <2>5 DEF Due, StakeFollows
    <3> QED
      BY <3>1, <3>2, <3>3, <1>1, <1>2, <2>1 DEF StakeFollows, StakeStates, ReportsBite
  <2> QED
    BY <2>3, <2>4, <2>5
<1> QED
  BY <1>3, <1>4

(* Unbonding, offences, reports and the change of eras keep it. *)
LEMMA StakeStep == EraIInv /\ StakeFollows /\ [EraNext]_eraVars => StakeFollows'
<1> SUFFICES ASSUME EraIInv, StakeFollows, [EraNext]_eraVars PROVE StakeFollows'
  OBVIOUS
<1> USE DEF setVars, clockVars, electionVars, stakeVars
<1>0. /\ activeEra \in Int /\ plannedEra \in Int /\ activeEra <= plannedEra
      /\ offence.at \in Int /\ offence.reported \in Int /\ offence.state \in OffenceStates
      /\ unlockEra \in Int
  BY DEF EraIInv, Clock, Keys, StakeFollows, Offences
<1>1. ASSUME UNCHANGED <<activeEra, plannedEra, stakeVars>> PROVE StakeFollows'
  BY <1>1, DeferredForEras DEF StakeFollows, ReportsBite, SlashDeferDuration
<1>2. ASSUME NEW skip \in 0 .. MaxSkip,
             \/ BlockAt(slot + 1 + skip) \/ StartSigned(slot + 1 + skip)
             \/ StartUnsigned(slot + 1 + skip)
      PROVE  StakeFollows'
  BY <1>1, <1>2 DEF BlockAt, StartSigned, StartUnsigned
<1>3. ASSUME NEW skip \in 0 .. MaxSkip,
             \/ RotateSession(slot + 1 + skip) \/ PlanEra(slot + 1 + skip)
             \/ ElectionFails(slot + 1 + skip)
      PROVE  StakeFollows'
  <2>1. Rotate(slot + 1 + skip) /\ plannedEra' \in {plannedEra, plannedEra + 1}
    BY <1>3 DEF RotateSession, PlanEra, ElectionFails
  <2> QED
    BY <2>1, RotateStake
<1>4. CASE SubmitSigned \/ SubmitUnsigned \/ SetEmergencyResult \/ UNCHANGED eraVars
  BY <1>1, <1>4 DEF SubmitSigned, SubmitUnsigned, SetEmergencyResult, eraVars
<1>5. CASE Offend
  <2>1. /\ offence' \in Offences /\ offence'.at = activeEra /\ offence'.state = "committed"
        /\ bond = "bonded" /\ UNCHANGED <<activeEra, plannedEra, bond, unlockEra>>
    BY <1>5, <1>0 DEF Offend, Offences, OffenceStates
  <2> QED
    BY <2>1, <1>0 DEF StakeFollows, StakeStates, ReportsBite
<1>6. CASE Unbond
  <2>1. /\ bond' = "unlocking" /\ unlockEra' = plannedEra + BondingDuration
        /\ offence.state # "none" /\ UNCHANGED <<activeEra, plannedEra, offence>>
    BY <1>6 DEF Unbond
  <2> QED
    BY <2>1, <1>0, DeferredForEras DEF StakeFollows, StakeStates, ReportsBite
<1>7. CASE WithdrawUnbonded
  <2>1. /\ bond = "unlocking" /\ plannedEra >= unlockEra /\ bond' = "withdrawn"
        /\ UNCHANGED <<activeEra, plannedEra, unlockEra, offence>>
    BY <1>7 DEF WithdrawUnbonded
  <2> QED
    BY <2>1, <1>0, DeferredForEras DEF StakeFollows, StakeStates, ReportsBite
<1>8. CASE Report
  <2>1. /\ offence.state = "committed"
        /\ offence' = [offence EXCEPT !.reported = activeEra, !.state = "deferred"]
        /\ UNCHANGED <<activeEra, plannedEra, unlockEra, bond>>
    BY <1>8 DEF Report
  <2>2. /\ offence' \in Offences /\ offence'.at = offence.at
        /\ offence'.reported = activeEra /\ offence'.state = "deferred"
    BY <2>1, <1>0 DEF StakeFollows, Offences, OffenceStates
  <2> QED
    BY <2>1, <2>2, <1>0, DeferredForEras DEF StakeFollows, StakeStates, ReportsBite
<1>9. CASE CancelSlash
  <2>1. /\ offence.state = "deferred"
        /\ offence' = [offence EXCEPT !.state = "cancelled"]
        /\ UNCHANGED <<activeEra, plannedEra, unlockEra, bond>>
    BY <1>9 DEF CancelSlash
  <2>2. offence' \in Offences /\ offence'.at = offence.at /\ offence'.state = "cancelled"
    BY <2>1, <1>0 DEF StakeFollows, Offences, OffenceStates
  <2> QED
    BY <2>1, <2>2, <1>0, DeferredForEras DEF StakeFollows, StakeStates, ReportsBite
<1> QED
  BY <1>2, <1>3, <1>4, <1>5, <1>6, <1>7, <1>8, <1>9 DEF EraNext

(* ReportsBite: an offence that is reported in time does not escape its      *)
(* slash, whenever the stake is unbonded (lib.rs, BondingDuration and        *)
(* SlashDeferDuration).                                                      *)
THEOREM ReportsInTimeBite == EraSpec => []ReportsBite
<1>1. EraInit => StakeIInv
  BY EraInitInv, StakeInit DEF StakeIInv
<1>2. StakeIInv /\ [EraNext]_eraVars => StakeIInv'
  BY EraStepInv, StakeStep DEF StakeIInv
<1>3. StakeIInv => ReportsBite
  BY DEF StakeIInv, StakeFollows
<1> QED
  BY <1>1, <1>2, <1>3, PTL DEF EraSpec

-----------------------------------------------------------------------------
(***************************************************************************)
(* HeaviestVote for every number of voters and every size of a snapshot.   *)
(* What is added: a bag is a queue, so that to be in front is an order,    *)
(* and the voters that are listed have a weight.                           *)
(***************************************************************************)

Queues ==
    /\ \A v \in Listed : <<v, v>> \notin order
    /\ \A v, u, x \in Listed :
        <<v, u>> \in order /\ <<u, x>> \in order => <<v, x>> \in order

BagsIInv == BagsTypeOK /\ Queues /\ \A v \in Listed : weight[v] \in VoteWeights

-----------------------------------------------------------------------------
(* The thresholds are numbers, and the last one is above every weight.       *)
LEMMA Thresholds ==
    /\ ToSet(THRESHOLDS) = {1, 2, 4, 8, 16}
    /\ \A w \in VoteWeights : w \in Nat /\ w >= 1 /\ w <= 16
<1>1. DOMAIN THRESHOLDS = 1 .. 5 /\ Len(THRESHOLDS) = 5
      /\ THRESHOLDS[1] = 1 /\ THRESHOLDS[2] = 2 /\ THRESHOLDS[3] = 4 /\ THRESHOLDS[4] = 8
      /\ THRESHOLDS[5] = 16
  BY DEF THRESHOLDS
<1>2. ToSet(THRESHOLDS) = { THRESHOLDS[i] : i \in 1 .. 5 }
  BY <1>1 DEF ToSet
<1>3. 1 .. 5 = {1, 2, 3, 4, 5}
  OBVIOUS
<1>4. ToSet(THRESHOLDS) = {1, 2, 4, 8, 16}
  BY <1>1, <1>2, <1>3
<1> QED
  BY <1>1, <1>4, BagsAssumption

(* The bag of a weight is the least threshold that is not below it, and less *)
(* than the ratio away from it (voter_bags.rs, THRESHOLDS).                  *)
LEMMA BagOfWeight ==
    ASSUME NEW w \in VoteWeights
    PROVE  /\ NotionalBag(w) \in {1, 2, 4, 8, 16} /\ NotionalBag(w) >= w
           /\ NotionalBag(w) > 1 => NotionalBag(w) < 2 * w
<1> DEFINE IsBag(t) == t >= w /\ \A u \in {1, 2, 4, 8, 16} : u >= w => t <= u
<1>1. w \in Nat /\ w >= 1 /\ w <= 16
  BY Thresholds
<1>2. \E t \in {1, 2, 4, 8, 16} : IsBag(t)
  <2>1. CASE w = 1
    BY <2>1
  <2>2. CASE w = 2
    BY <2>2
  <2>3. CASE w > 2 /\ w <= 4
    BY <2>3, <1>1
  <2>4. CASE w > 4 /\ w <= 8
    BY <2>4, <1>1
  <2>5. CASE w > 8
    BY <2>5, <1>1
  <2> QED
    BY <1>1, <2>1, <2>2, <2>3, <2>4, <2>5
<1>3. NotionalBag(w) = CHOOSE t \in {1, 2, 4, 8, 16} : IsBag(t)
  BY Thresholds, Zenon DEF NotionalBag
<1>4. NotionalBag(w) \in {1, 2, 4, 8, 16} /\ IsBag(NotionalBag(w))
  BY <1>2, <1>3
<1> QED
  BY <1>1, <1>4

(* A voter that is in front of another has fewer voters ahead of it.         *)
LEMMA FewerAhead ==
    ASSUME BagsIInv, NEW v \in Listed, NEW u \in Listed, Before(v, u), u \in Electing
    PROVE  v \in Electing
<1>1. /\ \A x \in Voters : bag[x] \in Int
      /\ v \in Voters /\ u \in Voters
  BY Thresholds DEF BagsIInv, BagsTypeOK, Listed
<1>2. ASSUME NEW x \in Ahead(v) PROVE x \in Ahead(u)
  <2>1. x \in Listed /\ Before(x, v) /\ bag[x] \in Int /\ bag[v] \in Int /\ bag[u] \in Int
    BY <1>1 DEF Ahead, Listed
  <2>2. CASE bag[x] > bag[u]
    BY <2>1, <2>2 DEF Ahead, Before
  <2>3. CASE ~(bag[x] > bag[u])
    <3>1. bag[x] = bag[v] /\ bag[v] = bag[u] /\ <<x, v>> \in order /\ <<v, u>> \in order
      BY <2>1, <2>3 DEF Before
    <3> QED
      BY <2>1, <3>1 DEF Ahead, Before, BagsIInv, Queues
  <2> QED
    BY <2>2, <2>3
<1>3. IsFiniteSet(Ahead(u)) /\ Ahead(v) \subseteq Ahead(u)
  BY <1>2, BagsAssumption, FS_Subset DEF Ahead, Listed
<1>4. /\ Cardinality(Ahead(v)) \in Nat /\ Cardinality(Ahead(u)) \in Nat
      /\ Cardinality(Ahead(v)) <= Cardinality(Ahead(u))
  BY <1>3, FS_Subset, FS_CardinalityType
<1> QED
  BY <1>4, BagsAssumption DEF Electing

-----------------------------------------------------------------------------
(* The list of voters starts empty. *)
LEMMA BagsInitInv == BagsInit => BagsIInv
BY Thresholds DEF BagsInit, BagsIInv, BagsTypeOK, Queues, Listed

(* A voter that is put at the end of its bag is behind all others.           *)
LEMMA RelistKeeps ==
    ASSUME BagsIInv, NEW v \in Voters, NEW w \in VoteWeights, Relist(v, w)
    PROVE  /\ bag' \in [Voters -> ToSet(THRESHOLDS) \cup {0}]
           /\ Listed' = Listed \cup {v}
           /\ order' \subseteq Listed' \X Listed'
           /\ Queues'
<1>1. NotionalBag(w) \in ToSet(THRESHOLDS) /\ NotionalBag(w) # 0
  BY Thresholds, BagOfWeight
<1>2. /\ bag \in [Voters -> ToSet(THRESHOLDS) \cup {0}]
      /\ order \subseteq Listed \X Listed
  BY DEF BagsIInv, BagsTypeOK
<1>3. bag' = [bag EXCEPT ![v] = NotionalBag(w)]
  BY DEF Relist
<1>4. /\ bag' \in [Voters -> ToSet(THRESHOLDS) \cup {0}]
      /\ Listed' = Listed \cup {v}
  BY <1>1, <1>2, <1>3 DEF Listed
<1>5. CASE bag[v] = NotionalBag(w)
  <2>1. order' = order /\ Listed' = Listed
    BY <1>1, <1>4, <1>5 DEF Relist, Listed
  <2> QED
    BY <1>2, <1>4, <2>1 DEF BagsIInv, Queues
<1>6. CASE bag[v] # NotionalBag(w)
  <2>1. order' = Without(v) \cup { <<u, v>> : u \in Listed \ {v} }
    BY <1>6 DEF Relist, AtTail
  <2>2. \A x, y : <<x, y>> \in order' <=>
                    \/ <<x, y>> \in order /\ x # v /\ y # v
                    \/ x \in Listed /\ x # v /\ y = v
    BY <2>1 DEF Without
  <2>3. order' \subseteq Listed' \X Listed'
    BY <1>2, <1>4, <2>1 DEF Without
  <2>4. \A x \in Listed' : <<x, x>> \notin order'
    BY <1>4, <2>2 DEF BagsIInv, Queues
  <2>5. ASSUME NEW x \in Listed', NEW y \in Listed', NEW z \in Listed',
               <<x, y>> \in order', <<y, z>> \in order'
        PROVE  <<x, z>> \in order'
    <3>1. y # v /\ <<x, y>> \in order /\ x # v
      BY <2>2, <2>5
    <3>2. x \in Listed /\ y \in Listed
      BY <1>2, <3>1
    <3>3. CASE z = v
      BY <2>2, <3>1, <3>2, <3>3
    <3>4. CASE z # v
      <4>1. <<y, z>> \in order /\ z \in Listed
        BY <1>2, <2>2, <2>5, <3>4
      <4>2. <<x, z>> \in order
        BY <3>1, <3>2, <4>1 DEF BagsIInv, Queues
      <4> QED
        BY <2>2, <3>1, <3>4, <4>2
    <3> QED
      BY <3>3, <3>4
  <2> QED
    BY <1>4, <2>3, <2>4, <2>5 DEF Queues
<1> QED
  BY <1>5, <1>6

(* Nominating, rebagging, chilling and snapshots keep every listed voter in one place of one bag. *)
LEMMA BagsStepInv == BagsIInv /\ [BagsNext]_bagVars => BagsIInv'
<1> SUFFICES ASSUME BagsIInv, [BagsNext]_bagVars PROVE BagsIInv'
  OBVIOUS
<1>0. BagsTypeOK
  BY DEF BagsIInv
<1>1. ASSUME NEW v \in Voters, NEW w \in VoteWeights, Relist(v, w),
             weight' = [weight EXCEPT ![v] = w], snapshot' = snapshot
      PROVE  BagsIInv'
  <2>1. \A u \in Listed' : weight'[u] \in VoteWeights
    BY <1>0, <1>1, RelistKeeps DEF BagsIInv, BagsTypeOK, Listed
  <2> QED
    BY <1>0, <1>1, <2>1, RelistKeeps DEF BagsIInv, BagsTypeOK
<1>2. ASSUME NEW v \in Voters, NEW w \in VoteWeights, Nominate(v, w) \/ ChangeBond(v, w)
      PROVE  BagsIInv'
  BY <1>1, <1>2 DEF Nominate, ChangeBond
<1>3. ASSUME NEW v \in Voters, NEW w \in VoteWeights, SlashOrReward(v, w) PROVE BagsIInv'
  <2>1. /\ weight' = [weight EXCEPT ![v] = w] /\ UNCHANGED <<bag, order, snapshot>>
        /\ Listed' = Listed
    BY <1>3 DEF SlashOrReward, Listed
  <2> QED
    BY <1>0, <2>1 DEF BagsIInv, BagsTypeOK, Queues, Listed
<1>4. ASSUME NEW v \in Voters, Rebag(v) PROVE BagsIInv'
  <2>1. Relist(v, weight[v]) /\ UNCHANGED <<weight, snapshot>> /\ weight[v] \in VoteWeights
    BY <1>4 DEF Rebag, BagsIInv, Listed
  <2>2. weight' = [weight EXCEPT ![v] = weight[v]]
    BY <1>0, <2>1 DEF BagsTypeOK
  <2> QED
    BY <1>1, <2>1, <2>2
<1>5. ASSUME NEW v \in Voters, Chill(v) PROVE BagsIInv'
  <2>1. /\ bag' = [bag EXCEPT ![v] = 0] /\ weight' = [weight EXCEPT ![v] = 0]
        /\ order' = Without(v) /\ snapshot' = snapshot
    BY <1>5 DEF Chill
  <2>2. Listed' = Listed \ {v}
    BY <1>0, <2>1 DEF Listed, BagsTypeOK
  <2>3. \A x, y : <<x, y>> \in order' <=> <<x, y>> \in order /\ x # v /\ y # v
    BY <2>1 DEF Without
  <2>4. order' \subseteq Listed' \X Listed'
    BY <1>0, <2>1, <2>2 DEF Without, BagsTypeOK
  <2>5. BagsTypeOK'
    BY <1>0, <2>1, <2>4 DEF BagsTypeOK
  <2>6. Queues'
    BY <2>2, <2>3 DEF BagsIInv, Queues
  <2>7. \A u \in Listed' : weight'[u] \in VoteWeights
    BY <1>0, <2>1, <2>2 DEF BagsIInv, BagsTypeOK, Listed
  <2> QED
    BY <2>5, <2>6, <2>7 DEF BagsIInv
<1>6. ASSUME snapshot' \subseteq Voters, UNCHANGED <<weight, bag, order>> PROVE BagsIInv'
  <2>1. Listed' = Listed
    BY <1>6 DEF Listed
  <2> QED
    BY <1>6, <2>1 DEF BagsIInv, BagsTypeOK, Queues
<1>7. CASE TakeSnapshot
  BY <1>6, <1>7 DEF TakeSnapshot, Electing, Listed
<1>8. CASE DropSnapshot
  BY <1>6, <1>8 DEF DropSnapshot
<1>9. CASE UNCHANGED bagVars
  BY <1>0, <1>6, <1>9 DEF bagVars, BagsTypeOK
<1> QED
  BY <1>2, <1>3, <1>4, <1>5, <1>7, <1>8, <1>9 DEF BagsNext

(* For any finite set of voters and any weights. *)
LEMMA BagsInvariance == BagsSpec => []BagsIInv
BY BagsInitInv, BagsStepInv, PTL DEF BagsSpec

(* BagsTypeOK: every voter that is listed is in the bag of a threshold, and  *)
(* a queue holds listed voters only (lib.rs, VoterList).                     *)
THEOREM BagsAreTyped == BagsSpec => []BagsTypeOK
<1>1. BagsIInv => BagsTypeOK
  BY DEF BagsIInv
<1> QED
  BY <1>1, BagsInvariance, PTL

(* HeaviestVote: no voter is left out of a snapshot for one that weighs less *)
(* than half of it, unless their bags are out of date (voter_bags.rs).       *)
THEOREM SnapshotTakesHeaviest == BagsSpec => HeaviestVote
<1> DEFINE Heaviest ==
        \A v, u \in Voters :
            /\ snapshot = {} /\ snapshot' # {}
            /\ v \in Listed /\ v \notin snapshot'
            /\ u \in snapshot'
            /\ UpToDate(v) /\ UpToDate(u) /\ weight[v] > EXISTENTIAL_WEIGHT
            => weight[v] < CONSTANT_RATIO * weight[u]
<1>1. BagsIInv /\ [BagsNext]_bagVars => [Heaviest]_bagVars
  <2> SUFFICES ASSUME BagsIInv, BagsNext, NEW v \in Voters, NEW u \in Voters,
                      snapshot = {}, snapshot' # {}, v \in Listed, v \notin snapshot',
                      u \in snapshot', UpToDate(v), UpToDate(u),
                      weight[v] > EXISTENTIAL_WEIGHT
               PROVE  weight[v] < CONSTANT_RATIO * weight[u]
    BY DEF bagVars
  <2>1. snapshot' = Electing
    BY DEF BagsNext, TakeSnapshot, DropSnapshot, Nominate, ChangeBond, SlashOrReward, Rebag,
           Chill
  <2>2. u \in Electing /\ u \in Listed /\ ~Before(v, u)
    BY <2>1, FewerAhead DEF Electing
  <2>3. /\ weight[v] \in VoteWeights /\ weight[u] \in VoteWeights
        /\ bag[v] = NotionalBag(weight[v]) /\ bag[u] = NotionalBag(weight[u])
    BY <2>2 DEF BagsIInv, UpToDate
  <2>4. /\ bag[v] \in Nat /\ bag[u] \in Nat /\ bag[v] >= weight[v]
        /\ bag[u] > 1 => bag[u] < 2 * weight[u]
        /\ weight[v] \in Nat /\ weight[u] \in Nat
    BY <2>3, BagOfWeight, Thresholds
  <2>5. bag[v] <= bag[u]
    BY <2>2, <2>4 DEF Before
  <2> QED
    BY <2>4, <2>5 DEF EXISTENTIAL_WEIGHT, CONSTANT_RATIO
<1>2. BagsSpec => [][Heaviest]_bagVars
  BY <1>1, BagsInvariance, PTL DEF BagsSpec
<1> QED
  BY <1>2, PTL DEF HeaviestVote

-----------------------------------------------------------------------------
(***************************************************************************)
(* TypesOK for the whole instance.  A behaviour of the instance is one of  *)
(* every part, since a step moves one and leaves the variables of the      *)
(* others alone; what is left is the type of each part.                    *)
(***************************************************************************)

(* Each part alone: its behaviours are those of its own specification.       *)
LEMMA PartsAlone ==
    MCSpec => /\ ProxySpec /\ GovSpec /\ FeeSpec /\ LoadSpec
              /\ EraSpec /\ BagsSpec /\ RefSpec /\ ValueSpec
<1>1. MCInit => /\ ProxyInit /\ GovInit /\ FeeInit /\ LoadInit /\ EraInit /\ BagsInit
                /\ RefInit /\ ValueInit
  BY DEF MCInit
<1>2. [MCNext]_allVars =>
        /\ [ProxyNext]_proxyVars /\ [GovNext]_govVars /\ [FeeNext]_feeVars
        /\ [LoadNext]_loadVars /\ [EraNext]_eraVars /\ [BagsNext]_bagVars
        /\ [RefNext]_refVars /\ [ValueNext]_valueVars
  BY DEF MCNext, allVars
<1> QED
  BY <1>1, <1>2, PTL
    DEF MCSpec, ProxySpec, GovSpec, FeeSpec, LoadSpec, EraSpec, BagsSpec, RefSpec, ValueSpec

-----------------------------------------------------------------------------
(* What a motion may do to the bodies and to what waits to be voted on.      *)
LEMMA GovTypeStep == GovTypeOK /\ [GovNext]_govVars => GovTypeOK'
<1> SUFFICES ASSUME GovTypeOK, [GovNext]_govVars PROVE GovTypeOK'
  OBVIOUS
<1> USE DEF GovTypeOK, bodies, democracyVars, spendVars
<1>0. People' = People /\ proposals \in Int /\ MaxProposals \in Int
  BY ListBound DEF People
<1>1. CASE ExternalPropose \/ Veto \/ CooloffEnds
  BY <1>0, <1>1 DEF ExternalPropose, Veto, CooloffEnds
<1>8. CASE FastTrack
  <2>1. referendum'.count = external /\ external' = "none"
    BY <1>8 DEF FastTrack
  <2> QED
    BY <1>0, <1>8, <2>1 DEF FastTrack
<1>9. CASE EmergencyCancel \/ VoteEnds
  <2>1. referendum'.count = "none"
    BY <1>9 DEF EmergencyCancel, VoteEnds, None
  <2> QED
    BY <1>0, <1>9, <2>1 DEF EmergencyCancel, VoteEnds
<1>2. CASE Propose
  BY <1>0, <1>2, ListBound DEF Propose
<1>3. CASE CancelProposal
  BY <1>0, <1>3, ListBound DEF CancelProposal
<1>4. CASE Launch
  BY <1>0, <1>4, ListBound DEF Launch
<1>5. ASSUME NEW list \in SUBSET People, ChangeMembers(list) PROVE GovTypeOK'
  BY <1>0, <1>5 DEF ChangeMembers, People
<1>6. CASE ProposeSpend \/ ApproveSpend \/ RejectSpend \/ SpendPeriodEnds \/ Decree
  BY <1>0, <1>6 DEF ProposeSpend, ApproveSpend, RejectSpend, SpendPeriodEnds, Decree, People
<1>7. CASE UNCHANGED govVars
  BY <1>0, <1>7 DEF govVars
<1> QED
  BY <1>1, <1>2, <1>3, <1>4, <1>5, <1>6, <1>7, <1>8, <1>9 DEF GovNext

(* The bodies and their motions stay typed. *)
LEMMA GovTyped == GovSpec => []GovTypeOK
<1>1. GovInit => GovTypeOK
  <2> SUFFICES ASSUME GovInit PROVE GovTypeOK
    OBVIOUS
  <2>1. 0 \in 0 .. MaxProposals
    BY ListBound
  <2>2. referendum.count = "none"
    BY DEF GovInit, None
  <2> QED
    BY <2>1, <2>2, Zenon DEF GovInit, GovTypeOK, People
<1> QED
  BY <1>1, GovTypeStep, PTL DEF GovSpec

(* No account is left with less than the existential deposit: the payer is   *)
(* kept alive when the fee is taken and not refunded once it is reaped, and  *)
(* an author that would hold less is not created.                            *)
NoDust == \A h \in Holders : free[h] = 0 \/ free[h] >= ExistentialDeposit

(* An account holds nothing or at least the existential deposit: the rest is dust and is reaped. *)
LEMMA NoDustStep == FeeIInv /\ NoDust /\ [FeeNext]_feeVars => NoDust'
<1> SUFFICES ASSUME FeeIInv, NoDust, [FeeNext]_feeVars PROVE NoDust'
  OBVIOUS
<1> USE FeesAssumption
<1>0. /\ free \in [Holders -> Nat] /\ free["payer"] \in Nat /\ free["treasury"] \in Nat
      /\ free["author"] \in Nat /\ free["treasury"] >= ExistentialDeposit
  BY DEF FeeIInv, FeeTyped, Holders
<1>1. free'["treasury"] >= ExistentialDeposit /\ free' \in [Holders -> Nat]
  BY FeeStepInv DEF FeeIInv, FeeTyped
<1>2. CASE NextBlock \/ UNCHANGED feeVars
  BY <1>2 DEF NextBlock, feeVars, NoDust
<1>3. ASSUME NEW fee \in Prices, NEW tip \in Prices, Withdraw(fee, tip) PROVE NoDust'
  BY <1>0, <1>1, <1>3 DEF Withdraw, NoDust, Holders
<1>4. CASE SpendAll
  BY <1>0, <1>1, <1>4 DEF SpendAll, NoDust, Holders
<1>5. ASSUME NEW actual \in Prices, Deposit(actual) PROVE NoDust'
  <2> DEFINE refund == IF free["payer"] = 0 THEN 0 ELSE charge.fee - actual
             paid == charge.fee + charge.tip - refund
             shares == Shares(paid - charge.tip, charge.tip)
             authors == IF author THEN Credited(free["author"], shares.author) ELSE 0
  <2>1. /\ free'["payer"] = free["payer"] + refund
        /\ free'["author"] = free["author"] + authors
    BY <1>5 DEF Deposit
  <2>2. /\ charge.fee \in Nat /\ charge.tip \in Nat /\ actual \in Nat /\ actual <= charge.fee
    BY <1>5 DEF Deposit, FeeIInv, FeeTyped
  <2>3. refund \in Nat /\ (free["payer"] = 0 => refund = 0) /\ paid - charge.tip \in Nat
    BY <1>0, <2>2
  <2>4. shares.author \in Nat
    BY <2>2, <2>3, SharesExact
  <2> HIDE DEF shares, refund
  <2>5. /\ authors \in Nat
        /\ free["author"] = 0 => authors = 0 \/ authors >= ExistentialDeposit
    BY <1>0, <2>4 DEF Credited
  <2> HIDE DEF authors
  <2> QED
    BY <1>0, <1>1, <2>1, <2>3, <2>5 DEF NoDust, Holders
<1> QED
  BY <1>2, <1>3, <1>4, <1>5 DEF FeeNext

(* Balances, issuance and receipts stay numbers. *)
LEMMA FeesTyped == FeeSpec => []FeeTypeOK
<1>1. FeeInit => FeeIInv /\ NoDust
  BY FeeInitInv, FeesAssumption DEF FeeInit, NoDust, Holders
<1>2. FeeIInv /\ NoDust /\ [FeeNext]_feeVars => (FeeIInv /\ NoDust)'
  BY FeeStepInv, NoDustStep
<1>3. FeeIInv /\ NoDust => FeeTypeOK
  <2> SUFFICES ASSUME FeeIInv, NoDust PROVE FeeTypeOK
    OBVIOUS
  <2>1. issuance \in Nat
    BY DEF FeeIInv, FeeTyped, FeesConserved, Holders
  <2>2. books \in [DOMAIN books -> Nat]
    BY DEF FeeIInv, FeeTyped, Books
  <2> QED
    BY <2>1, <2>2 DEF FeeIInv, FeeTyped, NoDust, FeeTypeOK
<1> QED
  BY <1>1, <1>2, <1>3, PTL DEF FeeSpec

EraBounds == session \in -1 .. SessionsPerEra /\ signed \in BOOLEAN /\ queued \in BOOLEAN

(* The counters of slots, sessions and eras stay in their bounds. *)
LEMMA EraBoundsStep == EraBounds /\ [EraNext]_eraVars => EraBounds'
<1> SUFFICES ASSUME EraBounds, [EraNext]_eraVars PROVE EraBounds'
  OBVIOUS
<1> USE DEF EraBounds, setVars, clockVars, electionVars, stakeVars
<1>0. NextSession \in -1 .. SessionsPerEra /\ -1 \in -1 .. SessionsPerEra
  BY EraAssumption DEF NextSession
<1>1. ASSUME NEW skip \in 0 .. MaxSkip,
             \/ BlockAt(slot + 1 + skip) \/ StartSigned(slot + 1 + skip)
             \/ StartUnsigned(slot + 1 + skip)
      PROVE  EraBounds'
  BY <1>1 DEF BlockAt, StartSigned, StartUnsigned
<1>2. ASSUME NEW skip \in 0 .. MaxSkip,
             \/ RotateSession(slot + 1 + skip) \/ PlanEra(slot + 1 + skip)
             \/ ElectionFails(slot + 1 + skip)
      PROVE  EraBounds'
  BY <1>0, <1>2 DEF RotateSession, PlanEra, ElectionFails
<1>3. CASE \/ SubmitSigned \/ SubmitUnsigned \/ SetEmergencyResult
           \/ Offend \/ Unbond \/ WithdrawUnbonded \/ Report \/ CancelSlash
           \/ UNCHANGED eraVars
  BY <1>3 DEF SubmitSigned, SubmitUnsigned, SetEmergencyResult, Offend, Unbond,
              WithdrawUnbonded, Report, CancelSlash, eraVars
<1> QED
  BY <1>1, <1>2, <1>3 DEF EraNext

(* The state of epochs, eras, elections and stakes stays typed. *)
LEMMA ErasTyped == EraSpec => []EraTypeOK
<1>1. EraInit => StakeIInv /\ EraBounds
  <2>1. 0 \in -1 .. SessionsPerEra
    BY EraAssumption
  <2>2. EraInit => EraBounds
    BY <2>1 DEF EraInit, EraBounds
  <2> QED
    BY <2>2, EraInitInv, StakeInit DEF StakeIInv
<1>2. StakeIInv /\ EraBounds /\ [EraNext]_eraVars => (StakeIInv /\ EraBounds)'
  BY EraStepInv, StakeStep, EraBoundsStep DEF StakeIInv
<1>3. StakeIInv /\ EraBounds => EraTypeOK
  <2> SUFFICES ASSUME StakeIInv, EraBounds PROVE EraTypeOK
    OBVIOUS
  <2>1. slot \in 0 .. EpochDuration - 1 /\ startsIn \in 0 .. 1
    BY DEF StakeIInv, EraIInv, Clock
  <2>2. phase \in {"off", "signed", "unsigned", "emergency"} /\ phases \subseteq Both
    BY DEF StakeIInv, EraIInv, PhasesFollow
  <2>3. bond \in StakeStates /\ offence.state \in OffenceStates
    BY DEF StakeIInv, StakeFollows, Offences
  <2> QED
    BY <2>1, <2>2, <2>3 DEF EraBounds, EraTypeOK, Both, StakeStates, OffenceStates
<1> QED
  BY <1>1, <1>2, <1>3, PTL DEF EraSpec

(* The state of the polls and of the track stays typed. *)
LEMMA ReferendaTyped == RefSpec => []RefTypeOK
<1>1. RefIInv => RefTypeOK
  BY ReferendaAssumption DEF RefIInv, RefTyped, TrackTaken, RefTypeOK, Stages
<1> QED
  BY <1>1, RefInitInv, RefNextInv, PTL DEF RefSpec

(* The number does not leave its width: one is added to it only below its    *)
(* greatest value (pallets/votechain/src/lib.rs, cause_error).               *)
LEMMA ValueTyped == ValueSpec => []ValueTypeOK
<1>1. ValueInit => ValueTypeOK
  BY DEF ValueInit, ValueTypeOK
<1>2. ValueTypeOK /\ [ValueNext]_valueVars => ValueTypeOK'
  <2> SUFFICES ASSUME ValueTypeOK, [ValueNext]_valueVars PROVE ValueTypeOK'
    OBVIOUS
  <2>1. MaxValue \in Int
    BY WidthAssumption DEF MaxValue
  <2>2. ASSUME NEW origin \in Origins, NEW value \in 0 .. MaxValue, DoSomething(origin, value)
        PROVE  ValueTypeOK'
    BY <2>2 DEF DoSomething, ValueError, Put, ValueTypeOK
  <2>3. ASSUME NEW origin \in Origins, CauseError(origin) PROVE ValueTypeOK'
    <3>1. CASE something = NoValue \/ origin # "signed" \/ something = MaxValue
      BY <2>3, <3>1 DEF CauseError, CheckedAdd, ValueError, ValueTypeOK
    <3>2. CASE something # NoValue /\ origin = "signed" /\ something # MaxValue
      <4>1. something' = something + 1 /\ valueResult' = "ok" /\ something \in 0 .. MaxValue
        BY <2>3, <3>2 DEF CauseError, CheckedAdd, Put, ValueTypeOK
      <4> QED
        BY <2>1, <3>2, <4>1 DEF ValueTypeOK
    <3> QED
      BY <3>1, <3>2
  <2>4. CASE UNCHANGED valueVars
    BY <2>4 DEF valueVars, ValueTypeOK
  <2> QED
    BY <2>2, <2>3, <2>4 DEF ValueNext
<1> QED
  BY <1>1, <1>2, PTL DEF ValueSpec

(* TypesOK: the state of every part keeps its type, which for the fees says  *)
(* that no account is left with dust, and for the template's value that it   *)
(* does not overflow.                                                        *)
THEOREM RuntimeTyped == MCSpec => []TypesOK
<1>1. ProxySpec => []ProxyTypeOK
  <2>1. ProxyIInv => ProxyTypeOK
    BY DEF ProxyIInv
  <2> QED
    BY <2>1, ProxyInitInv, ProxyStepInv, PTL DEF ProxySpec
<1>2. MCSpec => /\ []ProxyTypeOK /\ []GovTypeOK /\ []FeeTypeOK /\ []LoadTypeOK
                /\ []EraTypeOK /\ []BagsTypeOK /\ []RefTypeOK /\ []ValueTypeOK
  BY <1>1, PartsAlone, GovTyped, FeesTyped, LoadIsTyped, ErasTyped, BagsAreTyped,
     ReferendaTyped, ValueTyped
<1>3. /\ ProxyTypeOK /\ GovTypeOK /\ FeeTypeOK /\ LoadTypeOK
      /\ EraTypeOK /\ BagsTypeOK /\ RefTypeOK /\ ValueTypeOK
      => TypesOK
  BY DEF TypesOK
<1> QED
  BY <1>2, <1>3, PTL

(* The safety invariants and the action properties of the runtime, all of    *)
(* them in every behaviour of the instance: proxies do not escalate, dissent *)
(* is heard, fees are conserved and follow the load, blocks fit, eras run    *)
(* soundly, reports bite, tracks decide, snapshots take the heaviest         *)
(* (runtime/src/lib.rs, impls.rs and voter_bags.rs).                         *)
THEOREM RuntimeSafe ==
    MCSpec => /\ []NoEscalation /\ []DissentHolds /\ []FeesConserved /\ []BlocksFit
              /\ []ErasSound /\ []ReportsBite /\ []TrackDecides
              /\ FeesFollowLoad /\ HeaviestVote
BY PartsAlone, ProxySafe, DissentIsHeard, FeesSafe, BlocksSafe, ErasRunSoundly,
   ReportsInTimeBite, TrackDecidesSoundly, FeesMoveWithLoad, SnapshotTakesHeaviest
=============================================================================
