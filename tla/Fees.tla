--------------------------------- MODULE Fees ---------------------------------
(***************************************************************************)
(* What becomes of the fee of an extrinsic: DealWithFees of lib.rs splits  *)
(* fees and tips between the treasury and the author of the block, Author  *)
(* of impls.rs pays the author.                                            *)
(*                                                                         *)
(* Money is held by three accounts, or is an imbalance in somebody's hands *)
(* for the length of a step; what is dropped there leaves the issuance.    *)
(* The payer is charged the most an extrinsic may cost before it runs and  *)
(* is given back what it did not cost.                                     *)
(***************************************************************************)
EXTENDS Integers

CONSTANTS
    ExistentialDeposit,     \* no account holds less
    Funds,                  \* what the payer starts with
    Prices,                 \* bound: what extrinsics cost, and tip
    MaxCharges              \* bound: how many extrinsics are charged

ASSUME FeesAssumption ==
    /\ ExistentialDeposit \in Nat \ {0} /\ Funds \in Nat /\ Prices \subseteq Nat
    /\ MaxCharges \in Nat
    /\ Funds >= ExistentialDeposit

VARIABLES
    free,           \* the balance of each account
    issuance,       \* what the balances pallet takes their sum to be
    author,         \* whether the block names an author
    charge,         \* the extrinsic under way: what was taken for it
    books           \* history: all that was charged, and what became of it

feeVars == <<free, issuance, author, charge, books>>

Holders == {"payer", "treasury", "author"}

-----------------------------------------------------------------------------
(* Mutant: each share is rounded by itself. *)
RationBoth(amount) ==
    [treasury |-> (amount * 80) \div 100, author |-> (amount * 20) \div 100]

(* Imbalance::ration(80, 20): the first share is rounded, the second is what *)
(* is left.                                                                  *)
Ration(amount) ==
    LET first == (amount * 80) \div 100
    IN  [treasury |-> first, author |-> amount - first]

(* Tips are rationed apart and merged. *)
Shares(fee, tip) ==
    LET f == Ration(fee)  t == Ration(tip)
    IN  [treasury |-> f.treasury + t.treasury, author |-> f.author + t.author]

(* Mutant: the account is created, whatever it is left with. *)
AllCredited(balance, amount) == amount

(* resolve_creating: an account that is not there and would hold less than   *)
(* the existential deposit is not created.  What is not credited is dropped. *)
Credited(balance, amount) ==
    IF balance = 0 /\ amount < ExistentialDeposit THEN 0 ELSE amount

-----------------------------------------------------------------------------
NoCharge == [fee |-> 0, tip |-> 0, open |-> FALSE]

FeeInit ==
    /\ free = [h \in Holders |-> IF h = "payer" THEN Funds
                                ELSE IF h = "treasury" THEN ExistentialDeposit ELSE 0]
    /\ issuance = Funds + ExistentialDeposit
    /\ author = TRUE
    /\ charge = NoCharge
    /\ books = [charged |-> 0, treasury |-> 0, author |-> 0, burned |-> 0, count |-> 0]

(* A block names its author, or no digest of it does. *)
NextBlock ==
    /\ ~charge.open
    /\ author' \in BOOLEAN
    /\ UNCHANGED <<free, issuance, charge, books>>

(* withdraw_fee keeps the payer alive. *)
Withdraw(fee, tip) ==
    /\ ~charge.open /\ fee + tip > 0 /\ books.count < MaxCharges
    /\ free["payer"] - (fee + tip) >= ExistentialDeposit
    /\ free' = [free EXCEPT !["payer"] = @ - (fee + tip)]
    /\ charge' = [fee |-> fee, tip |-> tip, open |-> TRUE]
    /\ UNCHANGED <<issuance, author, books>>

(* The call itself may spend all the payer has, and reap its account. *)
SpendAll ==
    /\ charge.open /\ free["payer"] > 0
    /\ free' = [free EXCEPT !["payer"] = 0, !["treasury"] = @ + free["payer"]]
    /\ UNCHANGED <<issuance, author, charge, books>>

(* correct_and_deposit_fee: the refund goes to the payer if it is still      *)
(* there and stays with the fee if not; then DealWithFees.                   *)
Deposit(actual) ==
    /\ charge.open /\ actual <= charge.fee
    /\ LET refund == IF free["payer"] = 0 THEN 0 ELSE charge.fee - actual
           paid == charge.fee + charge.tip - refund
           shares == Shares(paid - charge.tip, charge.tip)
           treasury == Credited(free["treasury"], shares.treasury)
           authors == IF author THEN Credited(free["author"], shares.author) ELSE 0
           dropped == shares.treasury + shares.author - treasury - authors
       IN  /\ free' = [payer |-> free["payer"] + refund,
                       treasury |-> free["treasury"] + treasury,
                       author |-> free["author"] + authors]
           /\ issuance' = issuance - dropped
           /\ books' = [charged |-> books.charged + paid,
                        treasury |-> books.treasury + treasury,
                        author |-> books.author + authors,
                        burned |-> books.burned + dropped,
                        count |-> books.count + 1]
    /\ charge' = NoCharge
    /\ UNCHANGED author

FeeNext ==
    \/ NextBlock
    \/ \E fee, tip \in Prices : Withdraw(fee, tip)
    \/ SpendAll
    \/ \E actual \in Prices : Deposit(actual)

FeeSpec == FeeInit /\ [][FeeNext]_feeVars

-----------------------------------------------------------------------------
FeeTypeOK ==
    /\ free \in [Holders -> Nat] /\ issuance \in Nat /\ author \in BOOLEAN
    /\ \A h \in Holders : free[h] = 0 \/ free[h] >= ExistentialDeposit
    /\ charge.open \/ charge = NoCharge
    /\ books \in [DOMAIN books -> Nat]

(* No money appears or vanishes: the issuance is what the accounts hold and  *)
(* what is in the hands of the fee handler, and what was charged is paid out *)
(* or burned.  Of it the treasury has four fifths up to a unit for each fee  *)
(* and each tip, and only what the author misses is burned.                  *)
FeesConserved ==
    /\ free["payer"] + free["treasury"] + free["author"] + charge.fee + charge.tip = issuance
    /\ books.charged = books.treasury + books.author + books.burned
    /\ 5 * books.treasury <= 4 * books.charged
    /\ 5 * books.treasury >= 4 * books.charged - 8 * books.count
=============================================================================
