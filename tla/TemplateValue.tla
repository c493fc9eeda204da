---------------------------- MODULE TemplateValue ----------------------------
(***************************************************************************)
(* The two calls that pallet-votechain keeps from the template it grew     *)
(* from: one stores a number, the other adds one to it.  The number has a  *)
(* fixed width; the calls share no storage with the elections.             *)
(***************************************************************************)
EXTENDS Integers

CONSTANT Width      \* bits of the number, 32

ASSUME WidthAssumption == Width \in Nat

VARIABLES
    something,      \* Something, the storage item
    valueResult     \* the event or the error of the last call

valueVars == <<something, valueResult>>

NoValue == -1
MaxValue == 2 ^ Width - 1
Origins == {"signed", "root", "none"}

ValueInit == something = NoValue /\ valueResult = "nothing_yet"

(* A call that fails leaves the storage alone. *)
ValueError(why) == valueResult' = why /\ UNCHANGED something
Put(new, event) == something' = new /\ valueResult' = event

(* Mutant: the sum is stored whatever it is. *)
UncheckedAdd(old) == Put(old + 1, "ok")

CheckedAdd(old) ==
    IF old = MaxValue THEN ValueError("StorageOverflow") ELSE Put(old + 1, "ok")

DoSomething(origin, value) ==
    IF origin # "signed" THEN ValueError("BadOrigin") ELSE Put(value, "SomethingStored")

CauseError(origin) ==
    IF origin # "signed" THEN ValueError("BadOrigin")
    ELSE IF something = NoValue THEN ValueError("NoneValue")
    ELSE CheckedAdd(something)

ValueNext ==
    \E origin \in Origins :
        \/ \E value \in 0 .. MaxValue : DoSomething(origin, value)
        \/ CauseError(origin)

ValueSpec == ValueInit /\ [][ValueNext]_valueVars

-----------------------------------------------------------------------------
ValueTypeOK ==
    /\ something \in {NoValue} \cup 0 .. MaxValue
    /\ valueResult \in {"nothing_yet", "ok", "SomethingStored", "BadOrigin", "NoneValue",
                        "StorageOverflow"}
=============================================================================
