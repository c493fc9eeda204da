------------------------------- MODULE TxButton -------------------------------
(***************************************************************************)
(* TxButton.js: one button that sends extrinsics and writes what becomes   *)
(* of them to one status line.                                             *)
(*                                                                         *)
(* A click cancels the subscription the button holds, if it holds one, and *)
(* starts an asynchronous call: find the signer of the account, have the   *)
(* extrinsic signed and sent, then hear of it until it is finalized.  The  *)
(* button is not disabled meanwhile, so a click may overtake another one.  *)
(* signedTx awaits signAndSend and keeps the function that cancels the     *)
(* subscription; sudoTx and uncheckedSudoTx do not await it, and keep a    *)
(* promise, which no click can call.                                       *)
(***************************************************************************)
EXTENDS Naturals

CONSTANTS
    Types,          \* the types of button: "SIGNED-TX", "SUDO-TX", "UNCHECKED-SUDO-TX"
    MaxClicks       \* bound: how often the button is clicked

ASSUME TypesAssumption == Types \subseteq {"SIGNED-TX", "SUDO-TX", "UNCHECKED-SUDO-TX"}
ASSUME ClickBound == MaxClicks \in Nat

Clicks == 1 .. MaxClicks

(* What a function-valued hook may hold instead of a subscription. *)
Null == 0
Promise == MaxClicks + 1

VARIABLES
    type,           \* the property of the button
    sudoKey,        \* whether the key is loaded; the account in use has it
    clicks,         \* the last click; each click is one call of transaction()
    calls,          \* how far each of them is
    unsub,          \* Null, Promise, or the click whose subscription it cancels
    status,         \* the status line: of which click, and what it says
    overtaken       \* history: a click came while an earlier one was being sent

buttonVars == <<type, sudoKey, clicks, calls, unsub, status, overtaken>>

Phases == {"none", "account", "sending", "watched", "over", "lost"}
Texts == {"", "Sending...", "Current transaction status", "Finalized", "Transaction Failed"}

IsSudoType == type # "SIGNED-TX"

-----------------------------------------------------------------------------
ButtonInit ==
    /\ type \in Types
    /\ sudoKey = FALSE
    /\ clicks = 0
    /\ calls = [c \in Clicks |-> "none"]
    /\ unsub = Null
    /\ status = [of |-> 0, text |-> ""]
    /\ overtaken = FALSE

(* sudo.key() is answered after the button has been mounted. *)
LoadSudoKey ==
    /\ ~sudoKey
    /\ sudoKey' = TRUE
    /\ UNCHANGED <<type, clicks, calls, unsub, status, overtaken>>

InProgress(c) == calls[c] \in {"account", "sending"}

(* Mutant: the subscription the button holds is forgotten, not cancelled. *)
Forgotten == calls

Cancelled == [c \in Clicks |-> IF c = unsub THEN "over" ELSE calls[c]]

Click ==
    /\ clicks < MaxClicks
    /\ IsSudoType => sudoKey
    /\ clicks' = clicks + 1
    /\ calls' = [Cancelled EXCEPT ![clicks + 1] = "account"]
    /\ unsub' = IF unsub \in Clicks THEN Null ELSE unsub
    /\ status' = [of |-> clicks + 1, text |-> "Sending..."]
    /\ overtaken' = (overtaken \/ \E c \in Clicks : InProgress(c))
    /\ UNCHANGED <<type, sudoKey>>

(* getFromAcct has the signer; signAndSend is called.  The sudo calls go on *)
(* at once with its promise.                                               *)
SignerFound(c) ==
    /\ calls[c] = "account"
    /\ calls' = [calls EXCEPT ![c] = "sending"]
    /\ unsub' = IF IsSudoType THEN Promise ELSE unsub
    /\ UNCHANGED <<type, sudoKey, clicks, status, overtaken>>

(* web3FromSource throws: nothing catches it. *)
NoSigner(c) ==
    /\ calls[c] = "account"
    /\ calls' = [calls EXCEPT ![c] = "lost"]
    /\ UNCHANGED <<type, sudoKey, clicks, unsub, status, overtaken>>

(* Mutant: the function that cancels is not kept. *)
NotKept(c) == unsub

Kept(c) == IF IsSudoType THEN unsub ELSE c

(* The node has taken the extrinsic: signAndSend resolves. *)
Subscribed(c) ==
    /\ calls[c] = "sending"
    /\ calls' = [calls EXCEPT ![c] = "watched"]
    /\ unsub' = Kept(c)
    /\ UNCHANGED <<type, sudoKey, clicks, status, overtaken>>

(* Mutant: the error itself is shown. *)
RawError(c) == [of |-> c, text |-> "Error"]

(* Mutant: a failure is not caught. *)
Uncaught(c) == status

TxErrHandler(c) == [of |-> c, text |-> "Transaction Failed"]

(* The user does not sign, or the node refuses: the promise that catch     *)
(* makes resolves to undefined, and signedTx stores that.                  *)
SendFails(c) ==
    /\ calls[c] = "sending"
    /\ calls' = [calls EXCEPT ![c] = "over"]
    /\ unsub' = IF IsSudoType THEN unsub ELSE Null
    /\ status' = TxErrHandler(c)
    /\ UNCHANGED <<type, sudoKey, clicks, overtaken>>

(* txResHandler; the subscription ends with the finalized block. *)
Heard(c, isFinalized) ==
    /\ calls[c] = "watched"
    /\ calls' = [calls EXCEPT ![c] = IF isFinalized THEN "over" ELSE @]
    /\ status' = [of |-> c, text |->
                    IF isFinalized THEN "Finalized" ELSE "Current transaction status"]
    /\ UNCHANGED <<type, sudoKey, clicks, unsub, overtaken>>

Answered(c) == Subscribed(c) \/ SendFails(c)

ButtonNext ==
    \/ LoadSudoKey
    \/ Click
    \/ \E c \in Clicks :
        \/ SignerFound(c) \/ NoSigner(c)
        \/ Answered(c)
        \/ \E isFinalized \in BOOLEAN : Heard(c, isFinalized)

ButtonSpec == ButtonInit /\ [][ButtonNext]_buttonVars

(* The signer is found or is not, the node answers what it is sent, and    *)
(* there is news of what it has taken, though perhaps never the last; the  *)
(* user clicks or does not.                                                *)
ButtonFairness ==
    \A c \in Clicks :
        /\ WF_buttonVars(SignerFound(c) \/ NoSigner(c))
        /\ WF_buttonVars(Answered(c))
        /\ WF_buttonVars(Heard(c, FALSE))

-----------------------------------------------------------------------------
TxTypeOK ==
    /\ type \in Types /\ {sudoKey, overtaken} \subseteq BOOLEAN
    /\ clicks \in 0 .. MaxClicks
    /\ calls \in [Clicks -> Phases]
    /\ unsub \in Clicks \cup {Null, Promise}
    /\ status \in [of : 0 .. MaxClicks, text : Texts]
    /\ \A c \in Clicks : calls[c] = "none" <=> c > clicks

(* A button for signed extrinsics can cancel every subscription that is    *)
(* still open, unless a click overtook another: the failure or the late    *)
(* success of an earlier call takes the place of a later one's function.   *)
OpenSubscriptionHeld ==
    ~overtaken /\ ~IsSudoType =>
        \A c \in Clicks : calls[c] = "watched" => unsub = c

(* The status line of such a button is about the last click: no news of an *)
(* extrinsic sent before replaces it, unless a click overtook another.     *)
StatusOfLastClick ==
    ~overtaken /\ ~IsSudoType => status.of = clicks

(* No button goes on saying "Sending..." for ever, whichever of its calls  *)
(* overlap or fail, unless there was no signer for the last one.           *)
SendingEnds ==
    status.text = "Sending..." ~>
        (status.text # "Sending..." \/ calls[status.of] = "lost")

=============================================================================
