---------------------------- MODULE TxButtonProofs ----------------------------
(***************************************************************************)
(* What the button of TxButton.js keeps of its calls, for every number of  *)
(* clicks.  Neither property about signed extrinsics is inductive alone:   *)
(* that a click can cancel what is still watched needs every earlier call  *)
(* to be at its end (Settled), and that again needs the click before it to *)
(* have cancelled what was watched.                                        *)
(***************************************************************************)
EXTENDS TxButton, TLAPS

(* The function the button holds is that of a click there has been. *)
HoldsPast == unsub \in Clicks => unsub <= clicks

(* All calls before the last click are at their end, the subscription of   *)
(* the last is held while it is open, and the status line is about it.     *)
Settled ==
    ~overtaken /\ ~IsSudoType =>
        /\ \A c \in Clicks : c # clicks => calls[c] \in {"none", "over", "lost"}
        /\ \A c \in Clicks : calls[c] = "watched" => unsub = c
        /\ status.of = clicks

TxIInv == TxTypeOK /\ HoldsPast /\ Settled

-----------------------------------------------------------------------------
(* Clicks are numbered from 1 on. *)
LEMMA ClickNumbers ==
    /\ MaxClicks \in Nat /\ Null \notin Clicks /\ Promise \notin Clicks
    /\ \A c \in Clicks : c \in Nat /\ c >= 1 /\ c <= MaxClicks
BY ClickBound DEF Clicks, Null, Promise

(* Before the first click nothing is held or shown. *)
LEMMA TxInitInv == ButtonInit => TxIInv
<1> SUFFICES ASSUME ButtonInit PROVE TxIInv
  OBVIOUS
<1>1. calls \in [Clicks -> Phases] /\ \A c \in Clicks : calls[c] = "none"
  BY DEF ButtonInit, Phases
<1>2. clicks = 0 /\ status \in [of : 0 .. MaxClicks, text : Texts] /\ status.of = 0
  <2>1. 0 \in 0 .. MaxClicks /\ "" \in Texts
    BY ClickNumbers DEF Texts
  <2>2. clicks = 0 /\ status = [of |-> 0, text |-> ""]
    BY DEF ButtonInit
  <2> QED
    BY <2>1, <2>2
<1>3. TxTypeOK
  <2>1. \A c \in Clicks : c > 0
    BY ClickNumbers
  <2>2. \A c \in Clicks : calls[c] = "none" <=> c > clicks
    BY <1>1, <1>2, <2>1
  <2>3. 0 \in 0 .. MaxClicks
    BY ClickNumbers
  <2> QED
    BY <1>1, <1>2, <2>2, <2>3 DEF ButtonInit, TxTypeOK
<1> QED
  BY <1>1, <1>2, <1>3, ClickNumbers DEF ButtonInit, TxIInv, HoldsPast, Settled

(* A step of one call that has begun, and stays so, keeps the types. *)
LEMMA CallStep ==
    ASSUME TxIInv, NEW c \in Clicks, calls[c] # "none",
           NEW phase \in Phases \ {"none"}, calls' = [calls EXCEPT ![c] = phase],
           UNCHANGED <<type, sudoKey, clicks, overtaken>>,
           unsub' \in {unsub, c, Null, Promise},
           status' = status \/ status' \in [of : {c}, text : Texts]
    PROVE  TxTypeOK' /\ HoldsPast'
<1>1. c \in 0 .. MaxClicks /\ c <= clicks
  BY ClickNumbers DEF TxIInv, TxTypeOK
<1>2. calls' \in [Clicks -> Phases] /\ \A d \in Clicks : calls'[d] = "none" <=> d > clicks'
  BY <1>1 DEF TxIInv, TxTypeOK
<1>3. status' \in [of : 0 .. MaxClicks, text : Texts]
  BY <1>1 DEF TxIInv, TxTypeOK
<1>4. unsub' \in Clicks \cup {Null, Promise} /\ HoldsPast'
  BY <1>1, ClickNumbers DEF TxIInv, TxTypeOK, HoldsPast
<1> QED
  BY <1>2, <1>3, <1>4 DEF TxIInv, TxTypeOK

(* While the calls of a signed button are settled, one that is under way is *)
(* the last.                                                               *)
LEMMA LastIsActive ==
    ASSUME TxIInv, ~overtaken, ~IsSudoType, NEW c \in Clicks,
           calls[c] \notin {"none", "over", "lost"}
    PROVE  c = clicks
BY DEF TxIInv, Settled

-----------------------------------------------------------------------------
(* A click cancels the subscription that the button holds and starts a call of its own. *)
LEMMA ClickKeeps == TxIInv /\ Click => TxIInv'
<1> SUFFICES ASSUME TxIInv, Click PROVE TxIInv'
  OBVIOUS
<1> DEFINE n == clicks + 1
<1>1. /\ clicks < MaxClicks /\ clicks' = n
      /\ calls' = [Cancelled EXCEPT ![n] = "account"]
      /\ unsub' = IF unsub \in Clicks THEN Null ELSE unsub
      /\ status' = [of |-> n, text |-> "Sending..."]
      /\ overtaken' = (overtaken \/ \E c \in Clicks : InProgress(c))
      /\ UNCHANGED <<type, sudoKey>>
  BY DEF Click
<1>2. n \in Clicks /\ clicks \in Nat /\ n > clicks
  BY <1>1, ClickNumbers DEF TxIInv, TxTypeOK, Clicks
<1>3. Cancelled \in [Clicks -> Phases]
  BY DEF Cancelled, TxIInv, TxTypeOK, Phases
<1>4. calls' \in [Clicks -> Phases]
      /\ \A c \in Clicks : calls'[c] = IF c = n THEN "account" ELSE Cancelled[c]
  BY <1>1, <1>2, <1>3 DEF Phases
<1>5. \A c \in Clicks : Cancelled[c] = "none" <=> c > clicks
  <2> SUFFICES ASSUME NEW c \in Clicks PROVE Cancelled[c] = "none" <=> c > clicks
    OBVIOUS
  <2>1. CASE c = unsub
    <3>1. Cancelled[c] = "over" /\ c <= clicks
      BY <2>1 DEF Cancelled, TxIInv, HoldsPast
    <3> QED
      BY <3>1, <1>2, ClickNumbers
  <2>2. CASE c # unsub
    BY <2>2 DEF Cancelled, TxIInv, TxTypeOK
  <2> QED
    BY <2>1, <2>2
<1>6. \A c \in Clicks : calls'[c] = "none" <=> c > clicks'
  <2> SUFFICES ASSUME NEW c \in Clicks PROVE calls'[c] = "none" <=> c > clicks'
    OBVIOUS
  <2>1. c \in Nat
    BY ClickNumbers
  <2>2. c # n => (c > clicks <=> c > clicks')
    BY <1>1, <1>2, <2>1
  <2>3. ~(n > clicks')
    BY <1>1, <1>2
  <2> QED
    BY <1>4, <1>5, <2>2, <2>3
<1>7. unsub' \in {Null, Promise} /\ unsub' \notin Clicks
  BY <1>1, ClickNumbers DEF TxIInv, TxTypeOK
<1>8. TxTypeOK'
  <2>1. clicks' \in 0 .. MaxClicks /\ status' \in [of : 0 .. MaxClicks, text : Texts]
    BY <1>1, <1>2, ClickNumbers DEF Texts
  <2>2. {sudoKey', overtaken'} \subseteq BOOLEAN /\ type' \in Types
    BY <1>1 DEF TxIInv, TxTypeOK
  <2> QED
    BY <1>4, <1>6, <1>7, <2>1, <2>2 DEF TxTypeOK
<1>9. ASSUME ~overtaken', ~IsSudoType', NEW c \in Clicks, c # clicks'
      PROVE  calls'[c] \in {"none", "over", "lost"}
  <2>1. ~overtaken /\ ~IsSudoType /\ ~InProgress(c)
    BY <1>1, <1>9 DEF IsSudoType
  <2>2. calls'[c] = Cancelled[c]
    BY <1>1, <1>4, <1>9
  <2>3. calls[c] = "watched" => unsub = c
    BY <2>1 DEF TxIInv, Settled
  <2>4. calls[c] \in Phases
    BY DEF TxIInv, TxTypeOK
  <2> QED
    BY <2>1, <2>2, <2>3, <2>4 DEF Cancelled, InProgress, Phases
<1>10. Settled'
  BY <1>1, <1>2, <1>4, <1>9 DEF Settled
<1> QED
  BY <1>7, <1>8, <1>10 DEF TxIInv, HoldsPast

(* Answers, updates and clicks, in any order, keep the invariant. *)
LEMMA TxStepInv == TxIInv /\ [ButtonNext]_buttonVars => TxIInv'
<1> SUFFICES ASSUME TxIInv, [ButtonNext]_buttonVars PROVE TxIInv'
  OBVIOUS
<1> USE DEF IsSudoType
<1>1. CASE LoadSudoKey
  BY <1>1 DEF LoadSudoKey, TxIInv, TxTypeOK, HoldsPast, Settled
<1>2. CASE Click
  BY <1>2, ClickKeeps
<1>3. ASSUME NEW c \in Clicks, SignerFound(c) PROVE TxIInv'
  <2>1. TxTypeOK' /\ HoldsPast'
    BY <1>3, CallStep DEF SignerFound, Phases
  <2>2. Settled'
    BY <1>3, LastIsActive DEF SignerFound, TxIInv, TxTypeOK, Settled
  <2> QED
    BY <2>1, <2>2 DEF TxIInv
<1>4. ASSUME NEW c \in Clicks, NoSigner(c) PROVE TxIInv'
  <2>1. TxTypeOK' /\ HoldsPast'
    BY <1>4, CallStep DEF NoSigner, Phases
  <2>2. Settled'
    BY <1>4, LastIsActive DEF NoSigner, TxIInv, TxTypeOK, Settled
  <2> QED
    BY <2>1, <2>2 DEF TxIInv
<1>5. ASSUME NEW c \in Clicks, Subscribed(c) PROVE TxIInv'
  <2>1. TxTypeOK' /\ HoldsPast'
    BY <1>5, CallStep DEF Subscribed, Kept, Phases
  <2>2. Settled'
    BY <1>5, LastIsActive DEF Subscribed, Kept, TxIInv, TxTypeOK, Settled
  <2> QED
    BY <2>1, <2>2 DEF TxIInv
<1>6. ASSUME NEW c \in Clicks, SendFails(c) PROVE TxIInv'
  <2>1. TxTypeOK' /\ HoldsPast'
    BY <1>6, CallStep DEF SendFails, TxErrHandler, Phases, Texts
  <2>2. Settled'
    BY <1>6, LastIsActive DEF SendFails, TxErrHandler, TxIInv, TxTypeOK, Settled
  <2> QED
    BY <2>1, <2>2 DEF TxIInv
<1>7. ASSUME NEW c \in Clicks, NEW isFinalized \in BOOLEAN, Heard(c, isFinalized)
      PROVE  TxIInv'
  <2>1. TxTypeOK' /\ HoldsPast'
    BY <1>7, CallStep DEF Heard, Phases, Texts
  <2>2. Settled'
    BY <1>7, LastIsActive DEF Heard, TxIInv, TxTypeOK, Settled
  <2> QED
    BY <2>1, <2>2 DEF TxIInv
<1>8. CASE UNCHANGED buttonVars
  BY <1>8 DEF buttonVars, TxIInv, TxTypeOK, HoldsPast, Settled
<1> QED
  BY <1>1, <1>2, <1>3, <1>4, <1>5, <1>6, <1>7, <1>8 DEF ButtonNext, Answered

(* The invariant holds for any number of clicks. *)
THEOREM TxInvariance == ButtonSpec => []TxIInv
BY TxInitInv, TxStepInv, PTL DEF ButtonSpec

-----------------------------------------------------------------------------
(* The state of the button is typed, and a call has begun exactly when its *)
(* click has come (TxButton.js, transaction).                              *)
THEOREM TxTyped == ButtonSpec => []TxTypeOK
<1>1. TxIInv => TxTypeOK
  BY DEF TxIInv
<1> QED
  BY <1>1, TxInvariance, PTL

(* As long as no click overtook another, the button can cancel whatever is *)
(* still watched (TxButton.js, signedTx and transaction).                  *)
THEOREM TxSubscriptionHeld == ButtonSpec => []OpenSubscriptionHeld
<1>1. TxIInv => OpenSubscriptionHeld
  BY DEF TxIInv, Settled, OpenSubscriptionHeld
<1> QED
  BY <1>1, TxInvariance, PTL

(* As long as no click overtook another, the status line is about the last *)
(* one (TxButton.js, txResHandler and txErrHandler).                       *)
THEOREM TxStatusIsLast == ButtonSpec => []StatusOfLastClick
<1>1. TxIInv => StatusOfLastClick
  BY DEF TxIInv, Settled, StatusOfLastClick
<1> QED
  BY <1>1, TxInvariance, PTL
=============================================================================
