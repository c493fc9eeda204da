-------------------------- MODULE GovernanceProofs --------------------------
(***************************************************************************)
(* The proxies, the bodies and the referenda of the runtime, for all of    *)
(* their parameters.                                                       *)
(***************************************************************************)
EXTENDS ProxyRules, Governance, Referenda, FiniteSetTheorems, TLAPS

-----------------------------------------------------------------------------
(***************************************************************************)
(* NoEscalation for every set of accounts and every number of grants.  The *)
(* invariant is inductive once it speaks of the grants that stand as well  *)
(* as of the call under way, and of kinds instead of calls: each kind is   *)
(* covered by one that its account gave away.                              *)
(***************************************************************************)

GrantsCovered == \A g \in grants : Covered(g.of, g.kind)
ActingCovered == acting.through # "signed" => Covered(acting.for, acting.through)
ProxyIInv == ProxyTypeOK /\ GrantsCovered /\ ActingCovered

-----------------------------------------------------------------------------
(* The order of the kinds is sound: a kind lets every call pass that a kind  *)
(* below it does (lib.rs, is_superset against filter).                       *)
THEOREM SupersetSound ==
    ASSUME NEW t \in ProxyTypes, NEW u \in ProxyTypes, IsSuperset(t, u)
    PROVE  Filter(u) \subseteq Filter(t)
<1>1. CASE t = u
  BY <1>1
<1>2. CASE t = "Any"
  <2>1. Filter(t) = Calls
    BY <1>2 DEF Filter
  <2> QED
    BY <2>1 DEF Filter, ProxyTypes, Calls, Transfers, Governing
<1>3. CASE u # "Any" /\ t = "NonTransfer"
  <2>1. Filter(t) = Calls \ Transfers
    BY <1>3 DEF Filter
  <2>2. Governing \cup {"Staking"} \subseteq Calls \ Transfers
    BY DEF Calls, Transfers, Governing
  <2>3. u = t \/ Filter(u) = Governing \/ Filter(u) = {"Staking"}
    BY <1>3 DEF Filter, ProxyTypes
  <2> QED
    BY <2>1, <2>2, <2>3
<1> QED
  BY <1>1, <1>2, <1>3 DEF IsSuperset

(* The order is transitive: what a delegate may hand on is below what the    *)
(* delegate holds, however often it is handed on.                            *)
LEMMA SupersetTransitive ==
    ASSUME NEW t, NEW u, NEW v, IsSuperset(t, u), IsSuperset(u, v)
    PROVE  IsSuperset(t, v)
BY DEF IsSuperset

(* A covered kind stays covered by what covers the kind above it. *)
LEMMA CoveredBelow ==
    ASSUME NEW a, NEW t, NEW u, Covered(a, t), IsSuperset(t, u)
    PROVE  Covered(a, u)
<1>1. PICK w \in given[a] : IsSuperset(w, t)
  BY DEF Covered
<1>2. IsSuperset(w, u)
  BY <1>1, SupersetTransitive
<1> QED
  BY <1>1, <1>2 DEF Covered

-----------------------------------------------------------------------------
(* Nothing has been granted before the first add_proxy. *)
LEMMA ProxyInitInv == ProxyInit => ProxyIInv
BY SomeAccount DEF ProxyInit, ProxyIInv, ProxyTypeOK, GrantsCovered, ActingCovered

(* Signing, proxying, granting and revoking keep it, in any order and of any accounts. *)
LEMMA ProxyStepInv == ProxyIInv /\ [ProxyNext]_proxyVars => ProxyIInv'
<1> SUFFICES ASSUME ProxyIInv, [ProxyNext]_proxyVars PROVE ProxyIInv'
  OBVIOUS
<1> USE DEF ProxyIInv
<1>1. ASSUME NEW a \in Accounts, Sign(a) PROVE ProxyIInv'
  BY <1>1 DEF Sign, ProxyTypeOK, GrantsCovered, ActingCovered, Covered
<1>2. ASSUME NEW g \in grants, ProxyCall(g) PROVE ProxyIInv'
  <2>1. g \in [of : Accounts, to : Accounts, kind : ProxyTypes] /\ Covered(g.of, g.kind)
    BY DEF ProxyTypeOK, GrantsCovered
  <2>2. acting' = [for |-> g.of, through |-> g.kind] /\ UNCHANGED <<grants, given>>
    BY <1>2 DEF ProxyCall
  <2>3. ProxyTypeOK'
    BY <2>1, <2>2 DEF ProxyTypeOK
  <2>4. Covered(g.of, g.kind)'
    BY <2>1, <2>2 DEF Covered
  <2>5. ActingCovered'
    BY <2>2, <2>4 DEF ActingCovered, Covered
  <2> QED
    BY <2>2, <2>3, <2>5 DEF GrantsCovered, Covered
<1>3. ASSUME NEW g \in grants, RemoveProxy(g) PROVE ProxyIInv'
  BY <1>3 DEF RemoveProxy, ProxyTypeOK, GrantsCovered, ActingCovered, Covered
<1>4. ASSUME NEW d \in Accounts, NEW t \in ProxyTypes, AddProxy(d, t) PROVE ProxyIInv'
  <2> DEFINE g == [of |-> acting.for, to |-> d, kind |-> t]
  <2>1. /\ acting.for \in Accounts /\ acting' = acting
        /\ grants' = grants \cup {g}
        /\ IF acting.through = "signed"
             THEN given' = [given EXCEPT ![acting.for] = @ \cup {t}]
             ELSE given' = given
    BY <1>4 DEF AddProxy, ProxyTypeOK
  <2>2. ProxyTypeOK'
    BY <2>1 DEF ProxyTypeOK
  <2>3. \A a \in Accounts : given[a] \subseteq given'[a]
    BY <2>1 DEF ProxyTypeOK
  <2>4. \A a \in Accounts, u \in ProxyTypes : Covered(a, u) => Covered(a, u)'
    BY <2>3 DEF Covered
  <2>5. Covered(acting.for, t)'
    <3>1. CASE acting.through = "signed"
      <4>1. t \in given'[acting.for]
        BY <2>1, <3>1 DEF ProxyTypeOK
      <4> QED
        BY <4>1, <2>1 DEF Covered, IsSuperset
    <3>2. CASE acting.through # "signed"
      <4>1. IsSuperset(acting.through, t)
        BY <1>4, <3>2 DEF AddProxy, MayChange
      <4>2. Covered(acting.for, t)
        BY <3>2, <4>1, CoveredBelow DEF ActingCovered
      <4> QED
        BY <4>2, <2>1, <2>4
    <3> QED
      BY <3>1, <3>2
  <2>6. GrantsCovered'
    <3> SUFFICES ASSUME NEW h \in grants' PROVE Covered(h.of, h.kind)'
      BY DEF GrantsCovered
    <3>1. CASE h \in grants
      BY <3>1, <2>4 DEF GrantsCovered, ProxyTypeOK
    <3>2. CASE h = g
      BY <3>2, <2>5, <2>1 DEF Covered
    <3> QED
      BY <2>1, <3>1, <3>2
  <2>7. ActingCovered'
    BY <2>1, <2>4 DEF ActingCovered, ProxyTypeOK, Covered
  <2> QED
    BY <2>2, <2>6, <2>7
<1>5. ASSUME RemoveProxies PROVE ProxyIInv'
  <2>1. CASE acting.through = "signed"
    <3>1. \A a \in Accounts : a # acting.for => given'[a] = given[a]
      BY <1>5, <2>1 DEF RemoveProxies, ProxyTypeOK
    <3>2. GrantsCovered'
      BY <1>5, <3>1 DEF RemoveProxies, GrantsCovered, Covered, ProxyTypeOK
    <3> QED
      BY <1>5, <2>1, <3>2 DEF RemoveProxies, ActingCovered, ProxyTypeOK
  <2>2. CASE acting.through # "signed"
    BY <1>5, <2>2 DEF RemoveProxies, GrantsCovered, ActingCovered, Covered, ProxyTypeOK
  <2> QED
    BY <2>1, <2>2
<1>6. CASE UNCHANGED proxyVars
  BY <1>6 DEF proxyVars, ProxyTypeOK, GrantsCovered, ActingCovered, Covered
<1> QED
  BY <1>1, <1>2, <1>3, <1>4, <1>5, <1>6 DEF ProxyNext

(* The invariant says of every call that passed what the filters promise. *)
LEMMA ProxyIInvImplies == ProxyIInv => NoEscalation
<1> SUFFICES ASSUME ProxyIInv, acting.through # "signed",
                    NEW c \in Scope(acting.through)
             PROVE  \E u \in given[acting.for] : c \in Filter(u)
  BY DEF NoEscalation
<1>1. acting.through \in ProxyTypes /\ given[acting.for] \subseteq ProxyTypes
  BY DEF ProxyIInv, ProxyTypeOK
<1>2. PICK u \in given[acting.for] : IsSuperset(u, acting.through)
  BY DEF ProxyIInv, ActingCovered, Covered
<1>3. c \in Filter(u)
  BY <1>1, <1>2, SupersetSound DEF Scope
<1> QED
  BY <1>3

-----------------------------------------------------------------------------
(* Whatever delegates do for an account, by themselves or through each       *)
(* other, the account has given away (lib.rs, ProxyType).                    *)
THEOREM ProxySafe == ProxySpec => []NoEscalation
BY ProxyInitInv, ProxyStepInv, ProxyIInvImplies, PTL DEF ProxySpec

-----------------------------------------------------------------------------
(***************************************************************************)
(* DissentHolds for every council, every set of experts and every set of   *)
(* people who object.  The invariant says the same of what waits to be     *)
(* voted on and of payments that are approved, so that what was asked of   *)
(* the council holds when the committee, or time, takes it further.        *)
(***************************************************************************)

Seats == Cardinality(Council)
Against == Cardinality(dissent \cap Council)

Quarter == 4 * Against <= Seats

GovIInv ==
    /\ external = "majority" => Quarter
    /\ external = "default" => Quarter /\ Against = 0
    /\ referendum.count = "majority" \/ referendum.track \in {"fast", "instant"} => Quarter
    /\ referendum.count = "default" => Against = 0
    /\ payment \in {"approved", "paid"} => 5 * Against <= 2 * Seats
    /\ decree = "slash_cancelled" => Quarter
    /\ membership # {} \/ decree = "society_founded" => 2 * Against < Seats

-----------------------------------------------------------------------------
(* The ayes of a motion are none of those who object. *)
LEMMA AyesAndAgainst ==
    /\ Seats \in Nat \ {0} /\ Against \in Nat
    /\ \A ayes \in Willing(Council) : ayes \in Nat /\ ayes + Against <= Seats
<1>1. IsFiniteSet(Council) /\ Council # {}
  BY CouncilAssumption
<1>2. Seats \in Nat \ {0}
  BY <1>1, FS_CardinalityType, FS_EmptySet DEF Seats
<1>3. Against \in Nat
  BY <1>1, FS_Intersection, FS_CardinalityType DEF Against
<1>4. Cardinality(Council \ dissent) = Seats - Cardinality(Council \cap dissent)
  BY <1>1, FS_Difference DEF Seats
<1>5. Council \cap dissent = dissent \cap Council
  OBVIOUS
<1>6. Cardinality(Council \ dissent) = Seats - Against
  BY <1>4, <1>5 DEF Against
<1>7. ASSUME NEW ayes \in Willing(Council) PROVE ayes \in Nat /\ ayes + Against <= Seats
  <2>1. ayes \in 1 .. Seats - Against
    BY <1>6 DEF Willing
  <2> QED
    BY <1>2, <1>3, <2>1
<1> QED
  BY <1>2, <1>3, <1>7

(* What each proportion of the council says of those who object. *)
LEMMA Proportions ==
    ASSUME NEW ayes \in Willing(Council)
    PROVE  /\ ExternalMajorityOrigin(ayes) \/ SlashCancelOrigin(ayes) => Quarter
           /\ ExternalDefaultOrigin(ayes) => Quarter /\ Against = 0
           /\ ApproveOrigin(ayes) => 5 * Against <= 2 * Seats
           /\ HalfCouncil(ayes) \/ FounderSetOrigin(ayes) => 2 * Against < Seats
<1>1. /\ Seats \in Nat /\ Against \in Nat /\ ayes \in Nat /\ ayes + Against <= Seats
  BY AyesAndAgainst
<1>2. ExternalMajorityOrigin(ayes) \/ SlashCancelOrigin(ayes) => ayes * 4 >= 3 * Seats
  BY DEF ExternalMajorityOrigin, SlashCancelOrigin, AtLeast, Seats
<1>3. ExternalDefaultOrigin(ayes) => ayes * 1 >= 1 * Seats
  BY DEF ExternalDefaultOrigin, AtLeast, Seats
<1>4. ApproveOrigin(ayes) => ayes * 5 >= 3 * Seats
  BY DEF ApproveOrigin, AtLeast, Seats
<1>5. HalfCouncil(ayes) \/ FounderSetOrigin(ayes) => ayes * 2 > 1 * Seats
  BY DEF HalfCouncil, FounderSetOrigin, MoreThan, Seats
<1> QED
  BY <1>1, <1>2, <1>3, <1>4, <1>5 DEF Quarter

-----------------------------------------------------------------------------
(* At genesis nothing has been proposed, whoever is going to object. *)
LEMMA GovInitInv == GovInit => GovIInv
BY DEF GovInit, GovIInv, None

(* Every step of a proposal, a referendum, a spend and a change of members keeps it. *)
LEMMA GovStepInv == GovIInv /\ [GovNext]_govVars => GovIInv'
<1> SUFFICES ASSUME GovIInv, [GovNext]_govVars PROVE GovIInv'
  OBVIOUS
<1> USE DEF bodies, democracyVars, spendVars
<1>1. dissent' = dissent => Against' = Against /\ Seats' = Seats /\ Quarter' = Quarter
  BY DEF Against, Seats, Quarter
<1>2. CASE ExternalPropose
  <2>1. /\ \/ external' = "super_majority"
           \/ external' = "majority" /\ Quarter
           \/ external' = "default" /\ Quarter /\ Against = 0
        /\ UNCHANGED <<dissent, membership, referendum, payment, decree>>
    BY <1>2, Proportions DEF ExternalPropose
  <2> QED
    BY <1>1, <2>1 DEF GovIInv
<1>3. CASE Propose \/ CancelProposal \/ CooloffEnds
  BY <1>1, <1>3 DEF Propose, CancelProposal, CooloffEnds, GovIInv
<1>4. CASE FastTrack
  <2>1. /\ external \in {"majority", "default"} /\ external' = "none"
        /\ referendum'.count = external
        /\ UNCHANGED <<dissent, membership, payment, decree>>
    BY <1>4 DEF FastTrack
  <2> QED
    BY <1>1, <2>1 DEF GovIInv
<1>5. CASE Launch
  <2>1. /\ \/ referendum'.count = external /\ external' = "none"
           \/ referendum'.count = "super_majority" /\ external' = external
        /\ referendum'.track = "launched"
        /\ UNCHANGED <<dissent, membership, payment, decree>>
    <3>1. \/ /\ external' = "none"
             /\ referendum' = [count |-> external, track |-> "launched"]
          \/ /\ external' = external
             /\ referendum' = [count |-> "super_majority", track |-> "launched"]
      BY <1>5 DEF Launch
    <3>2. UNCHANGED <<dissent, membership, payment, decree>>
      BY <1>5 DEF Launch
    <3>3. CASE external' = "none"
               /\ referendum' = [count |-> external, track |-> "launched"]
      BY <3>2, <3>3
    <3>4. CASE external' = external
               /\ referendum' = [count |-> "super_majority", track |-> "launched"]
      BY <3>2, <3>4
    <3> QED
      BY <3>1, <3>3, <3>4
  <2> QED
    BY <1>1, <2>1 DEF GovIInv
<1>6. CASE Veto
  BY <1>1, <1>6 DEF Veto, GovIInv
<1>7. CASE EmergencyCancel \/ VoteEnds
  <2>1. referendum' = None /\ UNCHANGED <<dissent, external, membership, payment, decree>>
    BY <1>7 DEF EmergencyCancel, VoteEnds
  <2> QED
    BY <1>1, <2>1 DEF GovIInv, None
<1>8. ASSUME NEW list \in SUBSET People, ChangeMembers(list) PROVE GovIInv'
  <2>1. 2 * Against < Seats
    BY <1>8, Proportions DEF ChangeMembers
  <2> QED
    BY <1>1, <1>8, <2>1 DEF ChangeMembers, GovIInv
<1>9. CASE ApproveSpend
  <2>1. 5 * Against <= 2 * Seats
    BY <1>9, Proportions DEF ApproveSpend
  <2> QED
    BY <1>1, <1>9, <2>1 DEF ApproveSpend, GovIInv
<1>10. CASE ProposeSpend \/ RejectSpend \/ SpendPeriodEnds
  BY <1>1, <1>10 DEF ProposeSpend, RejectSpend, SpendPeriodEnds, GovIInv
<1>11. CASE Decree
  <2>1. \/ decree' = "slash_cancelled" /\ Quarter
        \/ decree' = "society_founded" /\ 2 * Against < Seats
    BY <1>11, Proportions DEF Decree
  <2> QED
    BY <1>1, <1>11, <2>1 DEF Decree, GovIInv
<1>12. CASE UNCHANGED govVars
  BY <1>1, <1>12 DEF govVars, GovIInv
<1> QED
  BY <1>2, <1>3, <1>4, <1>5, <1>6, <1>7, <1>8, <1>9, <1>10, <1>11, <1>12 DEF GovNext

-----------------------------------------------------------------------------
(* Whoever objects in the council is not got around by way of the committee  *)
(* that the council fills, nor by time (lib.rs, the origins of democracy,    *)
(* treasury, membership, staking and society).                               *)
THEOREM DissentIsHeard == GovSpec => []DissentHolds
<1>1. GovIInv => DissentHolds
  BY DEF GovIInv, DissentHolds, Quarter, Against, Seats
<1> QED
  BY <1>1, GovInitInv, GovStepInv, PTL DEF GovSpec

-----------------------------------------------------------------------------
(***************************************************************************)
(* TrackDecides for every set of referenda, every electorate and every     *)
(* timeout.  The invariant says until when a referendum that is being      *)
(* decided may still be: one that has been served in this block has        *)
(* time left, and one that has not is late by no more than this block.     *)
(***************************************************************************)

Deciding == { r \in Polls : stage[r] = "deciding" }

Stages == Ongoing \cup {"none", "approved", "rejected", "timed_out", "cancelled", "enacted"}

RefTyped ==
    /\ stage \in [Polls -> Stages]
    /\ clock \in [Polls -> 0 .. UndecidingTimeout]
    /\ confirmAt \in [Polls -> {NotConfirming} \cup 0 .. DecisionPeriod + ConfirmPeriod]
    /\ tally \in [Polls -> [ayes : 0 .. Electorate, nays : 0 .. Electorate]]
    /\ \A r \in Polls : tally[r].ayes + tally[r].nays <= Electorate
    /\ deposited \subseteq Polls /\ due \subseteq Polls
    /\ freed \in Nat /\ freeing \in Nat

(* Between two alarms a referendum has time left to be decided or confirmed. *)
DecidedInTime ==
    \A r \in Deciding :
        /\ r \notin due => clock[r] < DecisionPeriod \/ clock[r] < confirmAt[r]
        /\ clock[r] <= DecisionPeriod \/ clock[r] <= confirmAt[r]

OnlyMajorities ==
    \A r \in Polls : stage[r] \in {"approved", "enacted"} => tally[r].ayes >= tally[r].nays

QueuedBehind == \A r \in Polls : stage[r] = "queued" => decidingCount = MaxDeciding

TrackTaken ==
    /\ IsFiniteSet(Deciding) /\ decidingCount \in 0 .. MaxDeciding
    /\ Cardinality(Deciding) + freed + freeing = decidingCount

RefIInv == RefTyped /\ DecidedInTime /\ OnlyMajorities /\ QueuedBehind /\ TrackTaken

-----------------------------------------------------------------------------
(* The least of the approval that is asked for is a half. *)
LEMMA PassingIsMajority ==
    ASSUME NEW votes \in [ayes : Nat, nays : Nat], NEW blocks \in Nat, Passing(votes, blocks)
    PROVE  votes.ayes >= votes.nays
<1>1. Elapsed(blocks) \in 0 .. 4
  BY DEF Elapsed, Min, DecisionPeriod
<1>2. MinApproval(blocks) \in Int /\ MinApproval(blocks) >= 500
  <2>1. \A x \in 0 .. 4 : (500 * x) \div 4 \in Int /\ (500 * x) \div 4 <= 500
    OBVIOUS
  <2> QED
    BY <1>1, <2>1 DEF MinApproval, DecisionPeriod
<1>3. votes.ayes \in Nat /\ votes.nays \in Nat
  OBVIOUS
<1> DEFINE all == votes.ayes + votes.nays
<1>4. MinApproval(blocks) * all >= 500 * all
  <2>1. \A m \in Int, n \in Nat : m >= 500 => m * n >= 500 * n
    OBVIOUS
  <2> QED
    BY <1>2, <1>3, <2>1
<1>5. 1000 * votes.ayes >= MinApproval(blocks) * all
  BY DEF Passing
<1>6. MinApproval(blocks) * all \in Int
  BY <1>2, <1>3
<1> QED
  BY <1>3, <1>4, <1>5, <1>6

(* No referendum has been submitted at genesis. *)
LEMMA RefInitInv == RefInit => RefIInv
<1> SUFFICES ASSUME RefInit PROVE RefIInv
  OBVIOUS
<1> USE DEF RefInit
<1>1. RefTyped
  <2>1. 0 \in 0 .. Electorate /\ 0 \in 0 .. UndecidingTimeout
    BY ReferendaAssumption
  <2> QED
    BY <2>1 DEF RefTyped, Stages, NoTally, NotConfirming
<1>2. Deciding = {}
  BY DEF Deciding
<1>3. TrackTaken
  BY <1>2, FS_EmptySet DEF TrackTaken, MaxDeciding
<1> QED
  BY <1>1, <1>2, <1>3 DEF RefIInv, DecidedInTime, OnlyMajorities, QueuedBehind

(* A referendum that is not being decided goes to another stage.           *)
LEMMA MovesOn ==
    ASSUME RefIInv, NEW r \in Polls, r \notin Deciding, NEW to \in Stages \ {"deciding"},
           Enter(r, to),
           to = "queued" => decidingCount = MaxDeciding,
           to \in {"approved", "enacted"} => tally[r].ayes >= tally[r].nays,
           confirmAt' = confirmAt \/ confirmAt' = [confirmAt EXCEPT ![r] = NotConfirming],
           due' = due \/ due' = due \ {r},
           UNCHANGED <<deposited, tally, decidingCount, freed, freeing>>
    PROVE  RefIInv'
<1> USE DEF RefIInv, Enter
<1>1. RefTyped'
  <2>1. 0 \in 0 .. UndecidingTimeout
    BY ReferendaAssumption
  <2> QED
    BY <2>1 DEF RefTyped
<1>2. Deciding' = Deciding
  BY DEF Deciding, RefTyped
<1>3. DecidedInTime'
  BY <1>2 DEF DecidedInTime, RefTyped, Deciding
<1>4. OnlyMajorities'
  BY DEF OnlyMajorities, RefTyped
<1>5. QueuedBehind'
  BY DEF QueuedBehind, RefTyped
<1>6. TrackTaken'
  BY <1>2 DEF TrackTaken
<1> QED
  BY <1>1, <1>3, <1>4, <1>5, <1>6

(* One that was being decided gives the track back.                        *)
LEMMA Leaves ==
    ASSUME RefIInv, NEW r \in Deciding, NEW to \in Stages \ Ongoing, Enter(r, to),
           to \in {"approved", "enacted"} => tally[r].ayes >= tally[r].nays,
           confirmAt' = [confirmAt EXCEPT ![r] = NotConfirming],
           due' = due \/ due' = due \ {r},
           freed' = freed + 1,
           UNCHANGED <<deposited, tally, decidingCount, freeing>>
    PROVE  RefIInv'
<1> USE DEF RefIInv, Enter
<1>0. r \in Polls /\ stage[r] = "deciding"
  BY DEF Deciding
<1>1. RefTyped'
  <2>1. 0 \in 0 .. UndecidingTimeout
    BY ReferendaAssumption
  <2> QED
    BY <1>0, <2>1 DEF RefTyped
<1>2. Deciding' = Deciding \ {r}
  BY <1>0 DEF Deciding, RefTyped, Ongoing
<1>3. DecidedInTime'
  BY <1>0, <1>2 DEF DecidedInTime, RefTyped, Deciding
<1>4. OnlyMajorities'
  BY <1>0 DEF OnlyMajorities, RefTyped
<1>5. QueuedBehind'
  BY <1>0 DEF QueuedBehind, RefTyped, Ongoing
<1>6. TrackTaken'
  <2>1. /\ IsFiniteSet(Deciding) /\ Cardinality(Deciding) \in Nat
        /\ IsFiniteSet(Deciding \ {r}) /\ Cardinality(Deciding \ {r}) = Cardinality(Deciding) - 1
    BY FS_RemoveElement, FS_CardinalityType DEF TrackTaken
  <2>2. freed \in Nat /\ freeing \in Nat
    BY DEF RefTyped
  <2> QED
    BY <1>2, <2>1, <2>2 DEF TrackTaken
<1> QED
  BY <1>1, <1>3, <1>4, <1>5, <1>6

(* One begins to be decided: the track is free, or is handed on.           *)
LEMMA Begins ==
    ASSUME RefIInv, NEW r \in Polls, stage[r] \in {"preparing", "queued"}, BeginDeciding(r),
           due' = due \ {r},
           decidingCount' \in 0 .. MaxDeciding, freed' \in Nat, freeing' \in Nat,
           decidingCount' - freed' - freeing' = decidingCount - freed - freeing + 1,
           decidingCount' >= decidingCount,
           UNCHANGED <<deposited, tally>>
    PROVE  RefIInv'
<1> USE DEF RefIInv, BeginDeciding, Enter
<1>1. RefTyped'
  <2>1. 0 \in 0 .. UndecidingTimeout
    BY ReferendaAssumption
  <2>2. ConfirmPeriod \in 0 .. DecisionPeriod + ConfirmPeriod
    BY DEF ConfirmPeriod, DecisionPeriod
  <2>3. "deciding" \in Stages
    BY DEF Stages, Ongoing
  <2> QED
    BY <2>1, <2>2, <2>3 DEF RefTyped
<1>2. r \notin Deciding /\ Deciding' = Deciding \cup {r}
  BY DEF Deciding, RefTyped
<1>3. DecidedInTime'
  <2>1. 0 < DecisionPeriod /\ 0 <= DecisionPeriod
    BY DEF DecisionPeriod
  <2> QED
    BY <1>2, <2>1 DEF DecidedInTime, RefTyped, Deciding
<1>4. OnlyMajorities'
  BY DEF OnlyMajorities, RefTyped
<1>5. QueuedBehind'
  BY DEF QueuedBehind, RefTyped, TrackTaken, MaxDeciding
<1>6. TrackTaken'
  <2>1. /\ IsFiniteSet(Deciding) /\ Cardinality(Deciding) \in Nat
        /\ IsFiniteSet(Deciding \cup {r}) /\ Cardinality(Deciding \cup {r}) = Cardinality(Deciding) + 1
    BY <1>2, FS_AddElement, FS_CardinalityType DEF TrackTaken
  <2>2. freed \in Nat /\ freeing \in Nat /\ decidingCount \in Nat
    BY DEF RefTyped, TrackTaken, MaxDeciding
  <2> QED
    BY <1>2, <2>1, <2>2 DEF TrackTaken, MaxDeciding
<1> QED
  BY <1>1, <1>3, <1>4, <1>5, <1>6

(* A step that leaves the stages and the track as they are.                *)
LEMMA StagesStay ==
    ASSUME RefIInv, RefTyped', DecidedInTime',
           \A r \in Polls : stage[r] \in {"approved", "enacted"} => tally'[r] = tally[r],
           freed' + freeing' = freed + freeing,
           UNCHANGED <<stage, decidingCount>>
    PROVE  RefIInv'
<1> USE DEF RefIInv
<1>1. Deciding' = Deciding
  BY DEF Deciding
<1>2. OnlyMajorities' /\ QueuedBehind'
  BY DEF OnlyMajorities, QueuedBehind
<1>3. TrackTaken'
  <2>1. Cardinality(Deciding) \in Nat
    BY FS_CardinalityType DEF TrackTaken
  <2>2. freed \in Nat /\ freeing \in Nat /\ freed' \in Nat /\ freeing' \in Nat
    BY DEF RefTyped
  <2>3. /\ IsFiniteSet(Deciding) /\ decidingCount \in 0 .. MaxDeciding
        /\ Cardinality(Deciding) + freed + freeing = decidingCount
    BY DEF TrackTaken
  <2>4. Cardinality(Deciding) + freed' + freeing' = decidingCount
    <3>1. \A c, x, y \in Nat : c + x + y = c + (x + y)
      OBVIOUS
    <3>2. Cardinality(Deciding) + freed + freeing = Cardinality(Deciding) + (freed + freeing)
      BY <2>1, <2>2, <3>1
    <3>3. Cardinality(Deciding) + freed' + freeing' = Cardinality(Deciding) + (freed' + freeing')
      BY <2>1, <2>2, <3>1
    <3> QED
      BY <2>3, <3>2, <3>3
  <2> HIDE DEF RefIInv
  <2> QED
    BY <1>1, <2>3, <2>4 DEF TrackTaken
<1> QED
  BY <1>2, <1>3

(* A block opens when all have been served: those that are decided have    *)
(* time left, and their clocks go on by a block.                           *)
LEMMA TickKeeps == ASSUME RefIInv, Tick PROVE RefIInv'
<1> USE DEF RefIInv, Tick, BlockOpen
<1>1. /\ \A r \in Polls : clock[r] \in 0 .. UndecidingTimeout /\ clock[r] \in Nat
      /\ UndecidingTimeout \in Nat
  BY ReferendaAssumption DEF RefTyped
<1>2. \A r \in Polls : clock'[r] \in 0 .. UndecidingTimeout /\ clock'[r] <= clock[r] + 1
  BY <1>1
<1>3. RefTyped'
  BY <1>2 DEF RefTyped
<1>4. DecidedInTime'
  <2> SUFFICES ASSUME NEW r \in Polls, stage[r] = "deciding"
               PROVE  /\ r \in due'
                      /\ clock'[r] <= DecisionPeriod \/ clock'[r] <= confirmAt[r]
    BY DEF DecidedInTime, Deciding
  <2>1. clock[r] < DecisionPeriod \/ clock[r] < confirmAt[r]
    BY DEF DecidedInTime, Deciding
  <2>2. confirmAt[r] \in Int /\ DecisionPeriod \in Int
    BY DEF RefTyped, NotConfirming, DecisionPeriod, ConfirmPeriod
  <2>3. clock'[r] \in Int
    BY <1>2
  <2> HIDE DEF RefIInv, Tick
  <2>4. clock'[r] <= DecisionPeriod \/ clock'[r] <= confirmAt[r]
    BY <1>1, <1>2, <2>1, <2>2, <2>3
  <2>5. r \in due'
    BY DEF Tick, Ongoing
  <2> QED
    BY <2>4, <2>5
<1>5. freed' + freeing' = freed + freeing
  BY DEF RefTyped
<1> QED
  BY <1>3, <1>4, <1>5, StagesStay

(* one_fewer_deciding gives the slot that got free to the queue of the track, or takes it back. *)
LEMMA OneFewerKeeps == ASSUME RefIInv, OneFewerDeciding PROVE RefIInv'
<1> USE DEF RefIInv
<1>0. /\ freed \in Nat /\ freeing \in Nat /\ freeing > 0 /\ freeing' = freeing - 1
      /\ freed' = freed /\ decidingCount \in 0 .. MaxDeciding /\ MaxDeciding = 1
      /\ Cardinality(Deciding) \in Nat
      /\ Cardinality(Deciding) + freed + freeing = decidingCount
  BY FS_CardinalityType DEF RefTyped, TrackTaken, OneFewerDeciding, MaxDeciding
<1>1. CASE \A r \in Polls : stage[r] # "queued"
  <2>1. decidingCount' = decidingCount - 1 /\ UNCHANGED <<stage, clock, confirmAt, due>>
    BY <1>1 DEF OneFewerDeciding
  <2>2. UNCHANGED <<deposited, tally>>
    BY DEF OneFewerDeciding
  <2>3. Deciding' = Deciding
    BY <2>1 DEF Deciding
  <2>4. RefTyped' /\ DecidedInTime' /\ OnlyMajorities'
    BY <1>0, <2>1, <2>2, <2>3 DEF RefTyped, DecidedInTime, OnlyMajorities
  <2>5. QueuedBehind'
    BY <1>1, <2>1 DEF QueuedBehind
  <2>6. TrackTaken'
    <3>1. IsFiniteSet(Deciding)
      BY DEF TrackTaken
    <3>2. /\ Cardinality(Deciding) + freed' + freeing' = decidingCount'
          /\ decidingCount' \in 0 .. MaxDeciding
      <4>1. \A c, a, b \in Nat :
              b > 0 => c + a + (b - 1) = c + a + b - 1 /\ c + a + b - 1 >= 0
        OBVIOUS
      <4>2. Cardinality(Deciding) + freed' + freeing' = decidingCount'
        BY <1>0, <2>1, <4>1
      <4>3. decidingCount - 1 >= 0
        BY <1>0, <4>1
      <4> QED
        BY <1>0, <2>1, <4>2, <4>3
    <3> HIDE DEF RefIInv
    <3> QED
      BY <2>3, <3>1, <3>2 DEF TrackTaken
  <2> QED
    BY <2>4, <2>5, <2>6
<1>2. CASE \E r \in Polls : stage[r] = "queued"
  <2>1. PICK r \in Polls :
          stage[r] = "queued" /\ BeginDeciding(r) /\ due' = due \ {r} /\ UNCHANGED decidingCount
    BY <1>2 DEF OneFewerDeciding
  <2>2. UNCHANGED <<deposited, tally>>
    BY DEF OneFewerDeciding
  <2> HIDE DEF RefIInv
  <2>3. /\ decidingCount' \in 0 .. MaxDeciding /\ freed' \in Nat /\ freeing' \in Nat
        /\ decidingCount' - freed' - freeing' = decidingCount - freed - freeing + 1
        /\ decidingCount' >= decidingCount
    BY <1>0, <2>1
  <2> QED
    BY <2>1, <2>2, <2>3, Begins
<1> QED
  BY <1>1, <1>2

(* A referendum that is ready takes a free slot of the track or waits in its queue. *)
LEMMA ReadyKeeps ==
    ASSUME RefIInv, NEW r \in Polls, ReadyForDeciding(r) PROVE RefIInv'
<1>1. /\ decidingCount \in 0 .. MaxDeciding /\ MaxDeciding = 1 /\ freed \in Nat /\ freeing \in Nat
      /\ freed' = freed /\ freeing' = freeing /\ due' = due \ {r} /\ UNCHANGED <<deposited, tally>>
      /\ stage[r] = "preparing"
  BY DEF RefIInv, RefTyped, TrackTaken, MaxDeciding, ReadyForDeciding, Serve
<1>2. CASE decidingCount < MaxDeciding
  <2>1. BeginDeciding(r) /\ decidingCount' = decidingCount + 1
    BY <1>2 DEF ReadyForDeciding
  <2> QED
    BY <1>1, <1>2, <2>1, Begins
<1>3. CASE ~(decidingCount < MaxDeciding)
  <2>1. Enter(r, "queued") /\ UNCHANGED <<confirmAt, decidingCount>>
    BY <1>3 DEF ReadyForDeciding
  <2>2. decidingCount = MaxDeciding /\ r \notin Deciding /\ "queued" \in Stages \ {"deciding"}
    BY <1>1, <1>3 DEF Deciding, Stages, Ongoing
  <2> QED
    BY <1>1, <2>1, <2>2, MovesOn
<1> QED
  BY <1>2, <1>3

(* What is done to a referendum that is being decided.                     *)
LEMMA DecisionKeeps ==
    ASSUME RefIInv, NEW r \in Polls,
           BeginConfirming(r) \/ EndConfirming(r) \/ Confirm(r) \/ Reject(r)
    PROVE  RefIInv'
<1>1. /\ r \in Deciding /\ due' = due \ {r} /\ UNCHANGED <<deposited, tally, freeing, decidingCount>>
      /\ tally[r] \in [ayes : Nat, nays : Nat] /\ clock[r] \in Nat
  <2>1. tally[r] \in [ayes : 0 .. Electorate, nays : 0 .. Electorate] /\ Electorate \in Nat
    BY ReferendaAssumption DEF RefIInv, RefTyped
  <2> QED
    BY <2>1, ReferendaAssumption
       DEF RefIInv, RefTyped, Deciding, BeginConfirming, EndConfirming, Confirm, Reject, Serve
<1>2. CASE Confirm(r)
  <2>1. tally[r].ayes >= tally[r].nays
    BY <1>1, <1>2, PassingIsMajority DEF Confirm
  <2>2. "approved" \in Stages \ Ongoing
    BY DEF Stages, Ongoing
  <2> QED
    BY <1>1, <1>2, <2>1, <2>2, Leaves DEF Confirm
<1>3. CASE Reject(r)
  <2>1. "rejected" \in Stages \ Ongoing
    BY DEF Stages, Ongoing
  <2> QED
    BY <1>1, <1>3, <2>1, Leaves DEF Reject
<1>4. CASE BeginConfirming(r) \/ EndConfirming(r)
  <2>1. /\ clock[r] <= DecisionPeriod \/ clock[r] <= confirmAt[r]
        /\ confirmAt[r] \in Int
    BY <1>1 DEF RefIInv, RefTyped, DecidedInTime, NotConfirming, DecisionPeriod, ConfirmPeriod
  <2>2. PICK at \in {NotConfirming} \cup 0 .. DecisionPeriod + ConfirmPeriod :
          /\ confirmAt' = [confirmAt EXCEPT ![r] = at]
          /\ clock[r] < DecisionPeriod \/ clock[r] < at
    <3>1. CASE BeginConfirming(r)
      <4>1. confirmAt[r] = NotConfirming /\ clock[r] <= DecisionPeriod
        BY <1>1, <2>1, <3>1 DEF BeginConfirming, NotConfirming
      <4>2. /\ clock[r] + ConfirmPeriod \in 0 .. DecisionPeriod + ConfirmPeriod
            /\ clock[r] < clock[r] + ConfirmPeriod
        BY <1>1, <4>1 DEF DecisionPeriod, ConfirmPeriod
      <4>3. confirmAt' = [confirmAt EXCEPT ![r] = clock[r] + ConfirmPeriod]
        BY <3>1 DEF BeginConfirming
      <4> QED
        BY <4>2, <4>3
    <3>2. CASE EndConfirming(r)
      BY <3>2 DEF EndConfirming
    <3> QED
      BY <1>4, <3>1, <3>2
  <2>3. UNCHANGED <<stage, clock, freed>>
    BY <1>4 DEF BeginConfirming, EndConfirming
  <2>4. RefTyped'
    BY <1>1, <2>2, <2>3 DEF RefIInv, RefTyped
  <2>5. DecidedInTime'
    <3> SUFFICES ASSUME NEW q \in Deciding
                 PROVE  /\ q \notin due' => clock[q] < DecisionPeriod \/ clock[q] < confirmAt'[q]
                        /\ clock[q] <= DecisionPeriod \/ clock[q] <= confirmAt'[q]
      BY <2>3 DEF DecidedInTime, Deciding
    <3>1. q \in Polls /\ clock[q] \in Nat /\ DecisionPeriod \in Nat
      BY ReferendaAssumption DEF Deciding, RefIInv, RefTyped, DecisionPeriod
    <3>2. CASE q = r
      <4>1. confirmAt'[q] = at /\ at \in Int
        BY <2>2, <3>1, <3>2 DEF RefIInv, RefTyped, NotConfirming, DecisionPeriod, ConfirmPeriod
      <4> QED
        BY <2>2, <3>1, <3>2, <4>1
    <3>3. CASE q # r
      <4>1. confirmAt'[q] = confirmAt[q] /\ (q \notin due' => q \notin due)
        BY <1>1, <2>2, <3>1, <3>3 DEF RefIInv, RefTyped
      <4> QED
        BY <4>1 DEF RefIInv, DecidedInTime
    <3> QED
      BY <3>2, <3>3
  <2>6. freed' + freeing' = freed + freeing
    BY <1>1, <2>3
  <2> QED
    BY <1>1, <2>3, <2>4, <2>5, <2>6, StagesStay
<1> QED
  BY <1>2, <1>3, <1>4

(* Deposits and votes come when all have been served.                      *)
LEMMA OpenBlockKeeps ==
    ASSUME RefIInv, NEW r \in Polls,
           \/ PlaceDecisionDeposit(r)
           \/ \E a, n \in 0 .. Electorate :
                a + n <= Electorate /\ Vote(r, [ayes |-> a, nays |-> n])
    PROVE  RefIInv'
<1>1. due = {} /\ UNCHANGED <<stage, clock, confirmAt, decidingCount, freed, freeing>>
  BY DEF PlaceDecisionDeposit, Vote, BlockOpen, trackVars
<1>2. /\ deposited' \subseteq Polls /\ due' \subseteq Polls
      /\ \A q \in Deciding : q \notin due'
  BY <1>1 DEF PlaceDecisionDeposit, Vote, RefIInv, RefTyped, Deciding
<1>3. CASE PlaceDecisionDeposit(r)
  <2>1. tally' = tally
    BY <1>3 DEF PlaceDecisionDeposit
  <2>2. RefTyped' /\ DecidedInTime'
    BY <1>1, <1>2, <2>1 DEF RefIInv, RefTyped, DecidedInTime, Deciding
  <2> QED
    BY <1>1, <2>1, <2>2, StagesStay
<1>4. ASSUME NEW a \in 0 .. Electorate, NEW n \in 0 .. Electorate, a + n <= Electorate,
             Vote(r, [ayes |-> a, nays |-> n])
      PROVE  RefIInv'
  <2> DEFINE votes == [ayes |-> a, nays |-> n]
  <2>1. /\ tally' = [tally EXCEPT ![r] = votes] /\ stage[r] \in Ongoing
        /\ votes \in [ayes : 0 .. Electorate, nays : 0 .. Electorate]
        /\ votes.ayes + votes.nays <= Electorate
    BY <1>4 DEF Vote
  <2> HIDE DEF votes
  <2>2. RefTyped'
    BY <1>1, <1>2, <2>1 DEF RefIInv, RefTyped
  <2>3. DecidedInTime'
    BY <1>1, <1>2 DEF RefIInv, DecidedInTime, Deciding
  <2>4. \A q \in Polls : stage[q] \in {"approved", "enacted"} => tally'[q] = tally[q]
    BY <2>1 DEF RefIInv, RefTyped, Ongoing
  <2> QED
    BY <1>1, <2>2, <2>3, <2>4, StagesStay
<1> QED
  BY <1>3, <1>4

(* A nudge that finds nothing to do leaves the poll where it is. *)
LEMMA WaitKeeps == ASSUME RefIInv, NEW r \in Polls, Wait(r) PROVE RefIInv'
<1>1. /\ due' = due \ {r} /\ UNCHANGED <<deposited, tally, freeing>>
      /\ UNCHANGED <<stage, clock, confirmAt, decidingCount, freed>>
  BY DEF Wait, Serve
<1>2. RefTyped'
  BY <1>1 DEF RefIInv, RefTyped
<1>3. DecidedInTime'
  <2>1. stage[r] = "deciding" => clock[r] < confirmAt[r]
    BY DEF Wait
  <2> QED
    BY <1>1, <2>1 DEF RefIInv, DecidedInTime, Deciding
<1> QED
  BY <1>1, <1>2, <1>3, StagesStay

(* Cancelling a poll that is being decided owes the track a slot. *)
LEMMA CancelKeeps == ASSUME RefIInv, NEW r \in Polls, Cancel(r) PROVE RefIInv'
<1>1. "cancelled" \in Stages \ Ongoing /\ "cancelled" \in Stages \ {"deciding"}
  BY DEF Stages, Ongoing
<1>2. CASE r \in Deciding
  <2>1. freed' = freed + 1
    BY <1>2 DEF Cancel, Deciding
  <2> QED
    BY <1>1, <1>2, <2>1, Leaves DEF Cancel
<1>3. CASE r \notin Deciding
  <2>1. freed' = freed
    BY <1>3 DEF Cancel, Deciding
  <2> QED
    BY <1>1, <1>3, <2>1, MovesOn DEF Cancel
<1> QED
  BY <1>2, <1>3

(* The stages before and after the decision.                               *)
LEMMA OtherStagesKeep ==
    ASSUME RefIInv, NEW r \in Polls,
           Submit(r, "root") \/ TimeOut(r) \/ Enact(r)
    PROVE  RefIInv'
<1>1. r \notin Deciding
  BY DEF Submit, TimeOut, Enact, Deciding
<1>2. {"preparing", "timed_out", "enacted"} \subseteq Stages \ {"deciding"}
  BY DEF Stages, Ongoing
<1>3. CASE Submit(r, "root")
  BY <1>1, <1>2, <1>3, MovesOn DEF Submit, trackVars
<1>4. CASE TimeOut(r)
  BY <1>1, <1>2, <1>4, MovesOn DEF TimeOut, Serve
<1>5. CASE Enact(r)
  <2>1. tally[r].ayes >= tally[r].nays
    BY <1>5 DEF Enact, RefIInv, OnlyMajorities
  <2> QED
    BY <1>1, <1>2, <1>5, <2>1, MovesOn DEF Enact, Serve
<1> QED
  BY <1>3, <1>4, <1>5

(* Every call and every nudge of the scheduler keeps the invariant. *)
LEMMA RefNextInv == RefIInv /\ [RefNext]_refVars => RefIInv'
<1> SUFFICES ASSUME RefIInv, [RefNext]_refVars PROVE RefIInv'
  OBVIOUS
<1>1. CASE Tick \/ OneFewerDeciding
  BY <1>1, TickKeeps, OneFewerKeeps
<1>2. ASSUME NEW r \in Polls, NEW origin \in {"root", "signed"}, Submit(r, origin)
      PROVE  RefIInv'
  <2>1. origin = "root"
    BY <1>2 DEF Submit, HasTrack
  <2> QED
    BY <1>2, <2>1, OtherStagesKeep
<1>3. ASSUME NEW r \in Polls, TimeOut(r) \/ Enact(r) PROVE RefIInv'
  BY <1>3, OtherStagesKeep
<1>4. ASSUME NEW r \in Polls,
             \/ PlaceDecisionDeposit(r)
             \/ \E a, n \in 0 .. Electorate :
                  a + n <= Electorate /\ Vote(r, [ayes |-> a, nays |-> n])
      PROVE  RefIInv'
  BY <1>4, OpenBlockKeeps
<1>5. ASSUME NEW r \in Polls, Cancel(r) \/ ReadyForDeciding(r) \/ Wait(r) PROVE RefIInv'
  BY <1>5, CancelKeeps, ReadyKeeps, WaitKeeps
<1>6. ASSUME NEW r \in Polls, BeginConfirming(r) \/ EndConfirming(r) \/ Confirm(r) \/ Reject(r)
      PROVE  RefIInv'
  BY <1>6, DecisionKeeps
<1>7. CASE UNCHANGED refVars
  <2>1. RefTyped' /\ DecidedInTime'
    BY <1>7 DEF refVars, trackVars, RefIInv, RefTyped, DecidedInTime, Deciding
  <2> QED
    BY <1>7, <2>1, StagesStay DEF refVars, trackVars
<1> QED
  BY <1>1, <1>2, <1>3, <1>4, <1>5, <1>6, <1>7 DEF RefNext

(* The root track decides one referendum at a time and in time, and never  *)
(* against a majority of the votes (lib.rs, TracksInfo).                   *)
THEOREM TrackDecidesSoundly == RefSpec => []TrackDecides
<1>1. RefIInv => TrackDecides
  <2> SUFFICES ASSUME RefIInv PROVE TrackDecides
    OBVIOUS
  <2>1. ASSUME NEW r \in Polls, stage[r] = "deciding"
        PROVE  clock[r] <= DecisionPeriod + ConfirmPeriod
    <3>1. clock[r] <= DecisionPeriod \/ clock[r] <= confirmAt[r]
      BY <2>1 DEF RefIInv, DecidedInTime, Deciding
    <3>2. clock[r] \in Int /\ confirmAt[r] \in {NotConfirming} \cup 0 .. DecisionPeriod + ConfirmPeriod
      BY DEF RefIInv, RefTyped
    <3> QED
      BY <3>1, <3>2 DEF NotConfirming, DecisionPeriod, ConfirmPeriod
  <2> QED
    BY <2>1 DEF RefIInv, OnlyMajorities, QueuedBehind, TrackTaken, Deciding, TrackDecides
<1> QED
  BY <1>1, RefInitInv, RefNextInv, PTL DEF RefSpec
=============================================================================
