------------------------------ MODULE Governance ------------------------------
(***************************************************************************)
(* The bodies of the runtime and what each share of their votes may do:    *)
(* the origins that lib.rs gives to the democracy, membership, treasury,   *)
(* staking and society pallets.                                            *)
(*                                                                         *)
(* A motion of a body runs its call with the number of its ayes and of the *)
(* seats.  The members that object (dissent) vote against every motion     *)
(* while it is open, and are not outvoted by silence: a member that does   *)
(* not vote counts for what the prime member voted.  Hence the ayes of a   *)
(* motion that closes are any of the seats that do not object, and a       *)
(* motion is one step.  The council is that of one term; the technical     *)
(* committee is what half of the council makes it.  Root is not an actor.  *)
(***************************************************************************)
EXTENDS Integers, FiniteSets

CONSTANTS
    Council,        \* the members of the council
    Experts,        \* the others that may sit in the technical committee
    MaxList,        \* bound: the longest list of committee members
    MaxProposals    \* how many proposals of the public may wait

ASSUME CouncilAssumption == Council # {} /\ IsFiniteSet(Council) /\ IsFiniteSet(Experts)
ASSUME ListBound == MaxList \in Nat /\ MaxProposals \in Nat

VARIABLES
    dissent,        \* those who object to everything
    committee,      \* the technical committee
    membership,     \* the list of its members that the council keeps
    external,       \* what the council wants voted on: how the vote is to be counted
    cooling,        \* a veto still blocks it
    proposals,      \* how many proposals of the public wait for their launch
    referendum,     \* the vote that is held
    payment,        \* a proposal to spend from the treasury
    decree          \* what else the council last decreed

govVars == <<dissent, committee, membership, external, cooling, proposals, referendum,
             payment, decree>>

People == Council \cup Experts

-----------------------------------------------------------------------------
(* EnsureProportionAtLeast and EnsureProportionMoreThan. *)
AtLeast(n, d, ayes, seats) == ayes * d >= n * seats
MoreThan(n, d, ayes, seats) == ayes * d > n * seats

(* A member proposes the motion, so that it has an aye. *)
Willing(body) == 1 .. Cardinality(body \ dissent)

(* Mutant: a majority of the council is enough for a straight majority vote. *)
HalfExternalMajority(ayes) == AtLeast(1, 2, ayes, Cardinality(Council))

(* pallet_democracy::Config *)
ExternalOrigin(ayes) == AtLeast(1, 2, ayes, Cardinality(Council))
ExternalMajorityOrigin(ayes) == AtLeast(3, 4, ayes, Cardinality(Council))
ExternalDefaultOrigin(ayes) == AtLeast(1, 1, ayes, Cardinality(Council))
FastTrackOrigin(ayes) == AtLeast(2, 3, ayes, Cardinality(committee))
InstantOrigin(ayes) == AtLeast(1, 1, ayes, Cardinality(committee))
CancellationOrigin(ayes) == AtLeast(2, 3, ayes, Cardinality(Council))

(* EnsureRootOrHalfCouncil *)
HalfCouncil(ayes) == MoreThan(1, 2, ayes, Cardinality(Council))

ApproveOrigin(ayes) == AtLeast(3, 5, ayes, Cardinality(Council))
RejectOrigin(ayes) == MoreThan(1, 2, ayes, Cardinality(Council))
SlashCancelOrigin(ayes) == AtLeast(3, 4, ayes, Cardinality(Council))
FounderSetOrigin(ayes) == MoreThan(1, 2, ayes, Cardinality(Council))

-----------------------------------------------------------------------------
None == [count |-> "none", track |-> "none"]

(* The genesis names the committee but not the list of its members. *)
GovInit ==
    /\ dissent \in SUBSET People
    /\ committee = Council
    /\ membership = {}
    /\ external = "none" /\ cooling = FALSE /\ proposals = 0
    /\ referendum = None
    /\ payment = "none" /\ decree = "none"

bodies == <<dissent, committee, membership>>
democracyVars == <<external, cooling, proposals, referendum>>
spendVars == <<payment, decree>>

(* external_propose waits for its turn and for the veto to lapse; the two    *)
(* others replace what is there, and no veto stops them.                     *)
ExternalPropose ==
    /\ \/ /\ external = "none" /\ ~cooling
          /\ \E ayes \in Willing(Council) : ExternalOrigin(ayes)
          /\ external' = "super_majority"
       \/ /\ \E ayes \in Willing(Council) : ExternalMajorityOrigin(ayes)
          /\ external' = "majority"
       \/ /\ \E ayes \in Willing(Council) : ExternalDefaultOrigin(ayes)
          /\ external' = "default"
    /\ UNCHANGED <<bodies, cooling, proposals, referendum, spendVars>>

(* Not what waits for a super majority of the voters; and at once, or for    *)
(* less than three days, only if the committee is of one mind.               *)
FastTrack ==
    /\ external \in {"majority", "default"} /\ referendum = None
    /\ \E track \in {"fast", "instant"}, ayes \in Willing(committee) :
        /\ \/ track = "fast" /\ FastTrackOrigin(ayes)
           \/ InstantOrigin(ayes)
        /\ referendum' = [count |-> external, track |-> track]
    /\ external' = "none"
    /\ UNCHANGED <<bodies, cooling, proposals, spendVars>>

(* propose: anybody, while fewer wait than there may.  The one with the      *)
(* greatest deposit comes first, and is not told from the others.           *)
Propose ==
    /\ proposals < MaxProposals /\ proposals' = proposals + 1
    /\ UNCHANGED <<bodies, external, cooling, referendum, spendVars>>

(* cancel_proposal: Root, or the committee if it is of one mind. *)
CancelProposal ==
    /\ proposals > 0 /\ proposals' = proposals - 1
    /\ \E ayes \in Willing(committee) : InstantOrigin(ayes)
    /\ UNCHANGED <<bodies, external, cooling, referendum, spendVars>>

(* At the end of the launch period what waits becomes a referendum, or what  *)
(* the public proposed.                                                      *)
Launch ==
    /\ referendum = None
    /\ \/ /\ external # "none" /\ external' = "none" /\ UNCHANGED proposals
          /\ referendum' = [count |-> external, track |-> "launched"]
       \/ /\ proposals > 0 /\ proposals' = proposals - 1 /\ UNCHANGED external
          /\ referendum' = [count |-> "super_majority", track |-> "launched"]
    /\ UNCHANGED <<bodies, cooling, spendVars>>

(* Any member of the committee; that each may do so once is left out. *)
Veto ==
    /\ committee # {} /\ external # "none"
    /\ external' = "none" /\ cooling' = TRUE
    /\ UNCHANGED <<bodies, proposals, referendum, spendVars>>

CooloffEnds ==
    /\ cooling /\ cooling' = FALSE
    /\ UNCHANGED <<bodies, external, proposals, referendum, spendVars>>

EmergencyCancel ==
    /\ referendum # None
    /\ \E ayes \in Willing(Council) : CancellationOrigin(ayes)
    /\ referendum' = None
    /\ UNCHANGED <<bodies, external, cooling, proposals, spendVars>>

VoteEnds ==
    /\ referendum # None /\ referendum' = None
    /\ UNCHANGED <<bodies, external, cooling, proposals, spendVars>>

(* add_member, remove_member and reset_members: the committee becomes the    *)
(* list, which knows nothing of the members that came from the genesis.      *)
ChangeMembers(list) ==
    /\ \E ayes \in Willing(Council) : HalfCouncil(ayes)
    /\ list # membership /\ Cardinality(list) <= MaxList
    /\ membership' = list /\ committee' = list
    /\ UNCHANGED <<dissent, democracyVars, spendVars>>

ProposeSpend ==
    /\ payment = "none" /\ payment' = "proposed"
    /\ UNCHANGED <<bodies, democracyVars, decree>>

ApproveSpend ==
    /\ payment = "proposed" /\ \E ayes \in Willing(Council) : ApproveOrigin(ayes)
    /\ payment' = "approved"
    /\ UNCHANGED <<bodies, democracyVars, decree>>

RejectSpend ==
    /\ payment \in {"proposed", "approved"}
    /\ \E ayes \in Willing(Council) : RejectOrigin(ayes)
    /\ payment' = "none"
    /\ UNCHANGED <<bodies, democracyVars, decree>>

SpendPeriodEnds ==
    /\ payment = "approved" /\ payment' = "paid"
    /\ UNCHANGED <<bodies, democracyVars, decree>>

(* cancel_deferred_slash, and found. *)
Decree ==
    /\ \E ayes \in Willing(Council) :
        \/ SlashCancelOrigin(ayes) /\ decree' = "slash_cancelled"
        \/ FounderSetOrigin(ayes) /\ decree' = "society_founded"
    /\ UNCHANGED <<bodies, democracyVars, payment>>

GovNext ==
    \/ ExternalPropose \/ Propose \/ CancelProposal
    \/ FastTrack \/ Launch \/ Veto \/ CooloffEnds
    \/ EmergencyCancel \/ VoteEnds
    \/ \E list \in SUBSET People : ChangeMembers(list)
    \/ ProposeSpend \/ ApproveSpend \/ RejectSpend \/ SpendPeriodEnds
    \/ Decree

GovSpec == GovInit /\ [][GovNext]_govVars

-----------------------------------------------------------------------------
GovTypeOK ==
    /\ dissent \subseteq People
    /\ committee \subseteq People
    /\ membership \in {{}, committee}
    /\ external \in {"none", "super_majority", "majority", "default"}
    /\ referendum.count \in {"none", "super_majority", "majority", "default"}
    /\ cooling \in BOOLEAN /\ proposals \in 0 .. MaxProposals
    /\ payment \in {"none", "proposed", "approved", "paid"}

(* Who objects in the council is not got around by way of the committee,     *)
(* that half of the council may fill as it likes: against more than a        *)
(* quarter of the council nothing is voted on by a straight majority, and    *)
(* nothing is voted on in a hurry; against a single member nothing passes by *)
(* default.  More than two fifths keep the treasury shut.                    *)
DissentHolds ==
    LET against == Cardinality(dissent \cap Council)
        seats == Cardinality(Council)
    IN  /\ referendum.count = "majority" \/ referendum.track \in {"fast", "instant"}
             => 4 * against <= seats
        /\ referendum.count = "default" => against = 0
        /\ payment = "paid" => 5 * against <= 2 * seats
        /\ decree = "slash_cancelled" => 4 * against <= seats
        /\ membership # {} \/ decree = "society_founded" => 2 * against < seats
=============================================================================
