------------------------------- MODULE VoterBags ------------------------------
(***************************************************************************)
(* The list that staking takes the voters of an election from: the bags    *)
(* list of the runtime with the thresholds of voter_bags.rs.  A voter is   *)
(* put at the end of the bag of its weight.  The snapshot goes through the *)
(* bags from the highest on until it is full.  Staking tells the list when *)
(* a voter changes its bond, but not when a slash or a reward does: until  *)
(* anybody rebags the voter its bag is that of an earlier weight.          *)
(*                                                                         *)
(* The two hundred thresholds, each 1.06 times the one before and the last *)
(* the greatest u64, are abridged to five, each twice the one before.      *)
(***************************************************************************)
EXTENDS Integers, FiniteSets, SequencesExt

CONSTANTS
    Voters,
    VoteWeights,        \* bound: the weights that are tried
    SnapshotLimit   \* VoterSnapshotPerBlock

(* Mutant: a step is left out. *)
WideTHRESHOLDS == <<1, 2, 8, 16>>

EXISTENTIAL_WEIGHT == 1
CONSTANT_RATIO == 2
THRESHOLDS == <<1, 2, 4, 8, 16>>

ASSUME BagsAssumption ==
    /\ SnapshotLimit \in Nat /\ IsFiniteSet(Voters)
    /\ VoteWeights \subseteq 1 .. THRESHOLDS[Len(THRESHOLDS)]

VARIABLES
    weight,         \* of each voter, 0 if it does not vote
    bag,            \* the upper threshold of its bag, 0 if it is not listed
    order,          \* the pairs of listed voters of which the first is in front
    snapshot        \* the voters of the election, none between elections

bagVars == <<weight, bag, order, snapshot>>

-----------------------------------------------------------------------------
NotionalBag(w) ==
    CHOOSE t \in ToSet(THRESHOLDS) :
        t >= w /\ \A u \in ToSet(THRESHOLDS) : u >= w => t <= u

Listed == { v \in Voters : bag[v] # 0 }
UpToDate(v) == bag[v] = NotionalBag(weight[v])

(* Does v come before u? *)
Before(v, u) ==
    \/ bag[v] > bag[u]
    \/ bag[v] = bag[u] /\ <<v, u>> \in order

(* The first voters of the list. *)
Ahead(v) == { u \in Listed : Before(u, v) }
Electing == { v \in Listed : Cardinality(Ahead(v)) < SnapshotLimit }

Without(v) == { p \in order : p[1] # v /\ p[2] # v }
AtTail(v) == Without(v) \cup { <<u, v>> : u \in Listed \ {v} }

-----------------------------------------------------------------------------
BagsInit ==
    /\ weight = [v \in Voters |-> 0] /\ bag = [v \in Voters |-> 0]
    /\ order = {} /\ snapshot = {}

Relist(v, w) ==
    /\ bag' = [bag EXCEPT ![v] = NotionalBag(w)]
    /\ order' = IF bag[v] = NotionalBag(w) THEN order ELSE AtTail(v)

Nominate(v, w) ==
    /\ bag[v] = 0
    /\ weight' = [weight EXCEPT ![v] = w]
    /\ Relist(v, w)
    /\ UNCHANGED snapshot

(* bond_extra, rebond and unbond update the list. *)
ChangeBond(v, w) ==
    /\ bag[v] # 0 /\ weight[v] # w
    /\ weight' = [weight EXCEPT ![v] = w]
    /\ Relist(v, w)
    /\ UNCHANGED snapshot

(* A slash, or a reward that is staked, does not. *)
SlashOrReward(v, w) ==
    /\ bag[v] # 0 /\ weight[v] # w
    /\ weight' = [weight EXCEPT ![v] = w]
    /\ UNCHANGED <<bag, order, snapshot>>

Rebag(v) ==
    /\ bag[v] # 0 /\ ~UpToDate(v)
    /\ Relist(v, weight[v])
    /\ UNCHANGED <<weight, snapshot>>

Chill(v) ==
    /\ bag[v] # 0
    /\ bag' = [bag EXCEPT ![v] = 0] /\ order' = Without(v)
    /\ weight' = [weight EXCEPT ![v] = 0]
    /\ UNCHANGED snapshot

(* The election takes its snapshot, all at once. *)
TakeSnapshot ==
    /\ snapshot = {} /\ snapshot' = Electing
    /\ UNCHANGED <<weight, bag, order>>

DropSnapshot ==
    /\ snapshot # {} /\ snapshot' = {}
    /\ UNCHANGED <<weight, bag, order>>

BagsNext ==
    \/ \E v \in Voters, w \in VoteWeights :
        Nominate(v, w) \/ ChangeBond(v, w) \/ SlashOrReward(v, w)
    \/ \E v \in Voters : Rebag(v) \/ Chill(v)
    \/ TakeSnapshot \/ DropSnapshot

BagsSpec == BagsInit /\ [][BagsNext]_bagVars

-----------------------------------------------------------------------------
BagsTypeOK ==
    /\ weight \in [Voters -> VoteWeights \cup {0}]
    /\ bag \in [Voters -> ToSet(THRESHOLDS) \cup {0}]
    /\ order \subseteq Listed \X Listed /\ snapshot \subseteq Voters

(* The voters of an election are, up to the ratio of two thresholds, those   *)
(* of the greatest weights: when a snapshot is taken no voter that is above  *)
(* the existential weight is left out for one that weighs less than its      *)
(* weight divided by the ratio, but for voters whose bag is out of date.     *)
HeaviestVote ==
    [][\A v, u \in Voters :
        /\ snapshot = {} /\ snapshot' # {}
        /\ v \in Listed /\ v \notin snapshot'
        /\ u \in snapshot'
        /\ UpToDate(v) /\ UpToDate(u) /\ weight[v] > EXISTENTIAL_WEIGHT
        => weight[v] < CONSTANT_RATIO * weight[u]]_bagVars
=============================================================================
