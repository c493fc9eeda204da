----------------------------- MODULE MCVotechain -----------------------------
(* Instances of Votechain for TLC. *)
EXTENDS Votechain, TLC

CONSTANTS
    d1, d2, dShort, dLong, n1, n2, nShort, nLong, a1, a2,
    MaxCreations,       \* how often one election may be created
    MaxRegistrations,   \* how long the candidate list of one election may get
    Named               \* the elections whose own or n1's hash a ballot may bear

(* A symbolic hash: the tagged record itself, so without collisions. *)
MCHashOf(x) == <<"hash", x>>

(* The bounds of the runtime are 8 and 4096, both exclusive. *)
MCBytes == [x \in {d1, n1, n2} |-> 9] @@ [x \in {d2} |-> 4095]
           @@ [x \in {dShort, nShort} |-> 8] @@ [x \in {dLong, nLong} |-> 4096]

(* A candidate that exists, one that may, and a hash that is no candidate. *)
BallotHashes ==
    {HashOf(OpenElection(d)) : d \in Named} \cup
    {HashOf([candidate_name |-> n1, election_id |-> HashOf(OpenElection(d))]) : d \in Named}

Bounded ==
    /\ \A h \in Hash : created[h] <= MaxCreations
    /\ \A h \in Hash : ElectionCandidates[h] # None =>
            Len(ElectionCandidates[h]) <= MaxRegistrations
    /\ \A h \in Hash : ElectionVotes[h] # None =>
            \A v \in Range(ElectionVotes[h]) : v.candidate_id \in BallotHashes

MCNext == Next /\ Bounded'

MCSpec == Init /\ [][MCNext]_vars

(* No guard reads the result of the last call: states that differ in it    *)
(* alone have the same successors.  Action properties, which do read it,   *)
(* are checked on every step all the same.                                 *)
StorageView == <<storage, accepted, created>>

AccountSymmetry == Permutations(Accounts)
=============================================================================
