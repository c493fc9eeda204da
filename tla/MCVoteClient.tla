----------------------------- MODULE MCVoteClient -----------------------------
(* Instances of VoteClient for TLC. *)
EXTENDS VoteClient, TLC

CONSTANTS
    d1, d2, n1, a2, u,
    MaxCreations,       \* how often one election may be created
    MaxRegistrations,   \* how long the candidate list of one election may get
    MaxFetches          \* how many fetches of one kind may be in flight

MCHashOf(x) == <<"hash", x>>

MCBytes == [x \in Descriptions \cup CandidateNames |-> 9]

(* The first ballot of an election, by a2, if that is one of the accounts. *)
FirstBallots(e) ==
    LET c == HashOf([candidate_name |-> n1, election_id |-> e])
    IN  IF a2 \in Accounts THEN <<Ballot(a2, c, e)>> ELSE <<>>

(* The chain after Root has created every election and registered n1 in    *)
(* each, and a2 has voted, which a page loaded later finds.                *)
MCInit ==
    /\ Elections = [h \in Hash |->
            IF h \in ElectionIds THEN CHOOSE o \in Hashed : HashOf(o) = h ELSE None]
    /\ ElectionCandidates = [h \in Hash |->
            IF h \in ElectionIds
            THEN <<[candidate_name |-> n1, election_id |-> h]>> ELSE None]
    /\ ElectionVotes = [h \in Hash |-> IF h \in ElectionIds THEN FirstBallots(h) ELSE None]
    /\ Candidates = [h \in Hash |->
            IF h \in CandidateIds THEN CHOOSE k \in Candidate : HashOf(k) = h ELSE None]
    /\ CandidateVotes = [h \in Hash |->
            IF h \in CandidateIds THEN FirstBallots(Candidates[h].election_id) ELSE None]
    /\ result = "Ok"
    /\ accepted = UNION {Range(FirstBallots(e)) : e \in ElectionIds}
    /\ created = [h \in Hash |-> IF h \in ElectionIds THEN 1 ELSE 0]
    /\ ClientInit

Bounded ==
    /\ \A h \in Hash : created[h] <= MaxCreations
    /\ \A h \in Hash : ElectionCandidates[h] # None =>
            Len(ElectionCandidates[h]) <= MaxRegistrations
    /\ \A k \in Kinds : BagCardinality(fetches[k]) <= MaxFetches

Everything == <<vars, clientVars>>

MCNext == ClientNext /\ Bounded'

MCSpec == MCInit /\ [][MCNext]_Everything

(* No guard reads the result of the last call or the history of accepted   *)
(* votes; action properties are checked on every step all the same.        *)
ClientView == <<storage, created, clientVars>>

DescriptionSymmetry == Permutations(Descriptions)
=============================================================================
