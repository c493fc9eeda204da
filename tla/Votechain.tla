------------------------------ MODULE Votechain ------------------------------
(***************************************************************************)
(* pallet-votechain: the storage maps of an election on the chain and the  *)
(* four dispatchables that write them.                                     *)
(*                                                                         *)
(* A dispatchable runs alone, from its origin to its DispatchResult, so it *)
(* is one action; each early return is a disjunct of it.  Dispatchables    *)
(* are not transactional in this Substrate version unless they say so:     *)
(* what one wrote before it returned an error stays written.               *)
(*                                                                         *)
(* T::Hashing::hash_of is the constant operator HashOf: nothing is known   *)
(* of it but that it has no collision on what the pallet hashes.           *)
(***************************************************************************)
EXTENDS Integers, Sequences, Functions

CONSTANTS
    Accounts,           \* accounts that sign extrinsics
    Descriptions,       \* election descriptions a caller may send
    CandidateNames,     \* candidate names a caller may send
    Bytes,              \* the length in bytes of each of them
    ElectionMinBytes, ElectionMaxBytes,     \* the four #[pallet::constant]s
    CandidateMinBytes, CandidateMaxBytes,
    HashOf(_),          \* T::Hashing::hash_of
    Root,               \* the Root origin
    None                \* Option::None, an absent storage key

VARIABLES
    Elections, ElectionCandidates, ElectionVotes, Candidates, CandidateVotes,
    result,             \* the DispatchResult of the last call
    accepted,           \* history: every vote whose create_vote returned Ok
    created             \* history: how often create_election stored each id

storage == <<Elections, ElectionCandidates, ElectionVotes, Candidates, CandidateVotes>>
vars == <<storage, result, accepted, created>>

-----------------------------------------------------------------------------
(* The data. *)

Election == [description : Descriptions, is_open : BOOLEAN]

(* The id of an election is the hash of the record it is stored with, so   *)
(* the description alone decides it.                                       *)
OpenElection(description) == [description |-> description, is_open |-> TRUE]
ElectionIds == {HashOf(OpenElection(d)) : d \in Descriptions}

Candidate == [candidate_name : CandidateNames, election_id : ElectionIds]
CandidateIds == {HashOf(c) : c \in Candidate}

(* Every hash a caller can name; all of them have one Rust type, T::Hash.  *)
Hash == ElectionIds \cup CandidateIds

Vote == [candidate_id : Hash, election_id : Hash, author : Accounts]

Errors == {"BadOrigin", "ElectionNotEnoughBytes", "ElectionTooManyBytes",
           "CandidateNotEnoughBytes", "CandidateTooManyBytes",
           "ElectionNotFound", "CandidateNotFound"}

Hashed == {OpenElection(d) : d \in Descriptions} \cup Candidate

(* No two of the records the pallet hashes have the same hash. *)
ASSUME HashAssumption == \A x, y \in Hashed : HashOf(x) = HashOf(y) => x = y

(* Root is no signed account and None is no stored value. *)
ASSUME DistinctAssumption ==
    /\ Root \notin Accounts
    /\ None \notin Election \cup Candidate \cup Seq(Candidate) \cup Seq(Vote)

-----------------------------------------------------------------------------
Init ==
    /\ Elections          = [h \in Hash |-> None]
    /\ ElectionCandidates = [h \in Hash |-> None]
    /\ ElectionVotes      = [h \in Hash |-> None]
    /\ Candidates         = [h \in Hash |-> None]
    /\ CandidateVotes     = [h \in Hash |-> None]
    /\ result = "Ok"
    /\ accepted = {}
    /\ created = [h \in Hash |-> 0]

(* The call returns the error e before it has written anything. *)
Reject(e) == result' = e /\ UNCHANGED <<storage, accepted, created>>

(* Mutant: the closed flag is not looked at. *)
IsStored(election_id) == Elections[election_id] # None

IsOpen(election_id) == Elections[election_id] # None /\ Elections[election_id].is_open

(* Mutant: the list of ballots is not searched for the author. *)
CanCastAgain(author, election_id) == ElectionVotes[election_id] # None

(* Mutant: the loop over the ballots keeps the answer of the last one only. *)
CanCastAfterOther(author, election_id) ==
    /\ ElectionVotes[election_id] # None
    /\ LET vec == ElectionVotes[election_id]
       IN  \A i \in DOMAIN vec : i = Len(vec) => vec[i].author # author

CanCast(author, election_id) ==
    /\ ElectionVotes[election_id] # None
    /\ \A v \in Range(ElectionVotes[election_id]) : v.author # author

(* Mutant: the two hashes are taken in the wrong order. *)
SwappedBallot(author, candidate_id, election_id) ==
    [candidate_id |-> election_id, election_id |-> candidate_id, author |-> author]

Ballot(author, candidate_id, election_id) ==
    [candidate_id |-> candidate_id, election_id |-> election_id, author |-> author]

NoBallots(election_id) == [ElectionVotes EXCEPT ![election_id] = <<>>]

(* Mutant: create_election does not insert the empty list of candidates. *)
CandidatesForgotten(election_id) == ElectionCandidates

NoCandidates(election_id) == [ElectionCandidates EXCEPT ![election_id] = <<>>]

(* Mutant: registering a candidate empties the votes of every candidate. *)
NoVotesAnywhere(candidate_id) ==
    [h \in Hash |-> IF CandidateVotes[h] = None /\ h # candidate_id THEN None ELSE <<>>]

NoVotes(candidate_id) == [CandidateVotes EXCEPT ![candidate_id] = <<>>]

(* Mutant: any origin passes. *)
EnsureAny(origin) == TRUE

EnsureSigned(origin) == origin \in Accounts

CreateElection(origin, description) ==
    LET election_id == HashOf(OpenElection(description))
    IN  \/ origin # Root /\ Reject("BadOrigin")
        \/ /\ origin = Root
           /\ Bytes[description] <= ElectionMinBytes
           /\ Reject("ElectionNotEnoughBytes")
        \/ /\ origin = Root
           /\ Bytes[description] > ElectionMinBytes
           /\ Bytes[description] >= ElectionMaxBytes
           /\ Reject("ElectionTooManyBytes")
        \/ /\ origin = Root
           /\ Bytes[description] > ElectionMinBytes
           /\ Bytes[description] < ElectionMaxBytes
           /\ Elections' = [Elections EXCEPT ![election_id] = OpenElection(description)]
           /\ ElectionCandidates' = NoCandidates(election_id)
           /\ ElectionVotes' = NoBallots(election_id)
           /\ created' = [created EXCEPT ![election_id] = @ + 1]
           /\ result' = "Ok"
           /\ UNCHANGED <<Candidates, CandidateVotes, accepted>>

CloseElection(origin, election_id) ==
    \/ origin # Root /\ Reject("BadOrigin")
    \/ origin = Root /\ ~IsOpen(election_id) /\ Reject("ElectionNotFound")
    \/ /\ origin = Root
       /\ IsOpen(election_id)
       /\ Elections' = [Elections EXCEPT ![election_id].is_open = FALSE]
       /\ result' = "Ok"
       /\ UNCHANGED <<ElectionCandidates, ElectionVotes, Candidates, CandidateVotes, accepted, created>>

CreateCandidate(origin, candidate_name, election_id) ==
    LET candidate == [candidate_name |-> candidate_name, election_id |-> election_id]
        candidate_id == HashOf(candidate)
    IN  \/ origin # Root /\ Reject("BadOrigin")
        \/ /\ origin = Root
           /\ Bytes[candidate_name] <= CandidateMinBytes
           /\ Reject("CandidateNotEnoughBytes")
        \/ /\ origin = Root
           /\ Bytes[candidate_name] > CandidateMinBytes
           /\ Bytes[candidate_name] >= CandidateMaxBytes
           /\ Reject("CandidateTooManyBytes")
        \/ /\ origin = Root
           /\ Bytes[candidate_name] > CandidateMinBytes
           /\ Bytes[candidate_name] < CandidateMaxBytes
           /\ ElectionCandidates[election_id] = None
           /\ Reject("ElectionNotFound")
        \/ /\ origin = Root
           /\ Bytes[candidate_name] > CandidateMinBytes
           /\ Bytes[candidate_name] < CandidateMaxBytes
           /\ ElectionCandidates[election_id] # None
           /\ ElectionCandidates' =
                [ElectionCandidates EXCEPT ![election_id] = Append(@, candidate)]
           /\ Candidates' = [Candidates EXCEPT ![candidate_id] = candidate]
           /\ CandidateVotes' = NoVotes(candidate_id)
           /\ result' = "Ok"
           /\ UNCHANGED <<Elections, ElectionVotes, accepted, created>>

(* The ballot is pushed on ElectionVotes before the candidate is looked    *)
(* up: the last error leaves the ballot behind.                            *)
CreateVote(origin, candidate_id, election_id) ==
    LET vote == Ballot(origin, candidate_id, election_id)
    IN  \/ ~EnsureSigned(origin) /\ Reject("BadOrigin")
        \/ EnsureSigned(origin) /\ ~IsOpen(election_id) /\ Reject("ElectionNotFound")
        \/ /\ EnsureSigned(origin)
           /\ IsOpen(election_id)
           /\ ~CanCast(origin, election_id)
           /\ Reject("ElectionNotFound")
        \/ /\ EnsureSigned(origin)
           /\ IsOpen(election_id)
           /\ CanCast(origin, election_id)
           /\ ElectionVotes' = [ElectionVotes EXCEPT ![election_id] = Append(@, vote)]
           /\ \/ /\ CandidateVotes[candidate_id] = None
                 /\ result' = "CandidateNotFound"
                 /\ UNCHANGED <<CandidateVotes, accepted>>
              \/ /\ CandidateVotes[candidate_id] # None
                 /\ CandidateVotes' = [CandidateVotes EXCEPT ![candidate_id] = Append(@, vote)]
                 /\ result' = "Ok"
                 /\ accepted' = accepted \cup {vote}
           /\ UNCHANGED <<Elections, ElectionCandidates, Candidates, created>>

Next ==
    \E origin \in Accounts \cup {Root} :
        \/ \E d \in Descriptions : CreateElection(origin, d)
        \/ \E e \in Hash : CloseElection(origin, e)
        \/ \E n \in CandidateNames, e \in Hash : CreateCandidate(origin, n, e)
        \/ \E c, e \in Hash : CreateVote(origin, c, e)

Spec == Init /\ [][Next]_vars

-----------------------------------------------------------------------------
(* The implementation of the abstract ballot box. *)

BoxPhase(election_id) ==
    IF Elections[election_id] = None THEN "absent"
    ELSE IF Elections[election_id].is_open THEN "open" ELSE "closed"

BoxBallots(election_id) ==
    IF ElectionVotes[election_id] = None THEN {}
    ELSE {<<v.author, v.candidate_id>> : v \in Range(ElectionVotes[election_id])}

Box == INSTANCE BallotBox WITH
    Boxes <- Hash, Voters <- Accounts, Choices <- Hash,
    phase <- [h \in Hash |-> BoxPhase(h)],
    ballots <- [h \in Hash |-> BoxBallots(h)]

(* The dispatchables, with every error path, do to the storage maps only   *)
(* what the ballot box allows: no ballot outside an open election, none    *)
(* twice, none removed or altered unless the election is created again.    *)
ImplementsBallotBox == Box!BoxSpec

-----------------------------------------------------------------------------
(* Properties. *)

(* Every storage map holds values of its type, under any call sequence.    *)
TypeOK ==
    /\ Elections \in [Hash -> Election \cup {None}]
    /\ ElectionCandidates \in [Hash -> Seq(Candidate) \cup {None}]
    /\ ElectionVotes \in [Hash -> Seq(Vote) \cup {None}]
    /\ Candidates \in [Hash -> Candidate \cup {None}]
    /\ CandidateVotes \in [Hash -> Seq(Vote) \cup {None}]
    /\ result \in Errors \cup {"Ok"}
    /\ accepted \subseteq Vote
    /\ created \in [Hash -> Nat]

(* create_vote lets no author stand twice in the list of an election, also *)
(* after calls that failed half way and after elections created again.     *)
OneBallotPerAuthor ==
    \A e \in Hash : ElectionVotes[e] # None =>
        \A i, j \in DOMAIN ElectionVotes[e] :
            ElectionVotes[e][i].author = ElectionVotes[e][j].author => i = j

(* The maps are written by different calls and never deleted from; the     *)
(* lookups that follow one another in create_candidate and create_vote     *)
(* rely on an election being in all three of its maps or in none, and a    *)
(* candidate in both of its maps, under the hash of what is stored, with   *)
(* an election that exists.                                                *)
StorageMapsAgree ==
    /\ \A e \in Hash :
        /\ Elections[e] = None <=> ElectionVotes[e] = None
        /\ Elections[e] = None <=> ElectionCandidates[e] = None
        /\ Elections[e] # None => e = HashOf(OpenElection(Elections[e].description))
        /\ ElectionCandidates[e] # None =>
            \A k \in Range(ElectionCandidates[e]) :
                k.election_id = e /\ Candidates[HashOf(k)] = k
    /\ \A c \in Hash :
        /\ Candidates[c] = None <=> CandidateVotes[c] = None
        /\ Candidates[c] # None =>
            c = HashOf(Candidates[c]) /\ Elections[Candidates[c].election_id] # None

(* A vote is on file only where it belongs, and a candidate is credited    *)
(* only with votes whose author was told Ok; of an election created once,  *)
(* every accepted vote is still on the election's list.                    *)
BallotsAccounted ==
    /\ \A e \in Hash : ElectionVotes[e] # None =>
        \A v \in Range(ElectionVotes[e]) : v.election_id = e
    /\ \A c \in Hash : CandidateVotes[c] # None =>
        \A v \in Range(CandidateVotes[c]) : v.candidate_id = c /\ v \in accepted
    /\ \A v \in accepted : created[v.election_id] = 1 =>
        v \in Range(ElectionVotes[v.election_id])

(* The list of a candidate counts an author twice for one election only    *)
(* after that election was created again: create_candidate and create_vote *)
(* calls alone, in any order, never do it.                                 *)
DoubleCountNeedsRecreation ==
    \A c \in Hash : CandidateVotes[c] # None =>
        \A i, j \in DOMAIN CandidateVotes[c] :
            LET v == CandidateVotes[c][i]
                w == CandidateVotes[c][j]
            IN  i # j /\ v.author = w.author /\ v.election_id = w.election_id =>
                    created[v.election_id] > 1

OnlyAppends(old, new) == old # None =>
    /\ new # None
    /\ Len(old) <= Len(new)
    /\ \A i \in DOMAIN old : new[i] = old[i]

(* A ballot or a counted vote, once on file, leaves the chain by one kind  *)
(* of call only: Root creating that same election, or registering that     *)
(* same candidate, again.  Nothing a voter signs disturbs another's vote.  *)
OnlyRootDiscardsVotes ==
    [][ /\ \A e \in Hash : ~OnlyAppends(ElectionVotes[e], ElectionVotes'[e]) =>
            \E d \in Descriptions :
                e = HashOf(OpenElection(d)) /\ CreateElection(Root, d)
        /\ \A c \in Hash : ~OnlyAppends(CandidateVotes[c], CandidateVotes'[c]) =>
            \E n \in CandidateNames, e \in ElectionIds :
                /\ c = HashOf([candidate_name |-> n, election_id |-> e])
                /\ CreateCandidate(Root, n, e) ]_vars

-----------------------------------------------------------------------------
(* What the pallet's comments say and its code does not do.                *)

(* "It is checked if the voter has already voted before, if yes, it will   *)
(* generate an exception": in an open election the check refuses only an   *)
(* author of whom create_vote has accepted a vote before.                  *)
OnlyRepeatVotersRefused ==
    [][ \A a \in Accounts, c, e \in Hash :
          /\ IsOpen(e) /\ CandidateVotes[c] # None
          /\ CreateVote(a, c, e)
          => \/ result' = "Ok"
             \/ \E v \in accepted : v.author = a /\ v.election_id = e ]_vars

(* "It is checked if the voter has already voted before, if yes, it will   *)
(* generate an exception": no vote is accepted of an author of whom one    *)
(* was accepted in that election before.                                   *)
RepeatVotersRefused ==
    [][ \A a \in Accounts, c, e \in Hash :
          /\ \E v \in accepted : v.author = a /\ v.election_id = e
          /\ CreateVote(a, c, e)
          => result' # "Ok" ]_vars

(* "The candidate is associated with the election": the votes a candidate  *)
(* is credited with were cast in the election it is registered in.         *)
CandidateVotesOfItsElection ==
    \A c \in Hash : Candidates[c] # None =>
        \A v \in Range(CandidateVotes[c]) : v.election_id = Candidates[c].election_id

=============================================================================
