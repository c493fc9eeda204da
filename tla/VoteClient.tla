------------------------------ MODULE VoteClient ------------------------------
(***************************************************************************)
(* A browser of one voter in front of the votechain pallet: the context    *)
(* that holds what was read from the chain (VotechainContext.js), the vote *)
(* form (Vote.js) and the table of results (ElectionResult.js).            *)
(*                                                                         *)
(* Reading is asynchronous: a fetch is sent, the node answers it from the  *)
(* storage of that moment, and the answer is dispatched to the context     *)
(* later, in any order, whatever the page shows by then.  The context      *)
(* outlives the pages; the state of a form does not.                       *)
(***************************************************************************)
EXTENDS Votechain, Bags, BagsExt

CONSTANTS
    User,           \* the account that is logged in, one of Accounts
    NoId,           \* the '' of a form field that is not filled
    MaxClicks       \* bound: how often the user acts on the pages

ASSUME ClientAssumption == User \in Accounts /\ NoId \notin Hash
ASSUME ClientBound == MaxClicks \in Nat

VARIABLES
    page,           \* the route: "home", "vote" or "result"
    electionId, candidateId,            \* formState of the page
    elections, candidates, votes,       \* the state of VotechainContext
    fetches,        \* per kind, the bag of calls not answered or dispatched yet
    pool,           \* createVote extrinsics of the user, in nonce order
    clicks          \* how often the user has acted

form == <<page, electionId, candidateId>>
context == <<elections, candidates, votes>>
clientVars == <<form, context, fetches, pool, clicks>>

Kinds == {"elections", "candidates", "votes"}

(* A call for the data of an election; its answer is <<>> or <<payload>>.  *)
Fetch(election_id) == [of |-> election_id, answer |-> <<>>]

(* The fetches after one more call of each of the kinds. *)
Sent(kinds, election_id) ==
    [k \in Kinds |-> IF k \in kinds THEN BagAdd(fetches[k], Fetch(election_id)) ELSE fetches[k]]

NothingInFlight == \A k \in Kinds : fetches[k] = EmptyBag

-----------------------------------------------------------------------------
(* What the node answers from its present storage. *)

StoredElections == {e \in Hash : Elections[e] # None}

(* Mutant: the entries of the wrong storage map are listed. *)
ElectionsInstead(election_id) == StoredElections

CandidatesOf(election_id) ==
    {c \in Hash : Candidates[c] # None /\ Candidates[c].election_id = election_id}

VotesOf(election_id) == IF election_id = NoId THEN None ELSE ElectionVotes[election_id]

AnswerTo(kind, election_id) ==
    CASE kind = "elections"  -> StoredElections
      [] kind = "candidates" -> CandidatesOf(election_id)
      [] kind = "votes"      -> VotesOf(election_id)

-----------------------------------------------------------------------------
(* What the effect on electionId fetches on each page. *)
FetchedOn(p) ==
    CASE p = "home" -> {}
      [] p = "vote" -> {"candidates"}
      [] p = "result" -> {"candidates", "votes"}

(* What the effects of a page fetch when it is mounted, with an empty form. *)
FetchedByMounting(p) == FetchedOn(p) \cup (IF p = "home" THEN {} ELSE {"elections"})

(* The application is entered at any of its routes. *)
ClientInit ==
    /\ page \in {"home", "vote", "result"}
    /\ electionId = NoId /\ candidateId = NoId
    /\ elections = {} /\ candidates = {} /\ votes = <<>>
    /\ fetches = [k \in Kinds |->
            IF k \in FetchedByMounting(page) THEN SetToBag({Fetch(NoId)}) ELSE EmptyBag]
    /\ pool = <<>>
    /\ clicks = 0

Click == clicks < MaxClicks /\ clicks' = clicks + 1

(* Another route unmounts the page and mounts the next one, whose effects  *)
(* all run, with an empty form.                                            *)
OpenPage(p) ==
    /\ Click
    /\ p # page
    /\ page' = p
    /\ electionId' = NoId /\ candidateId' = NoId
    /\ fetches' = Sent(FetchedByMounting(p), NoId)
    /\ UNCHANGED <<context, pool>>

(* Mutant: the dropdown of the candidates is given the list of elections. *)
ElectionsOffered == elections

CandidatesOffered == candidates

(* The effect on electionId fetches anew; the chosen candidate stays. *)
SelectElection(e) ==
    /\ Click
    /\ page \in {"vote", "result"}
    /\ e \in elections /\ e # electionId
    /\ electionId' = e
    /\ fetches' = Sent(FetchedOn(page), e)
    /\ UNCHANGED <<page, candidateId, context, pool>>

SelectCandidate(c) ==
    /\ Click
    /\ page = "vote"
    /\ c \in CandidatesOffered /\ c # candidateId
    /\ candidateId' = c
    /\ UNCHANGED <<page, electionId, context, fetches, pool>>

AllParamsFilled == electionId # NoId /\ candidateId # NoId

(* TxButton signs createVote(candidateId, electionId) and sends it. *)
Submit ==
    /\ Click
    /\ page = "vote"
    /\ AllParamsFilled
    /\ pool' = Append(pool, [candidate_id |-> candidateId, election_id |-> electionId])
    /\ UNCHANGED <<form, context, fetches>>

Answer(kind, fetch) ==
    /\ fetch.answer = <<>>
    /\ fetches' = [fetches EXCEPT ![kind] =
            BagAdd(BagRemove(@, fetch), [fetch EXCEPT !.answer = <<AnswerTo(kind, fetch.of)>>])]
    /\ UNCHANGED <<form, context, pool, clicks>>

(* Mutant: the votes that arrive are added to those already shown. *)
Accumulated(payload) == IF payload = None THEN votes ELSE votes \o payload

Replaced(payload) == payload

Dispatch(kind, fetch) ==
    /\ fetch.answer # <<>>
    /\ fetches' = [fetches EXCEPT ![kind] = BagRemove(@, fetch)]
    /\ LET payload == Head(fetch.answer)
       IN  \/ kind = "elections" /\ elections' = payload /\ UNCHANGED <<candidates, votes>>
           \/ kind = "candidates" /\ candidates' = payload /\ UNCHANGED <<elections, votes>>
           \/ kind = "votes" /\ votes' = Replaced(payload) /\ UNCHANGED <<elections, candidates>>
    /\ UNCHANGED <<form, pool, clicks>>

(* A block includes the next extrinsic of the user. *)
Include ==
    /\ pool # <<>>
    /\ CreateVote(User, Head(pool).candidate_id, Head(pool).election_id)
    /\ pool' = Tail(pool)
    /\ UNCHANGED <<form, context, fetches, clicks>>

(* Meanwhile Root administers elections and others vote; their calls that  *)
(* change nothing on the chain are left out.                               *)
Others ==
    /\ \/ \E d \in Descriptions : CreateElection(Root, d)
       \/ \E e \in Hash : CloseElection(Root, e)
       \/ \E n \in CandidateNames, e \in Hash : CreateCandidate(Root, n, e)
       \/ \E a \in Accounts \ {User}, c, e \in Hash : CreateVote(a, c, e)
    /\ storage' # storage
    /\ UNCHANGED clientVars

UserStep ==
    \/ \E p \in {"home", "vote", "result"} : OpenPage(p)
    \/ \E e \in elections : SelectElection(e)
    \/ \E c \in CandidatesOffered : SelectCandidate(c)
    \/ Submit

NodeStep == \E k \in Kinds : \E f \in BagToSet(fetches[k]) : Answer(k, f) \/ Dispatch(k, f)

ClientNext ==
    \/ (UserStep \/ NodeStep) /\ UNCHANGED vars
    \/ Include
    \/ Others

ClientSpec == Init /\ ClientInit /\ [][ClientNext]_<<vars, clientVars>>

-----------------------------------------------------------------------------
(* The context and the form only hold ids and lists the chain has had. *)
ClientTypeOK ==
    /\ page \in {"home", "vote", "result"}
    /\ electionId \in Hash \cup {NoId} /\ candidateId \in Hash \cup {NoId}
    /\ elections \subseteq StoredElections
    /\ candidates \subseteq {c \in Hash : Candidates[c] # None}
    /\ votes \in Seq(Vote) \cup {None}
    /\ \A k \in Kinds : \A f \in BagToSet(fetches[k]) : f.of \in Hash \cup {NoId}
    /\ \A i \in DOMAIN pool : pool[i].election_id \in Hash
    /\ clicks \in 0 .. MaxClicks

(* A vote sent from the form never costs its voter the ballot for nothing: *)
(* the lists may be stale and belong to another election, but a candidate  *)
(* once offered stays on the chain, so CandidateNotFound cannot answer it. *)
FormNeverWastesBallot == [][Include => result' # "CandidateNotFound"]_<<vars, clientVars>>

(* The table never mixes the ballots of two elections, and holds the first *)
(* ballots of its election's list as long as Root has not created that     *)
(* election again.                                                         *)
ShownVotesAreOneList ==
    votes \in {None, <<>>} \/
        \E e \in Hash : /\ ElectionVotes[e] # None
                        /\ \A v \in Range(votes) : v.election_id = e
                        /\ created[e] <= 1 => OnlyAppends(votes, ElectionVotes[e])

(* "Fetch all candidates of a given election": once nothing is in flight,  *)
(* the candidates offered beside a selected election stand in it.          *)
OfferedCandidatesMatch ==
    page = "vote" /\ electionId # NoId /\ NothingInFlight =>
        \A c \in candidates : Candidates[c].election_id = electionId

=============================================================================
