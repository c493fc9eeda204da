--------------------------- MODULE VoteClientProofs ---------------------------
(***************************************************************************)
(* What a browser shows and sends, for every chain, every number of        *)
(* fetches and every order of their answers.  The argument: what a list of *)
(* the client names never leaves the chain, so it is as good when it is    *)
(* dispatched, selected, submitted or included as when the node read it.   *)
(* The page may be loaded at any moment in the life of the chain.          *)
(***************************************************************************)
EXTENDS VoteClient, VotechainProofs

(* A page loaded when the chain is in any state it can reach.              *)
LoadedSpec == IInv /\ ClientInit /\ [][ClientNext]_<<vars, clientVars>>

CandidatesOnFile == {c \in Hash : Candidates[c] # None}

(* A list of ballots the node answered once: of one election, and a part   *)
(* of its present list unless that was emptied since.                      *)
OneList(list, lists, creations) ==
    list \in {None, <<>>} \/
        \E e \in Hash : /\ lists[e] # None
                        /\ \A v \in Range(list) : v.election_id = e
                        /\ creations[e] <= 1 => OnlyAppends(list, lists[e])

(* What may be dispatched for a call of each kind: ids that are on file    *)
(* and one list of ballots.                                                *)
Truthful(kind, payload, stored, onFile, lists, creations) ==
    /\ kind = "elections" => payload \subseteq stored
    /\ kind = "candidates" => payload \subseteq onFile
    /\ kind = "votes" => payload \in Seq(Vote) \cup {None} /\ OneList(payload, lists, creations)

TruthfulNow(kind, payload) ==
    Truthful(kind, payload, StoredElections, CandidatesOnFile, ElectionVotes, created)

FormOK ==
    /\ page \in {"home", "vote", "result"}
    /\ electionId \in StoredElections \cup {NoId}
    /\ candidateId \in CandidatesOnFile \cup {NoId}
    /\ clicks \in 0 .. MaxClicks

ContextOK ==
    /\ TruthfulNow("elections", elections)
    /\ TruthfulNow("candidates", candidates)
    /\ TruthfulNow("votes", votes)

(* A call on its way, or its answer.                                       *)
CallOK(kind, fetch) ==
    /\ fetch = [of |-> fetch.of, answer |-> fetch.answer]
    /\ fetch.of \in Hash \cup {NoId}
    /\ fetch.answer # <<>> => TruthfulNow(kind, Head(fetch.answer))

FetchesOK ==
    /\ DOMAIN fetches = Kinds
    /\ \A k \in Kinds : \A f \in DOMAIN fetches[k] : CallOK(k, f)

(* Every extrinsic in the pool names an election and a candidate on file.  *)
PoolOK ==
    /\ pool \in Seq([candidate_id : Hash, election_id : Hash])
    /\ \A i \in DOMAIN pool : pool[i].candidate_id \in CandidatesOnFile

ClientIInv == IInv /\ FormOK /\ ContextOK /\ FetchesOK /\ PoolOK

-----------------------------------------------------------------------------
(* What a call that is sent, answered or dispatched does to the bags.      *)
LEMMA BagDomains ==
    /\ DOMAIN EmptyBag = {}
    /\ \A x : DOMAIN SetToBag({x}) = {x}
    /\ \A B, x : DOMAIN BagAdd(B, x) = DOMAIN B \cup {x}
    /\ \A B, x : DOMAIN BagRemove(B, x) \subseteq DOMAIN B
<1>1. DOMAIN EmptyBag = {}
  BY DEF EmptyBag, SetToBag
<1>2. \A x : DOMAIN SetToBag({x}) = {x}
  BY DEF SetToBag
<1>3. \A B, x : DOMAIN BagAdd(B, x) = DOMAIN B \cup {x}
  BY DEF BagAdd
<1>4. \A B, x : DOMAIN BagRemove(B, x) \subseteq DOMAIN B
  BY DEF BagRemove
<1> QED
  BY <1>1, <1>2, <1>3, <1>4

(* Nothing the pallet stores as an election or a candidate ever leaves.    *)
LEMMA ChainGrows ==
    ASSUME IInv, [Next]_vars
    PROVE  StoredElections \subseteq StoredElections' /\ CandidatesOnFile \subseteq CandidatesOnFile'
<1> USE DEF IInv, StoredElections, CandidatesOnFile
<1>1. CASE UNCHANGED storage
  BY <1>1 DEF storage
<1>2. CASE \E d \in Descriptions : Stored(d)
  <2>1. PICK d \in Descriptions : Stored(d)
    BY <1>2
  <2>2. OpenElection(d) # None
    <3>1. OpenElection(d) \in Election
      BY DEF OpenElection, Election
    <3> QED
      BY <3>1, DistinctAssumption
  <2> QED
    BY <2>1, <2>2 DEF Stored, TypeOK
<1>3. CASE \E e \in Hash : Closed(e)
  <2>1. PICK e \in Hash : Closed(e)
    BY <1>3
  <2>2. [Elections[e] EXCEPT !.is_open = FALSE] \in Election
    BY <2>1 DEF Closed, IsOpen, TypeOK, Election
  <2>3. [Elections[e] EXCEPT !.is_open = FALSE] # None
    BY <2>2, DistinctAssumption
  <2> QED
    BY <2>1, <2>3 DEF Closed, TypeOK
<1>4. CASE \E k \in Candidate : Registered(k)
  <2>1. PICK k \in Candidate : Registered(k)
    BY <1>4
  <2>2. k # None
    BY DistinctAssumption
  <2> QED
    BY <2>1, <2>2 DEF Registered, TypeOK
<1>5. CASE \E v \in Vote : Spent(v) \/ Counted(v)
  BY <1>5 DEF Spent, Counted
<1> QED
  BY <1>1, <1>2, <1>3, <1>4, <1>5, NextSteps DEF vars, Refused

(* Appending twice appends.                                                *)
LEMMA AppendsTransitive ==
    ASSUME NEW old \in Seq(Vote), NEW mid \in Seq(Vote) \cup {None}, NEW new,
           OnlyAppends(old, mid), OnlyAppends(mid, new)
    PROVE  OnlyAppends(old, new)
<1>1. old # None /\ mid # None /\ mid \in Seq(Vote)
  BY DistinctAssumption DEF OnlyAppends
<1>2. new # None /\ \A i \in DOMAIN old : i \in DOMAIN mid /\ new[i] = old[i]
  BY <1>1 DEF OnlyAppends
<1>3. Len(old) <= Len(new)
  <2>1. \A i \in DOMAIN mid : new[i] = mid[i]
    BY <1>1 DEF OnlyAppends
  <2> QED
    BY <1>1 DEF OnlyAppends
<1> QED
  BY <1>2, <1>3 DEF OnlyAppends

(* A list once answered stays a part of its election's, or the election    *)
(* has been created again.                                                 *)
LEMMA ListStays ==
    ASSUME IInv, [Next]_vars, NEW list \in Seq(Vote) \cup {None},
           OneList(list, ElectionVotes, created)
    PROVE  OneList(list, ElectionVotes', created')
<1> USE DEF IInv
<1>1. CASE list \in {None, <<>>}
  BY <1>1 DEF OneList
<1>2. CASE list \notin {None, <<>>}
  <2>1. PICK e \in Hash : /\ ElectionVotes[e] # None
                          /\ \A v \in Range(list) : v.election_id = e
                          /\ created[e] <= 1 => OnlyAppends(list, ElectionVotes[e])
    BY <1>2 DEF OneList
  <2>2. /\ list \in Seq(Vote)
        /\ ElectionVotes[e] \in Seq(Vote)
        /\ created[e] \in Nat /\ created[e] >= 1
    <3>1. Elections[e] # None
      BY <2>1 DEF StorageMapsAgree
    <3> QED
      BY <1>2, <2>1, <3>1 DEF TypeOK, CreationsCounted
  <2> SUFFICES /\ ElectionVotes'[e] # None
               /\ created'[e] <= 1 => OnlyAppends(list, ElectionVotes'[e])
    BY <2>1 DEF OneList
  <2>3. CASE UNCHANGED <<ElectionVotes, created>>
    BY <2>1, <2>3
  <2>4. CASE \E d \in Descriptions : Stored(d)
    <3>1. PICK d \in Descriptions : Stored(d)
      BY <2>4
    <3>2. <<>> # None
      <4>1. <<>> \in Seq(Vote)
        OBVIOUS
      <4> QED
        BY <4>1, DistinctAssumption
    <3>3. CASE e = HashOf(OpenElection(d))
      <4>1. created'[e] = created[e] + 1 /\ ElectionVotes'[e] = <<>>
        BY <3>1, <3>3 DEF Stored, TypeOK
      <4> QED
        BY <2>2, <3>2, <4>1
    <3>4. CASE e # HashOf(OpenElection(d))
      <4>1. created'[e] = created[e] /\ ElectionVotes'[e] = ElectionVotes[e]
        BY <3>1, <3>4 DEF Stored, TypeOK
      <4> QED
        BY <2>1, <4>1
    <3> QED
      BY <3>3, <3>4
  <2>5. CASE \E v \in Vote : Spent(v) \/ Counted(v)
    <3>1. PICK v \in Vote : Spent(v) \/ Counted(v)
      BY <2>5
    <3>2. created' = created
      BY <3>1 DEF Spent, Counted
    <3>3. ElectionVotes'[e] = ElectionVotes[e] \/ ElectionVotes'[e] = Append(ElectionVotes[e], v)
      BY <3>1 DEF Spent, Counted, TypeOK
    <3>4. OnlyAppends(ElectionVotes[e], ElectionVotes'[e])
      BY <2>1, <2>2, <3>3, AppendingKeeps
    <3>5. ElectionVotes'[e] # None
      BY <2>1, <3>4 DEF OnlyAppends
    <3> QED
      BY <2>1, <2>2, <3>2, <3>4, <3>5, AppendsTransitive
  <2> QED
    BY <2>3, <2>4, <2>5, NextSteps DEF vars, storage, Refused, Closed, Registered
<1> QED
  BY <1>1, <1>2

(* What was worth dispatching stays so, whatever the chain does.           *)
LEMMA TruthStays ==
    ASSUME IInv, [Next]_vars, NEW kind \in Kinds, NEW payload, TruthfulNow(kind, payload)
    PROVE  TruthfulNow(kind, payload)'
<1>1. kind = "elections" => payload \subseteq StoredElections'
  BY ChainGrows DEF TruthfulNow, Truthful
<1>2. kind = "candidates" => payload \subseteq CandidatesOnFile'
  BY ChainGrows DEF TruthfulNow, Truthful
<1>3. kind = "votes" =>
        payload \in Seq(Vote) \cup {None} /\ OneList(payload, ElectionVotes', created')
  BY ListStays DEF TruthfulNow, Truthful
<1> QED
  BY <1>1, <1>2, <1>3 DEF TruthfulNow, Truthful

(* What the node answers is the truth of that moment.                      *)
LEMMA AnswersTruthful ==
    ASSUME IInv, NEW kind \in Kinds, NEW id \in Hash \cup {NoId}
    PROVE  TruthfulNow(kind, AnswerTo(kind, id))
<1> USE DEF IInv
<1>1. CASE kind = "elections"
  BY <1>1 DEF AnswerTo, TruthfulNow, Truthful
<1>2. CASE kind = "candidates"
  BY <1>2 DEF AnswerTo, TruthfulNow, Truthful, CandidatesOf, CandidatesOnFile
<1>3. CASE kind = "votes"
  <2>1. AnswerTo(kind, id) = VotesOf(id)
    BY <1>3 DEF AnswerTo
  <2>2. CASE VotesOf(id) = None
    BY <1>3, <2>1, <2>2 DEF TruthfulNow, Truthful, OneList
  <2>3. CASE VotesOf(id) # None
    <3>1. id \in Hash /\ VotesOf(id) = ElectionVotes[id] /\ ElectionVotes[id] # None
      BY <2>3 DEF VotesOf
    <3>2. ElectionVotes[id] \in Seq(Vote)
      BY <3>1 DEF TypeOK
    <3>3. \A v \in Range(ElectionVotes[id]) : v.election_id = id
      BY <3>1, BallotsOfElection DEF Range
    <3>4. OnlyAppends(ElectionVotes[id], ElectionVotes[id])
      BY <3>2 DEF OnlyAppends
    <3> QED
      BY <1>3, <2>1, <3>1, <3>2, <3>3, <3>4 DEF TruthfulNow, Truthful, OneList
  <2> QED
    BY <2>2, <2>3
<1> QED
  BY <1>1, <1>2, <1>3 DEF Kinds

-----------------------------------------------------------------------------
(* The client starts on any page, with an empty form and its first fetches sent. *)
LEMMA ClientInitInv == IInv /\ ClientInit => ClientIInv
<1> SUFFICES ASSUME IInv, ClientInit PROVE ClientIInv
  OBVIOUS
<1> USE DEF ClientInit
<1>1. FormOK
  <2>1. 0 \in 0 .. MaxClicks
    BY ClientBound
  <2> QED
    BY <2>1 DEF FormOK
<1>2. ContextOK
  BY DEF ContextOK, TruthfulNow, Truthful, OneList
<1>3. FetchesOK
  <2> SUFFICES ASSUME NEW k \in Kinds, NEW f \in DOMAIN fetches[k] PROVE CallOK(k, f)
    BY DEF FetchesOK
  <2>1. f = Fetch(NoId)
    <3>1. f \in DOMAIN fetches[k] /\ fetches[k] \in {SetToBag({Fetch(NoId)}), EmptyBag}
      OBVIOUS
    <3>2. DOMAIN EmptyBag = {} /\ DOMAIN SetToBag({Fetch(NoId)}) = {Fetch(NoId)}
      BY BagDomains
    <3> HIDE DEF ClientInit
    <3> QED
      BY <3>1, <3>2
  <2> QED
    BY <2>1 DEF Fetch, CallOK
<1>4. PoolOK
  BY DEF PoolOK
<1> QED
  BY <1>1, <1>2, <1>3, <1>4 DEF ClientIInv

(* Whatever a step of the client or the chain does, it does by a step of   *)
(* the pallet or leaves the chain alone.                                   *)
LEMMA ChainSteps == PoolOK /\ [ClientNext]_<<vars, clientVars>> => [Next]_vars
<1> SUFFICES ASSUME PoolOK, ClientNext, ~UNCHANGED vars PROVE Next
  OBVIOUS
<1>1. CASE Include
  <2>1. Head(pool).candidate_id \in Hash /\ Head(pool).election_id \in Hash
    <3>1. Head(pool) \in [candidate_id : Hash, election_id : Hash]
      <4> DEFINE Calls == [candidate_id : Hash, election_id : Hash]
      <4>1. pool \in Seq(Calls) /\ pool # <<>>
        BY <1>1 DEF PoolOK, Include
      <4> HIDE DEF Calls
      <4>2. Head(pool) \in Calls
        BY <4>1
      <4> QED
        BY <4>2 DEF Calls
    <3> QED
      BY <3>1
  <2> QED
    BY <1>1, <2>1, ClientAssumption DEF Include, Next
<1>2. CASE Others
  BY <1>2 DEF Others, Next
<1> QED
  BY <1>1, <1>2 DEF ClientNext

(* A step of the chain, while the client does nothing, leaves what the     *)
(* client holds as good as it was.                                         *)
LEMMA HeldStays ==
    ASSUME ClientIInv, [Next]_vars
    PROVE  /\ \A kind \in Kinds : \A payload : TruthfulNow(kind, payload) => TruthfulNow(kind, payload)'
           /\ \A k \in Kinds : \A f : CallOK(k, f) => CallOK(k, f)'
           /\ StoredElections \subseteq StoredElections' /\ CandidatesOnFile \subseteq CandidatesOnFile'
           /\ IInv'
<1>1. /\ IInv'
      /\ StoredElections \subseteq StoredElections' /\ CandidatesOnFile \subseteq CandidatesOnFile'
  BY StepIInv, ChainGrows DEF ClientIInv
<1>2. ASSUME NEW kind \in Kinds, NEW payload, TruthfulNow(kind, payload)
      PROVE  TruthfulNow(kind, payload)'
  BY <1>2, TruthStays DEF ClientIInv
<1>3. ASSUME NEW k \in Kinds, NEW f, CallOK(k, f) PROVE CallOK(k, f)'
  BY <1>2, <1>3 DEF CallOK
<1> QED
  BY <1>1, <1>2, <1>3

(* After one more call of each of some kinds the fetches are as before.    *)
LEMMA SentKeeps ==
    ASSUME ClientIInv, [Next]_vars, NEW kinds, NEW id \in Hash \cup {NoId},
           fetches' = Sent(kinds, id)
    PROVE  FetchesOK'
<1>1. DOMAIN fetches' = Kinds
  BY DEF Sent
<1>2. ASSUME NEW k \in Kinds, NEW f \in DOMAIN fetches'[k] PROVE CallOK(k, f)'
  <2>1. fetches'[k] = fetches[k] \/ fetches'[k] = BagAdd(fetches[k], Fetch(id))
    BY DEF Sent
  <2>2. f \in DOMAIN fetches[k] \/ f = Fetch(id)
    <3>1. DOMAIN BagAdd(fetches[k], Fetch(id)) = DOMAIN fetches[k] \cup {Fetch(id)}
      BY BagDomains
    <3> QED
      BY <2>1, <3>1
  <2>3. CallOK(k, Fetch(id))
    BY DEF CallOK, Fetch
  <2> QED
    BY <2>2, <2>3, HeldStays DEF ClientIInv, FetchesOK
<1> QED
  BY <1>1, <1>2 DEF FetchesOK

(* A step that leaves a part of the client alone keeps that part good.     *)
LEMMA AlonePartsKeep ==
    ASSUME ClientIInv, [Next]_vars
    PROVE  /\ UNCHANGED <<form, clicks>> => FormOK'
           /\ UNCHANGED context => ContextOK'
           /\ UNCHANGED fetches => FetchesOK'
           /\ UNCHANGED pool => PoolOK'
           /\ IInv'
<1>1. UNCHANGED <<form, clicks>> => FormOK'
  BY HeldStays DEF ClientIInv, FormOK, form
<1>2. UNCHANGED context => ContextOK'
  <2>1. /\ TruthfulNow("elections", elections)'
        /\ TruthfulNow("candidates", candidates)'
        /\ TruthfulNow("votes", votes)'
        <=> ContextOK'
    BY DEF ContextOK
  <2>2. \A kind \in Kinds : \A payload : TruthfulNow(kind, payload) =>
          Truthful(kind, payload, StoredElections', CandidatesOnFile', ElectionVotes', created')
    BY HeldStays DEF TruthfulNow
  <2>3. {"elections", "candidates", "votes"} \subseteq Kinds
    BY DEF Kinds
  <2> QED
    BY <2>1, <2>2, <2>3 DEF ClientIInv, ContextOK, TruthfulNow, context
<1>3. UNCHANGED fetches => FetchesOK'
  BY HeldStays DEF ClientIInv, FetchesOK
<1>4. UNCHANGED pool => PoolOK'
  BY HeldStays DEF ClientIInv, PoolOK
<1> QED
  BY <1>1, <1>2, <1>3, <1>4, HeldStays

(* Another page is mounted with an empty form and fetches of its own. *)
LEMMA OpenPageKeeps ==
    ASSUME ClientIInv, UNCHANGED vars, NEW p \in {"home", "vote", "result"}, OpenPage(p)
    PROVE  ClientIInv'
<1>1. FormOK'
  BY ClientBound DEF ClientIInv, FormOK, OpenPage, Click
<1>2. FetchesOK'
  BY SentKeeps DEF OpenPage
<1> QED
  BY <1>1, <1>2, AlonePartsKeep DEF OpenPage, ClientIInv

(* Selecting an election fetches anew and keeps the candidate that was selected. *)
LEMMA SelectElectionKeeps ==
    ASSUME ClientIInv, UNCHANGED vars, NEW e \in elections, SelectElection(e)
    PROVE  ClientIInv'
<1>1. e \in StoredElections
  BY DEF ClientIInv, ContextOK, TruthfulNow, Truthful
<1>2. FormOK'
  <2>1. clicks' \in 0 .. MaxClicks
    BY ClientBound DEF ClientIInv, FormOK, SelectElection, Click
  <2> QED
    BY <1>1, <2>1, HeldStays DEF ClientIInv, FormOK, SelectElection
<1>3. FetchesOK'
  BY <1>1, SentKeeps DEF SelectElection, StoredElections
<1> QED
  BY <1>2, <1>3, AlonePartsKeep DEF SelectElection, ClientIInv

(* Selecting a candidate changes the form only. *)
LEMMA SelectCandidateKeeps ==
    ASSUME ClientIInv, UNCHANGED vars, NEW c \in CandidatesOffered, SelectCandidate(c)
    PROVE  ClientIInv'
<1>1. c \in CandidatesOnFile
  BY DEF CandidatesOffered, ClientIInv, ContextOK, TruthfulNow, Truthful
<1>2. FormOK'
  <2>1. clicks' \in 0 .. MaxClicks
    BY ClientBound DEF ClientIInv, FormOK, SelectCandidate, Click
  <2> QED
    BY <1>1, <2>1, HeldStays DEF ClientIInv, FormOK, SelectCandidate
<1> QED
  BY <1>2, AlonePartsKeep DEF SelectCandidate, ClientIInv

(* Submitting sends what the form holds, and leaves the form as it is. *)
LEMMA SubmitKeeps ==
    ASSUME ClientIInv, UNCHANGED vars, Submit
    PROVE  ClientIInv'
<1> DEFINE call == [candidate_id |-> candidateId, election_id |-> electionId]
<1>1. candidateId \in CandidatesOnFile /\ electionId \in StoredElections
  BY DEF ClientIInv, FormOK, Submit, AllParamsFilled
<1>2. FormOK'
  <2>1. clicks' \in 0 .. MaxClicks
    BY ClientBound DEF ClientIInv, FormOK, Submit, Click
  <2> QED
    BY <2>1, HeldStays DEF ClientIInv, FormOK, Submit, form
<1>3. PoolOK'
  <2> DEFINE Calls == [candidate_id : Hash, election_id : Hash]
  <2>1. call \in Calls /\ call.candidate_id \in CandidatesOnFile
    BY <1>1 DEF CandidatesOnFile, StoredElections
  <2>2. pool \in Seq(Calls) /\ pool' = Append(pool, call)
    BY DEF Submit, ClientIInv, PoolOK
  <2> HIDE DEF Calls, call
  <2>3. pool' \in Seq(Calls)
    BY <2>1, <2>2
  <2>4. \A i \in DOMAIN pool' : pool'[i] = call \/ (i \in DOMAIN pool /\ pool'[i] = pool[i])
    BY <2>1, <2>2
  <2>5. \A i \in DOMAIN pool' : pool'[i].candidate_id \in CandidatesOnFile
    BY <2>1, <2>4 DEF ClientIInv, PoolOK
  <2> QED
    BY <2>3, <2>5, HeldStays DEF PoolOK, Calls
<1> QED
  BY <1>2, <1>3, AlonePartsKeep DEF Submit, ClientIInv, form

(* The node answers a query with what storage holds at that moment. *)
LEMMA AnswerKeeps ==
    ASSUME ClientIInv, UNCHANGED vars,
           NEW k \in Kinds, NEW fetch \in DOMAIN fetches[k], Answer(k, fetch)
    PROVE  ClientIInv'
<1> DEFINE answered == [fetch EXCEPT !.answer = <<AnswerTo(k, fetch.of)>>]
<1>1. CallOK(k, fetch)
  BY DEF ClientIInv, FetchesOK
<1>2. CallOK(k, answered)
  <2>1. /\ answered = [of |-> fetch.of, answer |-> <<AnswerTo(k, fetch.of)>>]
        /\ answered.of = fetch.of
        /\ Head(answered.answer) = AnswerTo(k, fetch.of)
    BY <1>1 DEF CallOK
  <2>2. fetch.of \in Hash \cup {NoId} /\ TruthfulNow(k, AnswerTo(k, fetch.of))
    BY <1>1, AnswersTruthful DEF CallOK, ClientIInv
  <2> HIDE DEF answered
  <2> QED
    BY <2>1, <2>2 DEF CallOK
<1>3. /\ DOMAIN fetches' = Kinds
      /\ \A i \in Kinds : i # k => fetches'[i] = fetches[i]
      /\ fetches'[k] = BagAdd(BagRemove(fetches[k], fetch), answered)
  BY DEF Answer, ClientIInv, FetchesOK
<1> HIDE DEF answered
<1>4. DOMAIN fetches'[k] \subseteq DOMAIN fetches[k] \cup {answered}
  <2>1. /\ DOMAIN BagRemove(fetches[k], fetch) \subseteq DOMAIN fetches[k]
        /\ DOMAIN BagAdd(BagRemove(fetches[k], fetch), answered) =
              DOMAIN BagRemove(fetches[k], fetch) \cup {answered}
    BY BagDomains
  <2> QED
    BY <1>3, <2>1
<1>5. FetchesOK'
  <2> SUFFICES ASSUME NEW i \in Kinds, NEW f \in DOMAIN fetches'[i] PROVE CallOK(i, f)'
    BY <1>3 DEF FetchesOK
  <2>1. CallOK(i, f)
    BY <1>2, <1>3, <1>4 DEF ClientIInv, FetchesOK
  <2> QED
    BY <2>1, HeldStays
<1> QED
  BY <1>5, AlonePartsKeep DEF Answer, ClientIInv

(* The answer is dispatched to the context, in place of the list it had. *)
LEMMA DispatchKeeps ==
    ASSUME ClientIInv, UNCHANGED vars,
           NEW k \in Kinds, NEW fetch \in DOMAIN fetches[k], Dispatch(k, fetch)
    PROVE  ClientIInv'
<1> DEFINE payload == Head(fetch.answer)
<1>1. TruthfulNow(k, payload)'
  <2>1. TruthfulNow(k, payload)
    BY DEF ClientIInv, FetchesOK, CallOK, Dispatch
  <2> QED
    BY <2>1, HeldStays
<1>2. /\ TruthfulNow("elections", elections)'
      /\ TruthfulNow("candidates", candidates)'
      /\ TruthfulNow("votes", votes)'
      <=> ContextOK'
  BY DEF ContextOK
<1>3. \A kind \in Kinds : \A list : TruthfulNow(kind, list) =>
        Truthful(kind, list, StoredElections', CandidatesOnFile', ElectionVotes', created')
  BY HeldStays DEF TruthfulNow
<1>4. {"elections", "candidates", "votes"} \subseteq Kinds
  BY DEF Kinds
<1>5. \/ k = "elections" /\ elections' = payload /\ UNCHANGED <<candidates, votes>>
      \/ k = "candidates" /\ candidates' = payload /\ UNCHANGED <<elections, votes>>
      \/ k = "votes" /\ votes' = payload /\ UNCHANGED <<elections, candidates>>
  BY DEF Dispatch, Replaced
<1>6. ContextOK'
  BY <1>1, <1>2, <1>3, <1>4, <1>5 DEF ClientIInv, ContextOK, TruthfulNow
<1>7. FetchesOK'
  <2>1. /\ DOMAIN fetches' = Kinds
        /\ \A i \in Kinds : i # k => fetches'[i] = fetches[i]
        /\ fetches'[k] = BagRemove(fetches[k], fetch)
    BY DEF Dispatch, ClientIInv, FetchesOK
  <2>2. DOMAIN BagRemove(fetches[k], fetch) \subseteq DOMAIN fetches[k]
    BY BagDomains
  <2> SUFFICES ASSUME NEW i \in Kinds, NEW f \in DOMAIN fetches'[i] PROVE CallOK(i, f)'
    BY <2>1 DEF FetchesOK
  <2>3. CallOK(i, f)
    BY <2>1, <2>2 DEF ClientIInv, FetchesOK
  <2> QED
    BY <2>3, HeldStays
<1> QED
  BY <1>6, <1>7, AlonePartsKeep DEF Dispatch, ClientIInv, form

(* A block includes the vote of the user, and the pallet files or refuses it. *)
LEMMA IncludeKeeps ==
    ASSUME ClientIInv, [Next]_vars, Include
    PROVE  ClientIInv'
<1>1. PoolOK'
  <2> DEFINE Calls == [candidate_id : Hash, election_id : Hash]
  <2>1. pool \in Seq(Calls) /\ pool # <<>> /\ pool' = Tail(pool)
    BY DEF Include, ClientIInv, PoolOK
  <2> HIDE DEF Calls
  <2>2. pool' \in Seq(Calls)
    BY <2>1
  <2>3. \A i \in DOMAIN pool' : i + 1 \in DOMAIN pool /\ pool'[i] = pool[i + 1]
    BY <2>1
  <2> QED
    BY <2>2, <2>3, HeldStays DEF ClientIInv, PoolOK, Calls
<1> QED
  BY <1>1, AlonePartsKeep DEF Include, ClientIInv

(* Every step of a page, of a fetch and of the chain keeps the invariant. *)
LEMMA ClientNextInv == ClientIInv /\ [ClientNext]_<<vars, clientVars>> => ClientIInv'
<1> SUFFICES ASSUME ClientIInv, [ClientNext]_<<vars, clientVars>> PROVE ClientIInv'
  OBVIOUS
<1>1. [Next]_vars
  BY ChainSteps DEF ClientIInv
<1>2. CASE UserStep /\ UNCHANGED vars
  BY <1>2, OpenPageKeeps, SelectElectionKeeps, SelectCandidateKeeps, SubmitKeeps DEF UserStep
<1>3. CASE NodeStep /\ UNCHANGED vars
  BY <1>3, AnswerKeeps, DispatchKeeps DEF NodeStep, BagToSet
<1>4. CASE Include
  BY <1>1, <1>4, IncludeKeeps
<1>5. CASE UNCHANGED clientVars
  BY <1>1, <1>5, AlonePartsKeep DEF clientVars, ClientIInv
<1> QED
  BY <1>2, <1>3, <1>4, <1>5 DEF ClientNext, Others

-----------------------------------------------------------------------------
(* The invariant of a browser loaded at any moment.                        *)
THEOREM ClientInvariance == LoadedSpec => []ClientIInv
BY ClientInitInv, ClientNextInv, PTL DEF LoadedSpec

(* A page loaded before the first election is one of those.                *)
LEMMA LoadedFirst == ClientSpec => LoadedSpec
BY InitIInv DEF ClientSpec, LoadedSpec

(* The context and the form hold ids and lists the chain has had, in       *)
(* whatever order the answers of the node are dispatched.                  *)
THEOREM ClientTyped == LoadedSpec => []ClientTypeOK
<1>1. ClientIInv => ClientTypeOK
  <2> SUFFICES ASSUME ClientIInv PROVE ClientTypeOK
    OBVIOUS
  <2>1. \A k \in Kinds : \A f \in BagToSet(fetches[k]) : f.of \in Hash \cup {NoId}
    BY DEF ClientIInv, FetchesOK, CallOK, BagToSet
  <2>2. \A i \in DOMAIN pool : pool[i].election_id \in Hash
    <3> DEFINE Calls == [candidate_id : Hash, election_id : Hash]
    <3>1. pool \in Seq(Calls)
      BY DEF ClientIInv, PoolOK
    <3> HIDE DEF Calls
    <3>2. \A i \in DOMAIN pool : pool[i] \in Calls
      BY <3>1
    <3> QED
      BY <3>2 DEF Calls
  <2> QED
    BY <2>1, <2>2 DEF ClientIInv, FormOK, ContextOK, TruthfulNow, Truthful,
                      CandidatesOnFile, StoredElections, ClientTypeOK
<1> QED
  BY <1>1, ClientInvariance, PTL

(* The table of results never mixes two elections or two moments.          *)
THEOREM ClientShowsOneList == LoadedSpec => []ShownVotesAreOneList
<1>1. ClientIInv => ShownVotesAreOneList
  BY DEF ClientIInv, ContextOK, TruthfulNow, Truthful, OneList, ShownVotesAreOneList
<1> QED
  BY <1>1, ClientInvariance, PTL

(* However stale the form, create_vote never answers it CandidateNotFound, *)
(* which would cost the voter the ballot.                                  *)
THEOREM ClientWastesNothing == LoadedSpec => FormNeverWastesBallot
<1> DEFINE Wasted == Include => result' # "CandidateNotFound"
<1>1. ClientIInv /\ [ClientNext]_<<vars, clientVars>> => [Wasted]_<<vars, clientVars>>
  <2> SUFFICES ASSUME ClientIInv, Include PROVE result' # "CandidateNotFound"
    OBVIOUS
  <2>1. Head(pool).candidate_id \in CandidatesOnFile
    <3>1. 1 \in DOMAIN pool /\ Head(pool) = pool[1]
      BY DEF Include, ClientIInv, PoolOK
    <3> QED
      BY <3>1 DEF ClientIInv, PoolOK
  <2>2. CandidateVotes[Head(pool).candidate_id] # None
    BY <2>1 DEF CandidatesOnFile, ClientIInv, IInv, StorageMapsAgree
  <2> QED
    BY <2>2 DEF Include, CreateVote, Reject
<1> QED
  BY <1>1, ClientInvariance, PTL DEF LoadedSpec, FormNeverWastesBallot

-----------------------------------------------------------------------------
(***************************************************************************)
(* What the composition does to the pallet: nothing that the pallet would  *)
(* not do by itself, so that everything proved of it alone holds behind    *)
(* the client as well.                                                     *)
(***************************************************************************)

(* A form submits only hashes that it was given, so that the extrinsics it   *)
(* puts into a block are calls of the pallet: every behaviour of the client  *)
(* and the chain is one of the pallet (src/client/src/votechain/Vote.js).    *)
THEOREM ClientRefinesPallet == ClientSpec => Spec
<1>1. ClientIInv /\ [ClientNext]_<<vars, clientVars>> => [Next]_vars
  BY ChainSteps DEF ClientIInv
<1>2. ClientSpec => Init
  BY DEF ClientSpec
<1> QED
  BY <1>1, <1>2, LoadedFirst, ClientInvariance, PTL DEF ClientSpec, Spec

(* Behind the client the pallet still implements the ballot box, keeps its   *)
(* maps agreed and its ballots one per author, and loses none but to Root    *)
(* (pallets/votechain/src/lib.rs).                                           *)
THEOREM ClientKeepsBallotBox ==
    ClientSpec => /\ ImplementsBallotBox /\ OnlyRootDiscardsVotes
                  /\ []StorageMapsAgree /\ []OneBallotPerAuthor
                  /\ []BallotsAccounted /\ []DoubleCountNeedsRecreation
BY ClientRefinesPallet, RefinesBallotBox, VotersDiscardNothing, MapsAgree, OneBallot,
   BallotsAreAccounted, NoDoubleCount
=============================================================================
