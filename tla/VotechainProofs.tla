--------------------------- MODULE VotechainProofs ---------------------------
(***************************************************************************)
(* What holds of the pallet for any number of accounts, elections and      *)
(* candidates, and any length bounds.                                      *)
(*                                                                         *)
(* The safety invariants of Votechain are not inductive one by one: that a *)
(* candidate is typed needs StorageMapsAgree, and that nobody is counted   *)
(* twice needs every accepted vote to be found on its election's list,     *)
(* which in turn needs an election to exist exactly when it was created.   *)
(* IInv is their conjunction with those two facts.                         *)
(***************************************************************************)
EXTENDS Votechain, TLAPS

(* An election exists exactly when create_election has stored it, and      *)
(* votes are only accepted in elections that exist.                        *)
CreationsCounted ==
    /\ \A e \in Hash : Elections[e] = None <=> created[e] = 0
    /\ \A v \in accepted : Elections[v.election_id] # None

IInv ==
    /\ TypeOK
    /\ StorageMapsAgree
    /\ CreationsCounted
    /\ OneBallotPerAuthor
    /\ BallotsAccounted
    /\ DoubleCountNeedsRecreation

-----------------------------------------------------------------------------
(* The steps of the pallet, one operator for each way storage can change.  *)

Refused == UNCHANGED <<storage, accepted, created>> /\ result' \in Errors

Stored(d) ==
    LET e == HashOf(OpenElection(d))
    IN  /\ Elections' = [Elections EXCEPT ![e] = OpenElection(d)]
        /\ ElectionCandidates' = [ElectionCandidates EXCEPT ![e] = <<>>]
        /\ ElectionVotes' = [ElectionVotes EXCEPT ![e] = <<>>]
        /\ created' = [created EXCEPT ![e] = @ + 1]
        /\ result' = "Ok"
        /\ UNCHANGED <<Candidates, CandidateVotes, accepted>>

Closed(e) ==
    /\ IsOpen(e)
    /\ Elections' = [Elections EXCEPT ![e].is_open = FALSE]
    /\ result' = "Ok"
    /\ UNCHANGED <<ElectionCandidates, ElectionVotes, Candidates, CandidateVotes, accepted, created>>

Registered(k) ==
    /\ ElectionCandidates[k.election_id] # None
    /\ ElectionCandidates' = [ElectionCandidates EXCEPT ![k.election_id] = Append(@, k)]
    /\ Candidates' = [Candidates EXCEPT ![HashOf(k)] = k]
    /\ CandidateVotes' = [CandidateVotes EXCEPT ![HashOf(k)] = <<>>]
    /\ result' = "Ok"
    /\ UNCHANGED <<Elections, ElectionVotes, accepted, created>>

Spent(v) ==
    /\ IsOpen(v.election_id)
    /\ CanCast(v.author, v.election_id)
    /\ ElectionVotes' = [ElectionVotes EXCEPT ![v.election_id] = Append(@, v)]
    /\ CandidateVotes[v.candidate_id] = None
    /\ result' = "CandidateNotFound"
    /\ UNCHANGED <<CandidateVotes, accepted, Elections, ElectionCandidates, Candidates, created>>

Counted(v) ==
    /\ IsOpen(v.election_id)
    /\ CanCast(v.author, v.election_id)
    /\ ElectionVotes' = [ElectionVotes EXCEPT ![v.election_id] = Append(@, v)]
    /\ CandidateVotes[v.candidate_id] # None
    /\ CandidateVotes' = [CandidateVotes EXCEPT ![v.candidate_id] = Append(@, v)]
    /\ accepted' = accepted \cup {v}
    /\ result' = "Ok"
    /\ UNCHANGED <<Elections, ElectionCandidates, Candidates, created>>

(* An election with a candidate list is one of the ids the pallet gives.   *)
LEMMA ListedIsElection ==
    ASSUME StorageMapsAgree, TypeOK, NEW e \in Hash, ElectionCandidates[e] # None
    PROVE  e \in ElectionIds
<1>1. Elections[e] # None
  BY DEF StorageMapsAgree
<1>2. Elections[e] \in Election
  BY <1>1 DEF TypeOK
<1>3. e = HashOf(OpenElection(Elections[e].description))
  BY <1>1 DEF StorageMapsAgree
<1> QED
  BY <1>2, <1>3 DEF ElectionIds, Election

(* Next is the disjunction of those steps: no dispatchable does anything   *)
(* to the storage besides.                                                 *)
LEMMA NextSteps ==
    ASSUME IInv, Next
    PROVE  \/ Refused
           \/ \E d \in Descriptions : Stored(d)
           \/ \E e \in Hash : Closed(e)
           \/ \E k \in Candidate : Registered(k)
           \/ \E v \in Vote : Spent(v) \/ Counted(v)
<1> USE DEF Errors, Reject, Refused
<1>1. PICK origin \in Accounts \cup {Root} :
        \/ \E d \in Descriptions : CreateElection(origin, d)
        \/ \E e \in Hash : CloseElection(origin, e)
        \/ \E n \in CandidateNames, e \in Hash : CreateCandidate(origin, n, e)
        \/ \E c, e \in Hash : CreateVote(origin, c, e)
  BY DEF Next
<1>2. ASSUME NEW d \in Descriptions, CreateElection(origin, d)
      PROVE  Refused \/ Stored(d)
  BY <1>2 DEF CreateElection, Stored, NoBallots, NoCandidates
<1>3. ASSUME NEW e \in Hash, CloseElection(origin, e)
      PROVE  Refused \/ Closed(e)
  BY <1>3 DEF CloseElection, Closed
<1>4. ASSUME NEW n \in CandidateNames, NEW e \in Hash, CreateCandidate(origin, n, e)
      PROVE  Refused \/ \E k \in Candidate : Registered(k)
  <2> DEFINE k == [candidate_name |-> n, election_id |-> e]
  <2>1. CASE ElectionCandidates[e] = None
    BY <1>4, <2>1 DEF CreateCandidate
  <2>2. CASE ElectionCandidates[e] # None
    <3>1. e \in ElectionIds
      BY <2>2, ListedIsElection DEF IInv
    <3>2. k \in Candidate
      BY <3>1 DEF Candidate
    <3>3. Refused \/ Registered(k)
      BY <1>4, <2>2 DEF CreateCandidate, Registered, NoVotes
    <3> QED
      BY <3>2, <3>3
  <2> QED
    BY <2>1, <2>2
<1>5. ASSUME NEW c \in Hash, NEW e \in Hash, CreateVote(origin, c, e)
      PROVE  Refused \/ \E v \in Vote : Spent(v) \/ Counted(v)
  <2> DEFINE v == Ballot(origin, c, e)
  <2>1. CASE EnsureSigned(origin)
    <3>1. /\ v \in Vote
          /\ v.author = origin /\ v.candidate_id = c /\ v.election_id = e
      BY <2>1 DEF EnsureSigned, Ballot, Vote
    <3>2. Refused \/ Spent(v) \/ Counted(v)
      BY <1>5, <2>1, <3>1 DEF CreateVote, Spent, Counted
    <3> QED
      BY <3>1, <3>2
  <2>2. CASE ~EnsureSigned(origin)
    BY <1>5, <2>2 DEF CreateVote
  <2> QED
    BY <2>1, <2>2
<1> QED
  BY <1>1, <1>2, <1>3, <1>4, <1>5
-----------------------------------------------------------------------------
(* IInv holds of the empty storage of the genesis block. *)
LEMMA InitIInv == Init => IInv
<1> SUFFICES ASSUME Init PROVE IInv
  OBVIOUS
<1>1. TypeOK
  BY DEF Init, TypeOK
<1> QED
  BY <1>1 DEF Init, IInv, StorageMapsAgree, CreationsCounted, OneBallotPerAuthor,
              BallotsAccounted, DoubleCountNeedsRecreation

(* The lists of ballots and of candidates grow by Append: what is in the   *)
(* longer list is the old elements and the new one.                        *)
LEMMA RangeAppend ==
    ASSUME NEW S, NEW s \in Seq(S), NEW x \in S
    PROVE  /\ Append(s, x) \in Seq(S)
           /\ Range(Append(s, x)) = Range(s) \cup {x}
<1>1. /\ Append(s, x) \in Seq(S)
      /\ DOMAIN Append(s, x) = 1 .. Len(s) + 1
      /\ \A i \in 1 .. Len(s) : Append(s, x)[i] = s[i]
      /\ Append(s, x)[Len(s) + 1] = x
      /\ Len(s) \in Nat /\ DOMAIN s = 1 .. Len(s)
  OBVIOUS
<1>2. 1 .. Len(s) + 1 = (1 .. Len(s)) \cup {Len(s) + 1}
  BY <1>1
<1> QED
  BY <1>1, <1>2 DEF Range

-----------------------------------------------------------------------------
(* Every step keeps the storage maps typed. *)
LEMMA TypeStep == IInv /\ Next => TypeOK'
<1> SUFFICES ASSUME IInv, Next PROVE TypeOK'
  OBVIOUS
<1> USE DEF IInv
<1>0. \A d \in Descriptions : HashOf(OpenElection(d)) \in Hash /\ OpenElection(d) \in Election
  BY DEF Hash, ElectionIds, OpenElection, Election
<1>1. CASE Refused
  BY <1>1 DEF Refused, TypeOK, storage, Errors
<1>2. CASE \E d \in Descriptions : Stored(d)
  <2>1. PICK d \in Descriptions : Stored(d)
    BY <1>2
  <2> QED
    BY <2>1, <1>0 DEF Stored, TypeOK
<1>3. CASE \E e \in Hash : Closed(e)
  <2>1. PICK e \in Hash : Closed(e)
    BY <1>3
  <2>2. Elections[e] \in Election
    BY <2>1 DEF Closed, IsOpen, TypeOK
  <2>3. [Elections[e] EXCEPT !.is_open = FALSE] \in Election
    BY <2>2 DEF Election
  <2>4. Elections' \in [Hash -> Election \cup {None}]
    BY <2>1, <2>3 DEF Closed, TypeOK
  <2> QED
    BY <2>1, <2>4 DEF Closed, TypeOK
<1>4. CASE \E k \in Candidate : Registered(k)
  <2>1. PICK k \in Candidate : Registered(k)
    BY <1>4
  <2>2. HashOf(k) \in Hash /\ k.election_id \in Hash
    BY DEF Hash, CandidateIds, Candidate
  <2>3. ElectionCandidates[k.election_id] \in Seq(Candidate)
    BY <2>1, <2>2 DEF Registered, TypeOK
  <2>4. Append(ElectionCandidates[k.election_id], k) \in Seq(Candidate)
    BY <2>3
  <2> QED
    BY <2>1, <2>2, <2>4 DEF Registered, TypeOK
<1>5. CASE \E v \in Vote : Spent(v) \/ Counted(v)
  <2>1. PICK v \in Vote : Spent(v) \/ Counted(v)
    BY <1>5
  <2>2. v.election_id \in Hash /\ v.candidate_id \in Hash
    BY DEF Vote
  <2>3. ElectionVotes[v.election_id] \in Seq(Vote)
    BY <2>1, <2>2 DEF Spent, Counted, CanCast, TypeOK
  <2>4. ElectionVotes' \in [Hash -> Seq(Vote) \cup {None}]
    <3>1. Append(ElectionVotes[v.election_id], v) \in Seq(Vote)
      BY <2>3
    <3>2. ElectionVotes' = [ElectionVotes EXCEPT
                              ![v.election_id] = Append(ElectionVotes[v.election_id], v)]
      BY <2>1 DEF Spent, Counted
    <3> QED
      BY <3>1, <3>2, <2>2 DEF TypeOK
  <2>5. CandidateVotes' \in [Hash -> Seq(Vote) \cup {None}]
    <3>1. CASE Spent(v)
      BY <3>1 DEF Spent, TypeOK
    <3>2. CASE Counted(v)
      <4>1. CandidateVotes[v.candidate_id] \in Seq(Vote)
        BY <3>2, <2>2 DEF Counted, TypeOK
      <4>2. Append(CandidateVotes[v.candidate_id], v) \in Seq(Vote)
        BY <4>1
      <4>3. CandidateVotes' = [CandidateVotes EXCEPT
                                 ![v.candidate_id] = Append(CandidateVotes[v.candidate_id], v)]
        BY <3>2 DEF Counted
      <4> QED
        BY <4>2, <4>3, <2>2 DEF TypeOK
    <3> QED
      BY <3>1, <3>2, <2>1
  <2> QED
    BY <2>1, <2>4, <2>5 DEF Spent, Counted, TypeOK, Errors
<1> QED
  BY <1>1, <1>2, <1>3, <1>4, <1>5, NextSteps

-----------------------------------------------------------------------------
(* Every step keeps at most one ballot per author on a list: the author of *)
(* a new ballot is on none before, and an election stored again has none.  *)
LEMMA OneBallotStep == IInv /\ Next => OneBallotPerAuthor'
<1> SUFFICES ASSUME IInv, Next PROVE OneBallotPerAuthor'
  OBVIOUS
<1> USE DEF IInv
<1>1. CASE UNCHANGED ElectionVotes
  BY <1>1 DEF OneBallotPerAuthor
<1>2. CASE \E d \in Descriptions : Stored(d)
  <2>1. PICK d \in Descriptions : Stored(d)
    BY <1>2
  <2> QED
    BY <2>1 DEF Stored, OneBallotPerAuthor, TypeOK
<1>3. CASE \E v \in Vote : Spent(v) \/ Counted(v)
  <2>1. PICK v \in Vote : Spent(v) \/ Counted(v)
    BY <1>3
  <2> DEFINE e == v.election_id
             old == ElectionVotes[e]
             new == Append(old, v)
  <2>2. e \in Hash
    BY DEF Vote
  <2>3. old \in Seq(Vote) /\ \A w \in Range(old) : w.author # v.author
    BY <2>1, <2>2 DEF Spent, Counted, CanCast, TypeOK
  <2>4. ElectionVotes' = [ElectionVotes EXCEPT ![e] = new]
    BY <2>1 DEF Spent, Counted
  <2>5. \A i, j \in DOMAIN old : old[i].author = old[j].author => i = j
    BY <2>1, <2>2, <2>3 DEF OneBallotPerAuthor, Spent, Counted, CanCast
  <2>6. \A i, j \in DOMAIN new : new[i].author = new[j].author => i = j
    <3>1. \A i \in DOMAIN old : old[i].author # v.author
      BY <2>3 DEF Range
    <3> QED
      BY <2>3, <2>5, <3>1
  <2>7. \A h \in Hash : ElectionVotes'[h] = IF h = e THEN new ELSE ElectionVotes[h]
    BY <2>2, <2>4 DEF TypeOK
  <2> QED
    BY <2>6, <2>7 DEF OneBallotPerAuthor
<1> QED
  BY <1>1, <1>2, <1>3, NextSteps DEF Refused, Closed, Registered, storage
-----------------------------------------------------------------------------
(* Every step keeps an election in all of its maps or in none of them.     *)
LEMMA StorageMapsStep == IInv /\ Next => StorageMapsAgree'
<1> SUFFICES ASSUME IInv, Next PROVE StorageMapsAgree'
  OBVIOUS
<1> USE DEF IInv
<1>0. /\ \A d \in Descriptions : /\ HashOf(OpenElection(d)) \in Hash
                                 /\ OpenElection(d) \in Election
                                 /\ OpenElection(d).description = d
      /\ \A k \in Candidate : HashOf(k) \in Hash /\ k.election_id \in Hash
      /\ None \notin Election /\ None \notin Candidate
      /\ None \notin Seq(Candidate) /\ None \notin Seq(Vote)
      /\ <<>> # None
  <2>1. <<>> \in Seq(Vote)
    OBVIOUS
  <2> QED
    BY <2>1, DistinctAssumption
       DEF Hash, ElectionIds, CandidateIds, OpenElection, Election, Candidate
<1>1. CASE Refused
  BY <1>1 DEF Refused, storage, StorageMapsAgree
<1>2. CASE \E d \in Descriptions : Stored(d)
  <2>1. PICK d \in Descriptions : Stored(d)
    BY <1>2
  <2> DEFINE e == HashOf(OpenElection(d))
  <2>2. \A h \in Hash :
          /\ Elections'[h] = IF h = e THEN OpenElection(d) ELSE Elections[h]
          /\ ElectionVotes'[h] = IF h = e THEN <<>> ELSE ElectionVotes[h]
          /\ ElectionCandidates'[h] = IF h = e THEN <<>> ELSE ElectionCandidates[h]
    BY <2>1, <1>0 DEF Stored, TypeOK
  <2>3. Elections'[e] # None
    BY <2>2, <1>0
  <2>4. Range(<<>>) = {}
    BY DEF Range
  <2>5. \A c \in Hash : Candidates[c] # None => Candidates[c].election_id \in Hash
    BY <1>0 DEF TypeOK
  <2> QED
    BY <2>1, <2>2, <2>3, <2>4, <2>5, <1>0 DEF Stored, StorageMapsAgree
<1>3. CASE \E e \in Hash : Closed(e)
  <2>1. PICK e \in Hash : Closed(e)
    BY <1>3
  <2>2. /\ Elections[e] # None /\ Elections[e] \in Election
        /\ [Elections[e] EXCEPT !.is_open = FALSE] \in Election
        /\ [Elections[e] EXCEPT !.is_open = FALSE].description = Elections[e].description
    BY <2>1 DEF Closed, IsOpen, TypeOK, Election
  <2>3. \A h \in Hash : /\ Elections'[h] = None <=> Elections[h] = None
                        /\ Elections[h] # None =>
                             Elections'[h].description = Elections[h].description
    BY <2>1, <2>2, <1>0 DEF Closed, TypeOK
  <2>4. \A c \in Hash : Candidates[c] # None => Candidates[c].election_id \in Hash
    BY <1>0 DEF TypeOK
  <2> QED
    BY <2>1, <2>3, <2>4 DEF Closed, StorageMapsAgree
<1>4. CASE \E k \in Candidate : Registered(k)
  <2>1. PICK k \in Candidate : Registered(k)
    BY <1>4
  <2> DEFINE e == k.election_id
             old == ElectionCandidates[e]
  <2>2. old \in Seq(Candidate)
    BY <2>1, <1>0 DEF Registered, TypeOK
  <2>3. Append(old, k) \in Seq(Candidate) /\ Range(Append(old, k)) = Range(old) \cup {k}
    BY <2>2, RangeAppend
  <2>4. \A h \in Hash :
          /\ ElectionCandidates'[h] = IF h = e THEN Append(old, k) ELSE ElectionCandidates[h]
          /\ Candidates'[h] = IF h = HashOf(k) THEN k ELSE Candidates[h]
          /\ CandidateVotes'[h] = IF h = HashOf(k) THEN <<>> ELSE CandidateVotes[h]
    BY <2>1, <1>0 DEF Registered, TypeOK
  <2>5. Elections[e] # None
    BY <2>1, <1>0 DEF Registered, StorageMapsAgree
  <2>6. \A h \in Hash : ElectionCandidates[h] # None =>
          \A m \in Range(ElectionCandidates[h]) : m \in Candidate
    BY DEF TypeOK, Range
  <2>7. \A m \in Candidate : HashOf(m) = HashOf(k) => m = k
    BY HashAssumption DEF Hashed
  <2>8. \A h \in Hash : ElectionCandidates'[h] # None =>
          \A m \in Range(ElectionCandidates'[h]) :
            m.election_id = h /\ Candidates'[HashOf(m)] = m
    <3> SUFFICES ASSUME NEW h \in Hash, ElectionCandidates'[h] # None,
                        NEW m \in Range(ElectionCandidates'[h])
                 PROVE  m.election_id = h /\ Candidates'[HashOf(m)] = m
      OBVIOUS
    <3>1. CASE m = k /\ h = e
      BY <3>1, <2>4, <1>0
    <3>2. CASE ElectionCandidates[h] # None /\ m \in Range(ElectionCandidates[h])
      <4>1. m \in Candidate /\ m.election_id = h /\ Candidates[HashOf(m)] = m
        BY <3>2, <2>6 DEF StorageMapsAgree
      <4> QED
        BY <4>1, <2>4, <2>7, <1>0
    <3> QED
      BY <3>1, <3>2, <2>1, <2>3, <2>4 DEF Registered
  <2>9. \A c \in Hash :
          /\ Candidates'[c] = None <=> CandidateVotes'[c] = None
          /\ Candidates'[c] # None =>
               c = HashOf(Candidates'[c]) /\ Elections[Candidates'[c].election_id] # None
    <3> SUFFICES ASSUME NEW c \in Hash
                 PROVE  /\ Candidates'[c] = None <=> CandidateVotes'[c] = None
                        /\ Candidates'[c] # None =>
                             /\ c = HashOf(Candidates'[c])
                             /\ Elections[Candidates'[c].election_id] # None
      OBVIOUS
    <3>1. CASE c = HashOf(k)
      <4>1. Candidates'[c] = k /\ CandidateVotes'[c] = <<>> /\ k # None
        BY <3>1, <2>4, <1>0
      <4> QED
        BY <3>1, <4>1, <2>5, <1>0
    <3>2. CASE c # HashOf(k)
      BY <3>2, <2>4 DEF StorageMapsAgree
    <3> QED
      BY <3>1, <3>2
  <2>10. UNCHANGED <<Elections, ElectionVotes>>
    BY <2>1 DEF Registered
  <2>11. ElectionCandidates'[e] # None
    <3>1. Append(old, k) # None
      BY <2>3, <1>0
    <3>2. ElectionCandidates'[e] = Append(old, k)
      BY <2>4, <1>0
    <3> QED
      BY <3>1, <3>2
  <2> QED
    BY <2>4, <2>5, <2>8, <2>9, <2>10, <2>11 DEF StorageMapsAgree
<1>5. CASE \E v \in Vote : Spent(v) \/ Counted(v)
  <2>1. PICK v \in Vote : Spent(v) \/ Counted(v)
    BY <1>5
  <2>2. v.election_id \in Hash /\ v.candidate_id \in Hash
    BY DEF Vote
  <2>3. \A h \in Hash : ElectionVotes'[h] = None <=> ElectionVotes[h] = None
    <3>1. ElectionVotes[v.election_id] \in Seq(Vote)
      BY <2>1, <2>2 DEF Spent, Counted, CanCast, TypeOK
    <3>2. Append(ElectionVotes[v.election_id], v) \in Seq(Vote)
      BY <3>1, RangeAppend, Zenon
    <3>3. Append(ElectionVotes[v.election_id], v) # None
      BY <3>2, <1>0
    <3> QED
      BY <2>1, <2>2, <3>1, <3>3, <1>0 DEF Spent, Counted, TypeOK
  <2>4. \A h \in Hash : CandidateVotes'[h] = None <=> CandidateVotes[h] = None
    <3>1. CASE Spent(v)
      BY <3>1 DEF Spent
    <3>2. CASE Counted(v)
      <4>1. CandidateVotes[v.candidate_id] \in Seq(Vote)
        BY <3>2, <2>2 DEF Counted, TypeOK
      <4>2. Append(CandidateVotes[v.candidate_id], v) \in Seq(Vote)
        BY <4>1, RangeAppend, Zenon
      <4>3. Append(CandidateVotes[v.candidate_id], v) # None
        BY <4>2, <1>0
      <4> QED
        BY <3>2, <2>2, <4>1, <4>3, <1>0 DEF Counted, TypeOK
    <3> QED
      BY <3>1, <3>2, <2>1
  <2>5. UNCHANGED <<Elections, ElectionCandidates, Candidates>>
    BY <2>1 DEF Spent, Counted
  <2> QED
    BY <2>3, <2>4, <2>5 DEF StorageMapsAgree
<1> QED
  BY <1>1, <1>2, <1>3, <1>4, <1>5, NextSteps
-----------------------------------------------------------------------------
(* Every step keeps the count of creations in line with the elections.     *)
LEMMA CreationsStep == IInv /\ Next => CreationsCounted'
<1> SUFFICES ASSUME IInv, Next PROVE CreationsCounted'
  OBVIOUS
<1> USE DEF IInv
<1>0. None \notin Election
  BY DistinctAssumption
<1>1. \A v \in accepted : v.election_id \in Hash
  BY DEF TypeOK, Vote
<1>2. CASE \E d \in Descriptions : Stored(d)
  <2>1. PICK d \in Descriptions : Stored(d)
    BY <1>2
  <2> DEFINE e == HashOf(OpenElection(d))
  <2>2. e \in Hash /\ OpenElection(d) # None
    <3>1. OpenElection(d) \in Election
      BY DEF OpenElection, Election
    <3> QED
      BY <3>1, <1>0 DEF Hash, ElectionIds
  <2>3. \A h \in Hash :
          /\ Elections'[h] = IF h = e THEN OpenElection(d) ELSE Elections[h]
          /\ created'[h] = IF h = e THEN created[h] + 1 ELSE created[h]
    BY <2>1, <2>2 DEF Stored, TypeOK
  <2>4. \A h \in Hash : created[h] \in Nat
    BY DEF TypeOK
  <2> QED
    BY <1>1, <2>1, <2>2, <2>3, <2>4 DEF Stored, CreationsCounted
<1>3. CASE \E e \in Hash : Closed(e)
  <2>1. PICK e \in Hash : Closed(e)
    BY <1>3
  <2>2. [Elections[e] EXCEPT !.is_open = FALSE] # None /\ Elections[e] # None
    BY <2>1, <1>0 DEF Closed, IsOpen, TypeOK, Election
  <2>3. \A h \in Hash : Elections'[h] = None <=> Elections[h] = None
    BY <2>1, <2>2 DEF Closed, TypeOK
  <2> QED
    BY <1>1, <2>1, <2>3 DEF Closed, CreationsCounted
<1>4. CASE \E v \in Vote : Spent(v) \/ Counted(v)
  BY <1>4 DEF Spent, Counted, IsOpen, CreationsCounted
<1> QED
  BY <1>2, <1>3, <1>4, NextSteps DEF Refused, Registered, CreationsCounted, storage

-----------------------------------------------------------------------------
(* Every step files votes where they belong, and credits candidates with   *)
(* accepted votes only.  A ballot list is emptied only by creating its     *)
(* election, and the election then counts as created again if a vote was   *)
(* accepted in it before.                                                  *)
LEMMA BallotsStep == IInv /\ Next => BallotsAccounted'
<1> SUFFICES ASSUME IInv, Next PROVE BallotsAccounted'
  OBVIOUS
<1> USE DEF IInv
<1>0. \A v \in accepted : v.election_id \in Hash /\ v.candidate_id \in Hash
  BY DEF TypeOK, Vote
<1>1. Range(<<>>) = {}
  BY DEF Range
<1>2. CASE UNCHANGED <<ElectionVotes, CandidateVotes, accepted, created>>
  BY <1>2 DEF BallotsAccounted
<1>3. CASE \E d \in Descriptions : Stored(d)
  <2>1. PICK d \in Descriptions : Stored(d)
    BY <1>3
  <2> DEFINE e == HashOf(OpenElection(d))
  <2>2. e \in Hash
    BY DEF Hash, ElectionIds
  <2>3. \A h \in Hash :
          /\ ElectionVotes'[h] = IF h = e THEN <<>> ELSE ElectionVotes[h]
          /\ created'[h] = IF h = e THEN created[h] + 1 ELSE created[h]
          /\ created[h] \in Nat
    BY <2>1, <2>2 DEF Stored, TypeOK
  <2>4. \A v \in accepted : created[v.election_id] # 0
    BY <1>0 DEF CreationsCounted
  <2>5. \A v \in accepted : created'[v.election_id] = 1 =>
            v.election_id # e /\ created[v.election_id] = 1
    BY <1>0, <2>3, <2>4
  <2> QED
    BY <1>0, <1>1, <2>1, <2>3, <2>5 DEF Stored, BallotsAccounted
<1>4. CASE \E k \in Candidate : Registered(k)
  <2>1. PICK k \in Candidate : Registered(k)
    BY <1>4
  <2>2. HashOf(k) \in Hash
    BY DEF Hash, CandidateIds
  <2>3. \A c \in Hash :
          CandidateVotes'[c] = IF c = HashOf(k) THEN <<>> ELSE CandidateVotes[c]
    BY <2>1, <2>2 DEF Registered, TypeOK
  <2> QED
    BY <1>1, <2>1, <2>3 DEF Registered, BallotsAccounted
<1>5. CASE \E v \in Vote : Spent(v) \/ Counted(v)
  <2>1. PICK v \in Vote : Spent(v) \/ Counted(v)
    BY <1>5
  <2> DEFINE e == v.election_id
             c == v.candidate_id
  <2>2. e \in Hash /\ c \in Hash
    BY DEF Vote
  <2>3. ElectionVotes[e] \in Seq(Vote) /\ ElectionVotes[e] # None
    BY <2>1, <2>2 DEF Spent, Counted, CanCast, TypeOK
  <2>4. \A h \in Hash : ElectionVotes'[h] =
            IF h = e THEN Append(ElectionVotes[e], v) ELSE ElectionVotes[h]
    BY <2>1, <2>2 DEF Spent, Counted, TypeOK
  <2>5. Range(Append(ElectionVotes[e], v)) = Range(ElectionVotes[e]) \cup {v}
    BY <2>3, RangeAppend
  <2>6. \A h \in Hash : ElectionVotes'[h] # None =>
            \A w \in Range(ElectionVotes'[h]) : w.election_id = h
    BY <2>3, <2>4, <2>5 DEF BallotsAccounted
  <2>7. \A w \in accepted : created[w.election_id] = 1 =>
            w \in Range(ElectionVotes'[w.election_id])
    BY <1>0, <2>4, <2>5 DEF BallotsAccounted
  <2>8. v \in Range(ElectionVotes'[e]) /\ UNCHANGED created
    BY <2>1, <2>2, <2>4, <2>5 DEF Spent, Counted
  <2>9. CASE Spent(v)
    BY <2>6, <2>7, <2>8, <2>9 DEF Spent, BallotsAccounted
  <2>10. CASE Counted(v)
    <3>1. CandidateVotes[c] \in Seq(Vote) /\ CandidateVotes[c] # None
      BY <2>2, <2>10 DEF Counted, TypeOK
    <3>2. Range(Append(CandidateVotes[c], v)) = Range(CandidateVotes[c]) \cup {v}
      BY <3>1, RangeAppend
    <3>3. \A h \in Hash : CandidateVotes'[h] =
              IF h = c THEN Append(CandidateVotes[c], v) ELSE CandidateVotes[h]
      BY <2>2, <2>10 DEF Counted, TypeOK
    <3>4. accepted' = accepted \cup {v}
      BY <2>10 DEF Counted
    <3>5. \A h \in Hash : CandidateVotes'[h] # None =>
              \A w \in Range(CandidateVotes'[h]) : w.candidate_id = h /\ w \in accepted'
      BY <3>1, <3>2, <3>3, <3>4 DEF BallotsAccounted
    <3> QED
      BY <2>6, <2>7, <2>8, <3>4, <3>5 DEF BallotsAccounted
  <2> QED
    BY <2>1, <2>9, <2>10
<1> QED
  BY <1>2, <1>3, <1>4, <1>5, NextSteps DEF Refused, Closed, storage
-----------------------------------------------------------------------------
(* A vote that is counted for a candidate is its author's first one for    *)
(* that candidate in an election created once: an earlier one would have   *)
(* been accepted, so it would be on the election's list, where create_vote *)
(* looks before it pushes.                                                 *)
LEMMA FirstCount ==
    ASSUME IInv, NEW v \in Vote, Counted(v), created[v.election_id] <= 1,
           NEW w \in Range(CandidateVotes[v.candidate_id]),
           w.author = v.author, w.election_id = v.election_id
    PROVE  FALSE
<1> USE DEF IInv
<1>1. v.election_id \in Hash /\ v.candidate_id \in Hash
  BY DEF Vote
<1>2. w \in accepted
  BY <1>1 DEF Counted, BallotsAccounted
<1>3. created[v.election_id] \in Nat /\ created[v.election_id] # 0
  BY <1>1 DEF TypeOK, Counted, IsOpen, CreationsCounted
<1>4. created[v.election_id] = 1
  BY <1>3
<1>5. w \in Range(ElectionVotes[v.election_id])
  BY <1>2, <1>4 DEF BallotsAccounted
<1> QED
  BY <1>5 DEF Counted, CanCast

(* Every step keeps authors counted once per candidate and election, but   *)
(* in elections created again.                                             *)
LEMMA DoubleCountStep == IInv /\ Next => DoubleCountNeedsRecreation'
<1> SUFFICES ASSUME IInv, Next PROVE DoubleCountNeedsRecreation'
  OBVIOUS
<1> USE DEF IInv
<1>1. CASE UNCHANGED <<CandidateVotes, created>>
  BY <1>1 DEF DoubleCountNeedsRecreation
<1>2. CASE \E d \in Descriptions : Stored(d)
  <2>1. PICK d \in Descriptions : Stored(d)
    BY <1>2
  <2> DEFINE e == HashOf(OpenElection(d))
  <2>2. \A h \in Hash : created[h] \in Nat /\ created'[h] >= created[h]
    BY <2>1 DEF Stored, TypeOK
  <2>3. \A c \in Hash : CandidateVotes[c] # None =>
          \A i \in DOMAIN CandidateVotes[c] : CandidateVotes[c][i].election_id \in Hash
    <3> SUFFICES ASSUME NEW c \in Hash, CandidateVotes[c] # None,
                        NEW i \in DOMAIN CandidateVotes[c]
                 PROVE  CandidateVotes[c][i].election_id \in Hash
      OBVIOUS
    <3>1. CandidateVotes[c] \in Seq(Vote)
      BY DEF TypeOK
    <3>2. CandidateVotes[c][i] \in Vote
      BY <3>1
    <3> QED
      BY <3>2 DEF Vote
  <2>4. \A c \in Hash : CandidateVotes[c] # None =>
          \A i \in DOMAIN CandidateVotes[c] :
            created[CandidateVotes[c][i].election_id] > 1 =>
              created'[CandidateVotes[c][i].election_id] > 1
    <3> SUFFICES ASSUME NEW h \in Hash, created[h] > 1 PROVE created'[h] > 1
      BY <2>3
    <3> QED
      BY <2>2, <2>1 DEF Stored, TypeOK
  <2> QED
    BY <2>1, <2>4 DEF Stored, DoubleCountNeedsRecreation
<1>3. CASE \E k \in Candidate : Registered(k)
  <2>1. PICK k \in Candidate : Registered(k)
    BY <1>3
  <2>2. HashOf(k) \in Hash
    BY DEF Hash, CandidateIds
  <2> QED
    BY <2>1, <2>2 DEF Registered, DoubleCountNeedsRecreation, TypeOK
<1>4. CASE \E v \in Vote : Spent(v) \/ Counted(v)
  <2>1. PICK v \in Vote : Spent(v) \/ Counted(v)
    BY <1>4
  <2>2. CASE Spent(v)
    BY <2>2, <1>1 DEF Spent
  <2>3. CASE Counted(v)
    <3> DEFINE c == v.candidate_id
               old == CandidateVotes[c]
               new == Append(old, v)
    <3>1. v.election_id \in Hash /\ c \in Hash
      BY DEF Vote
    <3>2. old \in Seq(Vote) /\ old # None
      BY <2>3, <3>1 DEF Counted, TypeOK
    <3>3. /\ CandidateVotes' = [CandidateVotes EXCEPT ![c] = new]
          /\ created' = created
      BY <2>3 DEF Counted
    <3>4. \A h \in Hash : CandidateVotes'[h] = IF h = c THEN new ELSE CandidateVotes[h]
      BY <3>1, <3>3 DEF TypeOK
    <3>5. \A i \in DOMAIN old :
             old[i].author = v.author /\ old[i].election_id = v.election_id =>
               created[v.election_id] > 1
      <4> SUFFICES ASSUME NEW i \in DOMAIN old, old[i].author = v.author,
                          old[i].election_id = v.election_id,
                          created[v.election_id] <= 1
                   PROVE  FALSE
        BY <3>1 DEF TypeOK
      <4>1. old[i] \in Range(CandidateVotes[v.candidate_id])
        BY DEF Range
      <4> QED
        BY <4>1, <2>3, FirstCount
    <3>6. \A i, j \in DOMAIN old :
             i # j /\ old[i].author = old[j].author
               /\ old[i].election_id = old[j].election_id =>
                 created[old[i].election_id] > 1
      BY <3>1, <3>2 DEF DoubleCountNeedsRecreation
    <3>7. \A i, j \in DOMAIN new :
             i # j /\ new[i].author = new[j].author
               /\ new[i].election_id = new[j].election_id =>
                 created[new[i].election_id] > 1
      <4>1. /\ DOMAIN new = (DOMAIN old) \cup {Len(old) + 1}
            /\ \A i \in DOMAIN old : new[i] = old[i]
            /\ new[Len(old) + 1] = v
        BY <3>2
      <4> QED
        BY <4>1, <3>5, <3>6
    <3> QED
      BY <3>3, <3>4, <3>7 DEF DoubleCountNeedsRecreation
  <2> QED
    BY <2>1, <2>2, <2>3
<1> QED
  BY <1>1, <1>2, <1>3, <1>4, NextSteps DEF Refused, Closed, storage

-----------------------------------------------------------------------------
(* IInv is inductive. *)
LEMMA StepIInv == IInv /\ [Next]_vars => IInv'
<1> SUFFICES ASSUME IInv, [Next]_vars PROVE IInv'
  OBVIOUS
<1>1. CASE Next
  BY <1>1, TypeStep, StorageMapsStep, CreationsStep, OneBallotStep, BallotsStep,
     DoubleCountStep DEF IInv
<1>2. CASE UNCHANGED vars
  BY <1>2 DEF vars, storage, IInv, TypeOK, StorageMapsAgree, CreationsCounted,
              OneBallotPerAuthor, BallotsAccounted, DoubleCountNeedsRecreation
<1> QED
  BY <1>1, <1>2

(* The inductive invariant holds for any accounts, elections and candidates and any order of calls. *)
THEOREM Invariance == Spec => []IInv
<1> QED
  BY InitIInv, StepIInv, PTL DEF Spec

(* The storage maps of the pallet stay typed under every call sequence.    *)
THEOREM TypeCorrect == Spec => []TypeOK
<1>1. IInv => TypeOK
  BY DEF IInv
<1> QED
  BY <1>1, Invariance, PTL

(* The lookups of create_candidate and create_vote that follow one another *)
(* always agree about which elections and candidates exist.                *)
THEOREM MapsAgree == Spec => []StorageMapsAgree
<1>1. IInv => StorageMapsAgree
  BY DEF IInv
<1> QED
  BY <1>1, Invariance, PTL

(* create_vote never lists two ballots of one author in an election.       *)
THEOREM OneBallot == Spec => []OneBallotPerAuthor
<1>1. IInv => OneBallotPerAuthor
  BY DEF IInv
<1> QED
  BY <1>1, Invariance, PTL

(* Candidates are credited with accepted votes only, and accepted votes    *)
(* stay on the list of an election created once.                           *)
THEOREM BallotsAreAccounted == Spec => []BallotsAccounted
<1>1. IInv => BallotsAccounted
  BY DEF IInv
<1> QED
  BY <1>1, Invariance, PTL

(* No candidate counts an author twice for an election created once.       *)
THEOREM NoDoubleCount == Spec => []DoubleCountNeedsRecreation
<1>1. IInv => DoubleCountNeedsRecreation
  BY DEF IInv
<1> QED
  BY <1>1, Invariance, PTL

(* The ballots of a list, one by one, are of the election that has it.     *)
LEMMA BallotsOfElection ==
    ASSUME IInv, NEW e \in Hash, ElectionVotes[e] # None, NEW i \in DOMAIN ElectionVotes[e]
    PROVE  ElectionVotes[e][i].election_id = e
BY DEF IInv, BallotsAccounted, Range

-----------------------------------------------------------------------------
(* A list of votes that is left alone, or appended to, keeps all it had.   *)
LEMMA AppendingKeeps ==
    ASSUME NEW old \in Seq(Vote) \cup {None}, NEW v \in Vote
    PROVE  /\ OnlyAppends(old, old)
           /\ old # None => OnlyAppends(old, Append(old, v))
<1>1. CASE old = None
  BY <1>1 DEF OnlyAppends
<1>2. CASE old \in Seq(Vote)
  <2>1. /\ Append(old, v) \in Seq(Vote) /\ Len(Append(old, v)) = Len(old) + 1
        /\ \A i \in DOMAIN old : Append(old, v)[i] = old[i]
        /\ Len(old) \in Nat
    BY <1>2
  <2>2. Append(old, v) # None
    BY <2>1, DistinctAssumption
  <2> QED
    BY <1>2, <2>1, <2>2 DEF OnlyAppends
<1> QED
  BY <1>1, <1>2

(* A call that shortens or alters the ballots of an election creates that  *)
(* election again.                                                         *)
LEMMA BallotsDiscarded ==
    ASSUME IInv, Next, NEW e \in Hash, ~OnlyAppends(ElectionVotes[e], ElectionVotes'[e])
    PROVE  \E d \in Descriptions : e = HashOf(OpenElection(d)) /\ CreateElection(Root, d)
<1> USE DEF Reject, storage
<1>0. ElectionVotes \in [Hash -> Seq(Vote) \cup {None}]
  BY DEF IInv, TypeOK
<1>1. SUFFICES ASSUME ElectionVotes' = ElectionVotes PROVE FALSE
  <2>1. PICK origin \in Accounts \cup {Root} :
          \/ \E d \in Descriptions : CreateElection(origin, d)
          \/ \E f \in Hash : CloseElection(origin, f)
          \/ \E n \in CandidateNames, f \in Hash : CreateCandidate(origin, n, f)
          \/ \E c, f \in Hash : CreateVote(origin, c, f)
    BY DEF Next
  <2>2. ASSUME NEW d \in Descriptions, CreateElection(origin, d), ElectionVotes' # ElectionVotes
        PROVE  e = HashOf(OpenElection(d)) /\ CreateElection(Root, d)
    <3>1. origin = Root /\ ElectionVotes' = [ElectionVotes EXCEPT ![HashOf(OpenElection(d))] = <<>>]
      BY <2>2 DEF CreateElection, NoBallots
    <3>2. CASE e # HashOf(OpenElection(d))
      <4>1. ElectionVotes'[e] = ElectionVotes[e]
        BY <1>0, <3>1, <3>2
      <4>2. ElectionVotes[e] = None
        BY <4>1, <1>0 DEF OnlyAppends
      <4> QED
        BY <4>1, <4>2 DEF OnlyAppends
    <3> QED
      BY <2>2, <3>1, <3>2
  <2>3. ASSUME NEW f \in Hash, CloseElection(origin, f) PROVE ElectionVotes' = ElectionVotes
    BY <2>3 DEF CloseElection
  <2>4. ASSUME NEW n \in CandidateNames, NEW f \in Hash, CreateCandidate(origin, n, f)
        PROVE  ElectionVotes' = ElectionVotes
    BY <2>4 DEF CreateCandidate
  <2>5. ASSUME NEW c \in Hash, NEW f \in Hash, CreateVote(origin, c, f)
        PROVE  ElectionVotes' = ElectionVotes
    <3> DEFINE v == Ballot(origin, c, f)
    <3>1. CASE EnsureSigned(origin) /\ ElectionVotes' # ElectionVotes
      <4>1. v \in Vote
        BY <3>1 DEF EnsureSigned, Ballot, Vote
      <4>2. /\ ElectionVotes[f] # None
            /\ ElectionVotes' = [ElectionVotes EXCEPT ![f] = Append(@, v)]
        BY <2>5, <3>1 DEF CreateVote, CanCast
      <4>3. ElectionVotes'[e] \in {ElectionVotes[e], Append(ElectionVotes[e], v)}
            /\ (ElectionVotes[e] = None => ElectionVotes'[e] = ElectionVotes[e])
        BY <1>0, <4>2
      <4> QED
        BY <1>0, <4>1, <4>3, AppendingKeeps
    <3>2. CASE ~EnsureSigned(origin)
      BY <2>5, <3>2 DEF CreateVote
    <3> QED
      BY <3>1, <3>2
  <2> QED
    BY <2>1, <2>2, <2>3, <2>4, <2>5
<1> QED
  <2>1. ElectionVotes[e] \in Seq(Vote) \cup {None} /\ ElectionVotes[e] # None
    BY <1>0 DEF OnlyAppends
  <2> QED
    BY <1>1, <2>1 DEF OnlyAppends

(* A call that shortens or alters the votes of a candidate registers that  *)
(* candidate again.                                                        *)
LEMMA VotesDiscarded ==
    ASSUME IInv, Next, NEW c \in Hash, ~OnlyAppends(CandidateVotes[c], CandidateVotes'[c])
    PROVE  \E n \in CandidateNames, e \in ElectionIds :
              /\ c = HashOf([candidate_name |-> n, election_id |-> e])
              /\ CreateCandidate(Root, n, e)
<1> USE DEF Reject, storage
<1>0. CandidateVotes \in [Hash -> Seq(Vote) \cup {None}]
  BY DEF IInv, TypeOK
<1>1. SUFFICES ASSUME CandidateVotes' = CandidateVotes PROVE FALSE
  <2>1. PICK origin \in Accounts \cup {Root} :
          \/ \E d \in Descriptions : CreateElection(origin, d)
          \/ \E f \in Hash : CloseElection(origin, f)
          \/ \E n \in CandidateNames, f \in Hash : CreateCandidate(origin, n, f)
          \/ \E k, f \in Hash : CreateVote(origin, k, f)
    BY DEF Next
  <2>2. ASSUME NEW d \in Descriptions, CreateElection(origin, d)
        PROVE  CandidateVotes' = CandidateVotes
    BY <2>2 DEF CreateElection
  <2>3. ASSUME NEW f \in Hash, CloseElection(origin, f) PROVE CandidateVotes' = CandidateVotes
    BY <2>3 DEF CloseElection
  <2>4. ASSUME NEW n \in CandidateNames, NEW f \in Hash, CreateCandidate(origin, n, f),
               CandidateVotes' # CandidateVotes
        PROVE  /\ f \in ElectionIds
               /\ c = HashOf([candidate_name |-> n, election_id |-> f])
               /\ CreateCandidate(Root, n, f)
    <3> DEFINE k == HashOf([candidate_name |-> n, election_id |-> f])
    <3>1. /\ origin = Root /\ ElectionCandidates[f] # None
          /\ CandidateVotes' = [CandidateVotes EXCEPT ![k] = <<>>]
      BY <2>4 DEF CreateCandidate, NoVotes
    <3>2. f \in ElectionIds
      BY <3>1, ListedIsElection DEF IInv
    <3>3. CASE c # k
      <4>1. CandidateVotes'[c] = CandidateVotes[c]
        BY <1>0, <3>1, <3>3
      <4> QED
        BY <4>1, <1>0 DEF OnlyAppends
    <3> QED
      BY <2>4, <3>1, <3>2, <3>3
  <2>5. ASSUME NEW k \in Hash, NEW f \in Hash, CreateVote(origin, k, f)
        PROVE  CandidateVotes' = CandidateVotes
    <3> DEFINE v == Ballot(origin, k, f)
    <3>1. CASE EnsureSigned(origin) /\ CandidateVotes' # CandidateVotes
      <4>1. v \in Vote
        BY <3>1 DEF EnsureSigned, Ballot, Vote
      <4>2. /\ CandidateVotes[k] # None
            /\ CandidateVotes' = [CandidateVotes EXCEPT ![k] = Append(@, v)]
        BY <2>5, <3>1 DEF CreateVote
      <4>3. CandidateVotes'[c] \in {CandidateVotes[c], Append(CandidateVotes[c], v)}
            /\ (CandidateVotes[c] = None => CandidateVotes'[c] = CandidateVotes[c])
        BY <1>0, <4>2
      <4> QED
        BY <1>0, <4>1, <4>3, AppendingKeeps
    <3>2. CASE ~EnsureSigned(origin)
      BY <2>5, <3>2 DEF CreateVote
    <3> QED
      BY <3>1, <3>2
  <2> QED
    BY <2>1, <2>2, <2>3, <2>4, <2>5
<1> QED
  <2>1. CandidateVotes[c] \in Seq(Vote) \cup {None} /\ CandidateVotes[c] # None
    BY <1>0 DEF OnlyAppends
  <2> QED
    BY <1>1, <2>1 DEF OnlyAppends

(* No extrinsic of a voter, accepted or failed, takes a ballot or a counted *)
(* vote from the chain (create_vote of lib.rs only pushes; it is Root that  *)
(* writes empty lists in create_election and create_candidate).             *)
THEOREM VotersDiscardNothing == Spec => OnlyRootDiscardsVotes
<1> DEFINE Discards ==
        /\ \A e \in Hash : ~OnlyAppends(ElectionVotes[e], ElectionVotes'[e]) =>
            \E d \in Descriptions :
                e = HashOf(OpenElection(d)) /\ CreateElection(Root, d)
        /\ \A c \in Hash : ~OnlyAppends(CandidateVotes[c], CandidateVotes'[c]) =>
            \E n \in CandidateNames, e \in ElectionIds :
                /\ c = HashOf([candidate_name |-> n, election_id |-> e])
                /\ CreateCandidate(Root, n, e)
<1>1. IInv /\ [Next]_vars => [Discards]_vars
  BY BallotsDiscarded, VotesDiscarded
<1> QED
  BY <1>1, Invariance, PTL DEF Spec, OnlyRootDiscardsVotes

-----------------------------------------------------------------------------
(***************************************************************************)
(* The pallet implements the abstract ballot box, for any constants: its   *)
(* initial storage is an absent box for each hash, and every step of it    *)
(* opens, closes or fills one box, or leaves all of them as they are.      *)
(***************************************************************************)
(* Empty storage is the empty ballot box. *)
LEMMA InitRefines == Init => Box!BoxInit
  BY DEF Init, Box!BoxInit, BoxPhase, BoxBallots

(* What the abstract variables are after a step, box by box.               *)
LEMMA SameBoxes ==
    ASSUME \A h \in Hash : BoxPhase(h)' = BoxPhase(h) /\ BoxBallots(h)' = BoxBallots(h)
    PROVE  UNCHANGED Box!boxVars
<1>1. [h \in Hash |-> BoxPhase(h)]' = [h \in Hash |-> BoxPhase(h)]
  OBVIOUS
<1>2. [h \in Hash |-> BoxBallots(h)]' = [h \in Hash |-> BoxBallots(h)]
  OBVIOUS
<1> QED
  BY <1>1, <1>2 DEF Box!boxVars

(* create_election opens its box and empties it. *)
LEMMA StoredRefines ==
    ASSUME IInv, NEW d \in Descriptions, Stored(d)
    PROVE  Box!BoxNext
<1> DEFINE e == HashOf(OpenElection(d))
<1>1. e \in Hash /\ OpenElection(d) # None /\ OpenElection(d).is_open
  <2>1. OpenElection(d) \in Election /\ OpenElection(d).is_open
    BY DEF OpenElection, Election
  <2> QED
    BY <2>1, DistinctAssumption DEF Hash, ElectionIds
<1>2. \A h \in Hash :
        /\ Elections'[h] = IF h = e THEN OpenElection(d) ELSE Elections[h]
        /\ ElectionVotes'[h] = IF h = e THEN <<>> ELSE ElectionVotes[h]
  BY <1>1 DEF Stored, IInv, TypeOK
<1>3. \A h \in Hash : BoxPhase(h)' = IF h = e THEN "open" ELSE BoxPhase(h)
  BY <1>1, <1>2 DEF BoxPhase
<1>4. \A h \in Hash : BoxBallots(h)' = IF h = e THEN {} ELSE BoxBallots(h)
  <2>1. Range(<<>>) = {}
    BY DEF Range
  <2>2. BoxBallots(e)' = {}
    BY <1>1, <1>2, <2>1 DEF BoxBallots
  <2> QED
    BY <1>2, <2>2 DEF BoxBallots
<1>5. Box!OpenBox(e)
  BY <1>1, <1>3, <1>4 DEF Box!OpenBox
<1> QED
  BY <1>1, <1>5 DEF Box!BoxNext

(* close_election seals an open box. *)
LEMMA ClosedRefines ==
    ASSUME IInv, NEW e \in Hash, Closed(e)
    PROVE  Box!BoxNext
<1> DEFINE sealed == [Elections[e] EXCEPT !.is_open = FALSE]
<1>1. /\ Elections[e] # None /\ Elections[e].is_open
      /\ sealed # None /\ ~sealed.is_open
  <2>1. Elections[e] \in Election /\ Elections[e] # None /\ Elections[e].is_open
    BY DEF Closed, IsOpen, IInv, TypeOK
  <2>2. sealed \in Election /\ ~sealed.is_open
    BY <2>1 DEF Election
  <2> QED
    BY <2>1, <2>2, DistinctAssumption
<1>2. \A h \in Hash : Elections'[h] = IF h = e THEN sealed ELSE Elections[h]
  BY DEF Closed, IInv, TypeOK
<1>3. BoxPhase(e) = "open"
  BY <1>1 DEF BoxPhase
<1>4. \A h \in Hash : BoxPhase(h)' = IF h = e THEN "closed" ELSE BoxPhase(h)
  BY <1>1, <1>2 DEF BoxPhase
<1>5. \A h \in Hash : BoxBallots(h)' = BoxBallots(h)
  BY DEF Closed, BoxBallots
<1>6. Box!CloseBox(e)
  BY <1>3, <1>4, <1>5 DEF Box!CloseBox
<1> QED
  BY <1>6 DEF Box!BoxNext

(* create_vote casts a ballot in an open box, counted for a candidate or   *)
(* not; the author has none in the box yet.                                *)
LEMMA VoteRefines ==
    ASSUME IInv, NEW v \in Vote, Spent(v) \/ Counted(v)
    PROVE  Box!BoxNext
<1> DEFINE e == v.election_id
           old == ElectionVotes[e]
<1>1. e \in Hash /\ v.author \in Accounts /\ v.candidate_id \in Hash
  BY DEF Vote
<1>2. /\ old \in Seq(Vote) /\ old # None
      /\ \A w \in Range(old) : w.author # v.author
  BY <1>1 DEF Spent, Counted, CanCast, IInv, TypeOK
<1>3. Append(old, v) # None /\ Range(Append(old, v)) = Range(old) \cup {v}
  <2> HIDE DEF old, e
  <2>1. Append(old, v) \in Seq(Vote) /\ Range(Append(old, v)) = Range(old) \cup {v}
    BY <1>2, RangeAppend
  <2> QED
    BY <2>1, DistinctAssumption
<1>4. \A h \in Hash : ElectionVotes'[h] = IF h = e THEN Append(old, v) ELSE ElectionVotes[h]
  BY <1>1 DEF Spent, Counted, IInv, TypeOK
<1>5. BoxPhase(e) = "open"
  BY DEF Spent, Counted, IsOpen, BoxPhase
<1>6. \A h \in Hash : BoxPhase(h)' = BoxPhase(h)
  BY DEF Spent, Counted, BoxPhase
<1>7. BoxBallots(e) = {<<w.author, w.candidate_id>> : w \in Range(old)}
  BY <1>2 DEF BoxBallots
<1>8. \A h \in Hash : BoxBallots(h)' =
        IF h = e THEN BoxBallots(e) \cup {<<v.author, v.candidate_id>>} ELSE BoxBallots(h)
  <2>1. BoxBallots(e)' = {<<w.author, w.candidate_id>> : w \in Range(old) \cup {v}}
    BY <1>1, <1>3, <1>4 DEF BoxBallots
  <2>2. BoxBallots(e)' = BoxBallots(e) \cup {<<v.author, v.candidate_id>>}
    BY <2>1, <1>7
  <2> QED
    BY <2>2, <1>4 DEF BoxBallots
<1>9. \A pair \in BoxBallots(e) : pair[1] # v.author
  BY <1>2, <1>7
<1>10. Box!Cast(e)
  BY <1>1, <1>5, <1>6, <1>8, <1>9 DEF Box!Cast
<1> QED
  BY <1>1, <1>10 DEF Box!BoxNext

(* Every step of the pallet is a step of the ballot box or leaves it as it *)
(* is: a refused call does, and so does registering a candidate.           *)
LEMMA StepRefines == IInv /\ [Next]_vars => [Box!BoxNext]_(Box!boxVars)
<1> SUFFICES ASSUME IInv, [Next]_vars PROVE Box!BoxNext \/ UNCHANGED Box!boxVars
  OBVIOUS
<1>1. CASE UNCHANGED <<Elections, ElectionVotes>>
  <2>1. \A h \in Hash : BoxPhase(h)' = BoxPhase(h) /\ BoxBallots(h)' = BoxBallots(h)
    BY <1>1 DEF BoxPhase, BoxBallots
  <2> QED
    BY <2>1, SameBoxes
<1>2. CASE Next
  BY <1>1, <1>2, NextSteps, StoredRefines, ClosedRefines, VoteRefines
     DEF Refused, Registered, storage
<1> QED
  BY <1>1, <1>2 DEF vars, storage

(* The dispatchables implement the ballot box: one ballot per voter, none  *)
(* outside an open election, none altered or taken back before the         *)
(* election is created again.                                              *)
THEOREM RefinesBallotBox == Spec => ImplementsBallotBox
<1> QED
  BY InitRefines, Invariance, StepRefines, PTL
     DEF Spec, ImplementsBallotBox, Box!BoxSpec
=============================================================================
