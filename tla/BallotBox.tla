------------------------------ MODULE BallotBox ------------------------------
(***************************************************************************)
(* What the votechain pallet promises, with none of its storage: a ballot  *)
(* box per election.  A box is opened by the administrator, takes at most  *)
(* one ballot of each voter while it is open, never gives a ballot back,   *)
(* and is sealed once it is closed.  Opening a box again empties it.       *)
(***************************************************************************)
CONSTANTS
    Boxes,      \* the elections there can be
    Voters,     \* who may cast a ballot
    Choices     \* what may be written on one

VARIABLES
    phase,      \* of each box: "absent", "open" or "closed"
    ballots     \* of each box: the pairs <<voter, choice>> cast in it

boxVars == <<phase, ballots>>

BoxInit ==
    /\ phase = [b \in Boxes |-> "absent"]
    /\ ballots = [b \in Boxes |-> {}]

OpenBox(b) ==
    /\ phase' = [phase EXCEPT ![b] = "open"]
    /\ ballots' = [ballots EXCEPT ![b] = {}]

CloseBox(b) ==
    /\ phase[b] = "open"
    /\ phase' = [phase EXCEPT ![b] = "closed"]
    /\ UNCHANGED ballots

Cast(b) ==
    /\ phase[b] = "open"
    /\ \E voter \in Voters :
        /\ \A pair \in ballots[b] : pair[1] # voter
        /\ \E choice \in Choices :
            ballots' = [ballots EXCEPT ![b] = @ \cup {<<voter, choice>>}]
    /\ UNCHANGED phase

BoxNext == \E b \in Boxes : OpenBox(b) \/ CloseBox(b) \/ Cast(b)

BoxSpec == BoxInit /\ [][BoxNext]_boxVars

=============================================================================
