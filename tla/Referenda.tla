------------------------------- MODULE Referenda -------------------------------
(***************************************************************************)
(* The one track of the referenda pallet: only the root origin has a       *)
(* track, which decides one referendum at a time in periods of a few       *)
(* blocks.  A referendum is prepared, waits in the queue until the track   *)
(* is free, is decided while the approval and the turnout it needs fall,   *)
(* and is approved when it has passed for the whole of the period that     *)
(* confirms it.                                                            *)
(*                                                                         *)
(* With an alarm interval of one block the pallet serves in each block     *)
(* what has something to do; here it serves all that is under way.  Votes  *)
(* and deposits come after that.  Shares are parts of a thousand.          *)
(***************************************************************************)
EXTENDS Integers, FiniteSets, FiniteSetsExt

CONSTANTS
    Polls,              \* the referenda
    Electorate,         \* the total issuance, in units of voting balance
    UndecidingTimeout   \* bound: 28 days, shortened to some blocks


VARIABLES
    stage,          \* of each referendum
    clock,          \* for how many blocks it has been in this stage
    confirmAt,      \* the clock at which it is confirmed, or none
    deposited,      \* the referenda whose decision deposit is placed
    tally,          \* the votes
    decidingCount,  \* how much of the track is taken
    freed,          \* what is given back in the next block
    freeing,        \* what is given back in this block
    due             \* the referenda yet to serve in this block

trackVars == <<decidingCount, freed, freeing>>
refVars == <<stage, clock, confirmAt, deposited, tally, trackVars, due>>

-----------------------------------------------------------------------------
(* TracksInfo *)
MaxDeciding == 1
PreparePeriod == 4
DecisionPeriod == 4
ConfirmPeriod == 2
MinEnactmentPeriod == 4

ASSUME ReferendaAssumption ==
    /\ Electorate \in Nat \ {0}
    /\ UndecidingTimeout \in Nat /\ UndecidingTimeout > DecisionPeriod + ConfirmPeriod

Elapsed(blocks) == Min({blocks, DecisionPeriod})

(* Mutant: the approval falls as far as the turnout. *)
LowApproval(blocks) == 1000 - (1000 * Elapsed(blocks)) \div DecisionPeriod

MinApproval(blocks) == 1000 - (500 * Elapsed(blocks)) \div DecisionPeriod
MinTurnout(blocks) == 1000 - (1000 * Elapsed(blocks)) \div DecisionPeriod

(* track_for *)
HasTrack(origin) == origin = "root"

-----------------------------------------------------------------------------
NoTally == [ayes |-> 0, nays |-> 0]
NotConfirming == -1
Ongoing == {"preparing", "queued", "deciding"}

(* The approval of no votes is none. *)
Passing(votes, blocks) ==
    /\ votes.ayes > 0
    /\ 1000 * votes.ayes >= MinApproval(blocks) * (votes.ayes + votes.nays)
    /\ 1000 * (votes.ayes + votes.nays) >= MinTurnout(blocks) * Electorate

RefInit ==
    /\ stage = [r \in Polls |-> "none"] /\ clock = [r \in Polls |-> 0]
    /\ confirmAt = [r \in Polls |-> NotConfirming]
    /\ deposited = {} /\ tally = [r \in Polls |-> NoTally]
    /\ decidingCount = 0 /\ freed = 0 /\ freeing = 0 /\ due = {}

Enter(r, to) ==
    /\ stage' = [stage EXCEPT ![r] = to] /\ clock' = [clock EXCEPT ![r] = 0]

(* ensure_signed extrinsics and those of Root come when the block is open. *)
BlockOpen == due = {} /\ freeing = 0

Submit(r, origin) ==
    /\ BlockOpen /\ stage[r] = "none" /\ HasTrack(origin)
    /\ Enter(r, "preparing")
    /\ UNCHANGED <<confirmAt, deposited, tally, trackVars, due>>

PlaceDecisionDeposit(r) ==
    /\ BlockOpen /\ stage[r] = "preparing" /\ r \notin deposited
    /\ deposited' = deposited \cup {r} /\ due' = {r}
    /\ UNCHANGED <<stage, clock, confirmAt, tally, trackVars>>

Vote(r, votes) ==
    /\ BlockOpen /\ stage[r] \in Ongoing /\ votes # tally[r]
    /\ tally' = [tally EXCEPT ![r] = votes]
    /\ UNCHANGED <<stage, clock, confirmAt, deposited, trackVars, due>>

(* cancel and kill *)
Cancel(r) ==
    /\ BlockOpen /\ stage[r] \in Ongoing
    /\ Enter(r, "cancelled")
    /\ freed' = IF stage[r] = "deciding" THEN freed + 1 ELSE freed
    /\ confirmAt' = [confirmAt EXCEPT ![r] = NotConfirming]
    /\ UNCHANGED <<deposited, tally, decidingCount, freeing, due>>

Tick ==
    /\ BlockOpen /\ Polls # {}
    /\ due' = { r \in Polls : stage[r] \in Ongoing \cup {"approved"} }
    /\ clock' = [r \in Polls |->
                    IF r \in due' /\ clock[r] < UndecidingTimeout THEN clock[r] + 1
                    ELSE clock[r]]
    /\ freeing' = freed /\ freed' = 0
    /\ UNCHANGED <<stage, confirmAt, deposited, tally, decidingCount>>

-----------------------------------------------------------------------------
BeginDeciding(r) ==
    /\ Enter(r, "deciding")
    /\ confirmAt' = [confirmAt EXCEPT ![r] =
                        IF Passing(tally[r], 0) THEN ConfirmPeriod ELSE NotConfirming]

(* one_fewer_deciding: the queue comes first, in the order of the ayes. *)
OneFewerDeciding ==
    /\ freeing > 0 /\ freeing' = freeing - 1
    /\ LET queue == { r \in Polls : stage[r] = "queued" }
       IN  \/ /\ queue = {} /\ decidingCount' = decidingCount - 1
              /\ UNCHANGED <<stage, clock, confirmAt, due>>
           \/ \E r \in queue :
              /\ \A q \in queue : tally[q].ayes <= tally[r].ayes
              /\ BeginDeciding(r)
              /\ due' = due \ {r} /\ UNCHANGED decidingCount
    /\ UNCHANGED <<deposited, tally, freed>>

Serve(r) == r \in due /\ due' = due \ {r} /\ UNCHANGED <<deposited, tally, freeing>>

ReadyForDeciding(r) ==
    /\ Serve(r) /\ stage[r] = "preparing"
    /\ r \in deposited /\ clock[r] >= PreparePeriod
    /\ IF decidingCount < MaxDeciding
         THEN BeginDeciding(r) /\ decidingCount' = decidingCount + 1
         ELSE Enter(r, "queued") /\ UNCHANGED <<confirmAt, decidingCount>>
    /\ UNCHANGED freed

TimeOut(r) ==
    /\ Serve(r) /\ stage[r] = "preparing"
    /\ r \notin deposited /\ clock[r] >= UndecidingTimeout
    /\ Enter(r, "timed_out")
    /\ UNCHANGED <<confirmAt, decidingCount, freed>>

BeginConfirming(r) ==
    /\ Serve(r) /\ stage[r] = "deciding"
    /\ Passing(tally[r], clock[r]) /\ confirmAt[r] = NotConfirming
    /\ confirmAt' = [confirmAt EXCEPT ![r] = clock[r] + ConfirmPeriod]
    /\ UNCHANGED <<stage, clock, decidingCount, freed>>

Confirm(r) ==
    /\ Serve(r) /\ stage[r] = "deciding"
    /\ Passing(tally[r], clock[r])
    /\ confirmAt[r] # NotConfirming /\ clock[r] >= confirmAt[r]
    /\ Enter(r, "approved") /\ freed' = freed + 1
    /\ confirmAt' = [confirmAt EXCEPT ![r] = NotConfirming]
    /\ UNCHANGED decidingCount

Reject(r) ==
    /\ Serve(r) /\ stage[r] = "deciding"
    /\ ~Passing(tally[r], clock[r]) /\ clock[r] >= DecisionPeriod
    /\ Enter(r, "rejected") /\ freed' = freed + 1
    /\ confirmAt' = [confirmAt EXCEPT ![r] = NotConfirming]
    /\ UNCHANGED decidingCount

EndConfirming(r) ==
    /\ Serve(r) /\ stage[r] = "deciding"
    /\ ~Passing(tally[r], clock[r]) /\ clock[r] < DecisionPeriod
    /\ confirmAt' = [confirmAt EXCEPT ![r] = NotConfirming]
    /\ UNCHANGED <<stage, clock, decidingCount, freed>>

(* schedule_enactment *)
Enact(r) ==
    /\ Serve(r) /\ stage[r] = "approved" /\ clock[r] >= MinEnactmentPeriod
    /\ Enter(r, "enacted")
    /\ UNCHANGED <<confirmAt, decidingCount, freed>>

Wait(r) ==
    /\ Serve(r)
    /\ \/ /\ stage[r] = "preparing"
          /\ IF r \in deposited THEN clock[r] < PreparePeriod
             ELSE clock[r] < UndecidingTimeout
       \/ stage[r] = "queued"
       \/ /\ stage[r] = "deciding" /\ Passing(tally[r], clock[r])
          /\ confirmAt[r] # NotConfirming /\ clock[r] < confirmAt[r]
       \/ stage[r] = "approved" /\ clock[r] < MinEnactmentPeriod
    /\ UNCHANGED <<stage, clock, confirmAt, decidingCount, freed>>

RefNext ==
    \/ Tick \/ OneFewerDeciding
    \/ \E r \in Polls :
        \/ \E origin \in {"root", "signed"} : Submit(r, origin)
        \/ PlaceDecisionDeposit(r) \/ Cancel(r)
        \/ \E a, n \in 0 .. Electorate :
            a + n <= Electorate /\ Vote(r, [ayes |-> a, nays |-> n])
        \/ ReadyForDeciding(r) \/ TimeOut(r) \/ BeginConfirming(r) \/ Confirm(r)
        \/ Reject(r) \/ EndConfirming(r) \/ Enact(r) \/ Wait(r)

RefSpec == RefInit /\ [][RefNext]_refVars

-----------------------------------------------------------------------------
RefTypeOK ==
    /\ \A r \in Polls :
        /\ stage[r] \in Ongoing \cup {"none", "approved", "rejected", "timed_out",
                                      "cancelled", "enacted"}
        /\ clock[r] \in 0 .. UndecidingTimeout
        /\ confirmAt[r] \in {NotConfirming} \cup 0 .. DecisionPeriod + ConfirmPeriod
        /\ tally[r].ayes + tally[r].nays \in 0 .. Electorate
    /\ deposited \cup due \subseteq Polls
    /\ decidingCount \in 0 .. MaxDeciding

(* Nothing that more vote against than for is approved or enacted; the track *)
(* is never given away twice, and when a block opens none waits for a track  *)
(* that is free; and nothing keeps the track for longer than it may take to  *)
(* decide and to confirm.                                                    *)
TrackDecides ==
    /\ \A r \in Polls :
        /\ stage[r] \in {"approved", "enacted"} => tally[r].ayes >= tally[r].nays
        /\ stage[r] = "deciding" => clock[r] <= DecisionPeriod + ConfirmPeriod
        /\ stage[r] = "queued" => decidingCount = MaxDeciding
    /\ Cardinality({ r \in Polls : stage[r] = "deciding" }) + freed + freeing = decidingCount
=============================================================================
