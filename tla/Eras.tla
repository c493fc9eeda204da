--------------------------------- MODULE Eras ---------------------------------
(***************************************************************************)
(* How the runtime is wired to change its validators: BABE counts slots    *)
(* and ends the epoch, the session pallet rotates with it, staking plans   *)
(* an era every so many sessions and takes its validators from the         *)
(* multi-phase election, and an offence is slashed out of stake that may   *)
(* be leaving.                                                             *)
(*                                                                         *)
(* A set of validators is the era it was elected for.  Epochs are counted  *)
(* in slots, the phases of an election in blocks; some slots stay empty.   *)
(* The pallets act in a block in the order of construct_runtime: BABE,     *)
(* the election, staking, the session.  There is one offender.             *)
(***************************************************************************)
EXTENDS Integers

CONSTANTS
    EpochDuration,      \* EPOCH_DURATION_IN_SLOTS, and in blocks
    SessionsPerEra,
    BondingDuration,    \* in eras
    MaxSkip,            \* bound: how many slots in a row stay empty
    MaxEra              \* bound: the last era that is planned

ASSUME EraAssumption ==
    /\ EpochDuration \in Nat /\ EpochDuration >= 4
    /\ SessionsPerEra \in Nat \ {0} /\ BondingDuration \in Nat
    /\ MaxSkip \in Nat /\ MaxSkip < EpochDuration \div 4 /\ MaxEra \in Nat

VARIABLES
    slot,           \* of the last block, counted from the start of its epoch
    session,        \* its session, counted from the first of the planned era up to
                    \* the length of an era
    activeEra, plannedEra,
    startsIn,       \* the sessions until the planned era is active
    validators,     \* the set that is active, and the one that is queued
    queuedKeys,
    phase,          \* of the election: "off", "signed", "unsigned", "emergency"
    phases,         \* history: the phases that this election has had
    signed,         \* is there a signed solution
    queued,         \* is there a solution to elect
    bond,           \* of the offender: "bonded", "unlocking", "withdrawn", "slashed"
    unlockEra,
    offence         \* the era it offended in, when it was reported, what came of it

clockVars == <<slot, session, activeEra, plannedEra, startsIn>>
setVars == <<validators, queuedKeys>>
electionVars == <<phase, phases, signed, queued>>
stakeVars == <<bond, unlockEra, offence>>
eraVars == <<clockVars, setVars, electionVars, stakeVars>>

-----------------------------------------------------------------------------
(* Mutant: a sixteenth of an epoch. *)
ShortPhase == EpochDuration \div 16

SignedPhase == EpochDuration \div 4
UnsignedPhase == EpochDuration \div 4

(* Mutant: deferred for as long as stake is bonded. *)
LongDefer == BondingDuration

SlashDeferDuration == BondingDuration \div 4

NextSession == IF session < SessionsPerEra THEN session + 1 ELSE session

NoOffence == [at |-> -1, reported |-> -1, state |-> "none"]

EraInit ==
    /\ slot = 0 /\ session = 0
    /\ activeEra = 0 /\ plannedEra = 0 /\ startsIn = 0
    /\ validators = 0 /\ queuedKeys = 0
    /\ phase = "off" /\ phases = {} /\ signed = FALSE /\ queued = FALSE
    /\ bond = "bonded" /\ unlockEra = 0
    /\ offence = NoOffence

-----------------------------------------------------------------------------
(* next_election_prediction at a slot of the epoch: the end of the epoch,    *)
(* and the sessions before the one whose end plans the next era.             *)
Remaining(at) ==
    LET progress == session + 1
        sessionsLeft == IF progress + 1 >= SessionsPerEra THEN 0
                        ELSE SessionsPerEra - progress - 1
        toEnd == IF at >= EpochDuration THEN 0 ELSE EpochDuration - at
    IN  toEnd + sessionsLeft * EpochDuration

(* on_initialize of the multi-phase election. *)
OpensSigned(at) ==
    /\ phase = "off"
    /\ Remaining(at) \in UnsignedPhase + 1 .. SignedPhase + UnsignedPhase
OpensUnsigned(at) ==
    /\ phase \in {"off", "signed"}
    /\ Remaining(at) \in 1 .. UnsignedPhase

(* Offences that were reported long enough ago are slashed as an era starts, *)
(* from what is still bonded or unlocking.                                   *)
Due(era) == offence.state = "deferred" /\ era > offence.reported + SlashDeferDuration
Slashed(era) ==
    IF ~Due(era) THEN UNCHANGED <<bond, offence>>
    ELSE IF bond = "withdrawn"
         THEN bond' = bond /\ offence' = [offence EXCEPT !.state = "escaped"]
         ELSE bond' = "slashed" /\ offence' = [offence EXCEPT !.state = "applied"]

(* A block that neither opens a phase nor ends the session. *)
BlockAt(at) ==
    /\ at < EpochDuration /\ ~OpensSigned(at) /\ ~OpensUnsigned(at)
    /\ slot' = at
    /\ UNCHANGED <<session, activeEra, plannedEra, startsIn, setVars, electionVars, stakeVars>>

StartSigned(at) ==
    /\ OpensSigned(at)
    /\ slot' = at
    /\ phase' = "signed" /\ phases' = phases \cup {"signed"}
    /\ UNCHANGED <<session, activeEra, plannedEra, startsIn, setVars, signed, queued, stakeVars>>

(* The best signed solution is queued. *)
StartUnsigned(at) ==
    /\ OpensUnsigned(at)
    /\ slot' = at
    /\ phase' = "unsigned" /\ phases' = phases \cup {"unsigned"}
    /\ queued' = signed /\ signed' = FALSE
    /\ UNCHANGED <<session, activeEra, plannedEra, startsIn, setVars, stakeVars>>

(* The first block of the next epoch rotates the session: the queued keys    *)
(* become active, and if it is time the planned era starts.                  *)
Rotate(at) ==
    /\ at >= EpochDuration /\ slot' = at - EpochDuration
    /\ validators' = queuedKeys
    /\ IF startsIn = 1
         THEN activeEra' = plannedEra /\ Slashed(plannedEra)
         ELSE UNCHANGED <<activeEra, bond, offence>>
    /\ UNCHANGED unlockEra

(* The session after the next belongs to the planned era still. *)
RotateSession(at) ==
    /\ session + 2 < SessionsPerEra
    /\ Rotate(at)
    /\ session' = NextSession
    /\ startsIn' = IF startsIn > 0 THEN startsIn - 1 ELSE 0
    /\ UNCHANGED <<plannedEra, queuedKeys, electionVars>>

(* It needs an election: the queued solution is taken, and queued behind the *)
(* keys that become active now.                                              *)
PlanEra(at) ==
    /\ session + 2 >= SessionsPerEra /\ queued /\ plannedEra < MaxEra
    /\ Rotate(at)
    /\ plannedEra' = plannedEra + 1 /\ queuedKeys' = plannedEra + 1
    /\ session' = -1 /\ startsIn' = 1
    /\ phase' = "off" /\ phases' = {} /\ queued' = FALSE /\ signed' = FALSE

(* There is none, and no fallback: the era goes on.  The election is tried   *)
(* again at the end of each session.                                         *)
ElectionFails(at) ==
    /\ session + 2 >= SessionsPerEra /\ ~queued
    /\ Rotate(at)
    /\ phase' = "emergency"
    /\ session' = NextSession
    /\ startsIn' = IF startsIn > 0 THEN startsIn - 1 ELSE 0
    /\ UNCHANGED <<plannedEra, queuedKeys, phases, signed, queued>>

-----------------------------------------------------------------------------
SubmitSigned ==
    /\ phase = "signed" /\ ~signed /\ signed' = TRUE
    /\ UNCHANGED <<clockVars, setVars, phase, phases, queued, stakeVars>>

(* Mined by the offchain worker of a validator. *)
SubmitUnsigned ==
    /\ phase = "unsigned" /\ ~queued /\ queued' = TRUE
    /\ UNCHANGED <<clockVars, setVars, phase, phases, signed, stakeVars>>

(* Root or more than half of the council. *)
SetEmergencyResult ==
    /\ phase = "emergency" /\ ~queued /\ queued' = TRUE
    /\ UNCHANGED <<clockVars, setVars, phase, phases, signed, stakeVars>>

(* It offends in the era that is active, and may unbond from then on. *)
Offend ==
    /\ offence.state = "none" /\ bond = "bonded"
    /\ offence' = [at |-> activeEra, reported |-> -1, state |-> "committed"]
    /\ UNCHANGED <<clockVars, setVars, electionVars, bond, unlockEra>>

Unbond ==
    /\ bond = "bonded" /\ offence.state # "none"
    /\ bond' = "unlocking" /\ unlockEra' = plannedEra + BondingDuration
    /\ UNCHANGED <<clockVars, setVars, electionVars, offence>>

WithdrawUnbonded ==
    /\ bond = "unlocking" /\ plannedEra >= unlockEra
    /\ bond' = "withdrawn"
    /\ UNCHANGED <<clockVars, setVars, electionVars, unlockEra, offence>>

(* Staking knows the eras of one bonding duration. *)
Report ==
    /\ offence.state = "committed" /\ activeEra <= offence.at + BondingDuration
    /\ offence' = [offence EXCEPT !.reported = activeEra, !.state = "deferred"]
    /\ UNCHANGED <<clockVars, setVars, electionVars, bond, unlockEra>>

CancelSlash ==
    /\ offence.state = "deferred"
    /\ offence' = [offence EXCEPT !.state = "cancelled"]
    /\ UNCHANGED <<clockVars, setVars, electionVars, bond, unlockEra>>

EraNext ==
    \/ \E skip \in 0 .. MaxSkip :
        LET at == slot + 1 + skip
        IN  BlockAt(at) \/ StartSigned(at) \/ StartUnsigned(at)
            \/ RotateSession(at) \/ PlanEra(at) \/ ElectionFails(at)
    \/ SubmitSigned \/ SubmitUnsigned \/ SetEmergencyResult
    \/ Offend \/ Unbond \/ WithdrawUnbonded \/ Report \/ CancelSlash

EraSpec == EraInit /\ [][EraNext]_eraVars

-----------------------------------------------------------------------------
EraTypeOK ==
    /\ slot \in 0 .. EpochDuration - 1 /\ session \in -1 .. SessionsPerEra
    /\ startsIn \in 0 .. 1
    /\ phase \in {"off", "signed", "unsigned", "emergency"}
    /\ phases \subseteq {"signed", "unsigned"} /\ {signed, queued} \subseteq BOOLEAN
    /\ bond \in {"bonded", "unlocking", "withdrawn", "slashed"}
    /\ offence.state \in {"none", "committed", "deferred", "cancelled", "applied", "escaped"}

(* The validators of a session are those that were elected for the active    *)
(* era, and the keys behind them those of the planned one, that is at most   *)
(* one ahead.  And while fewer slots in a row than a phase has blocks stay   *)
(* empty, no election fails without both phases having been open for it.     *)
ErasSound ==
    /\ validators = activeEra /\ queuedKeys = plannedEra
    /\ plannedEra - activeEra \in 0 .. 1
    /\ phase = "emergency" => phases = {"signed", "unsigned"}

(* An offence that is reported in the first three quarters of the bonding    *)
(* duration, less the era under way and the one that is planned ahead, does  *)
(* not escape its slash, whenever the stake is unbonded.                     *)
ReportsBite ==
    offence.state = "escaped" =>
        offence.reported + (BondingDuration \div 4) + 2 > offence.at + BondingDuration
=============================================================================
