---------------------------- MODULE ExtrinsicLife ----------------------------
(***************************************************************************)
(* How the node makes a signed extrinsic, and for how long a block may     *)
(* include it.                                                             *)
(*                                                                         *)
(* create_extrinsic of service.rs asks the client for its best block three *)
(* times: for the hash it signs, for the number its era starts from and    *)
(* for the state it reads the nonce of.  Blocks are imported meanwhile.    *)
(* create_transaction of the runtime runs in an offchain worker, that sees *)
(* one block, and is given the nonce.                                      *)
(*                                                                         *)
(* A block is the fork it is on; bestChain[n] is the fork of block n of    *)
(* the best chain.  There is one account, whose nonce is the number of its *)
(* extrinsics that are on the chain.  A block may replace the runtime: the *)
(* node goes on with the wasm of the chain, and with its native runtime    *)
(* only where that has the same version.                                   *)
(***************************************************************************)
EXTENDS Integers, Sequences, FiniteSets

CONSTANTS
    BlockHashCount,     \* how many block hashes the runtime keeps
    MaxHeight,          \* bound: the highest block
    MaxMade             \* bound: how many extrinsics are made

(* 2400 in the runtime.  With one hash the shortest era outlives it.         *)
ASSUME HashCountAssumption == BlockHashCount \in 2 .. 4096
ASSUME LifeBounds == MaxHeight \in Nat /\ MaxMade \in Nat

VARIABLES
    bestChain,          \* the best chain above genesis
    upgradedAt,         \* the block of it that replaced the runtime, 0 if none did
    call,               \* create_extrinsic under way: what it has read, and how often
                        \* the chain changed since
    made,               \* the extrinsics that were made
    onChain             \* for each extrinsic on the best chain the block it is in

lifeVars == <<bestChain, upgradedAt, call, made, onChain>>

Best == Len(bestChain)
HashOf(n) == IF n = 0 THEN <<0, 0>> ELSE <<n, bestChain[n]>>
Nonce == Cardinality(DOMAIN onChain)

-----------------------------------------------------------------------------
NextPowerOfTwo(n) == CHOOSE p \in {1, 2, 4, 8, 16, 32, 64, 128, 256, 512, 1024, 2048, 4096} :
                        p >= n /\ (p = 1 \/ p \div 2 < n)

(* Era::mortal: a power of two from 4 up. *)
MortalPeriod(wanted) == IF wanted < 4 THEN 4 ELSE wanted

(* Mutant: the period is not halved. *)
WholePeriod == MortalPeriod(NextPowerOfTwo(BlockHashCount))

Period == MortalPeriod(NextPowerOfTwo(BlockHashCount) \div 2)

(* Mutant: the phase is the block, not what is left of it in its period. *)
UnphasedEra(current) == [period |-> Period, phase |-> current]

Era(current) == [period |-> Period, phase |-> current % Period]

(* The era of a block: it is reborn every period. *)
Birth(era, current) ==
    LET since == IF current < era.phase THEN 0 ELSE (current - era.phase) \div era.period
    IN  since * era.period + era.phase

(* The hashes a block of this number can ask for. *)
Known(n, current) == n < current /\ n >= current - BlockHashCount - 1

(* The version the node was built with, and that of the runtime of a block. *)
NativeVersion == 1
VersionAt(n) == IF upgradedAt > 0 /\ n > upgradedAt THEN 2 ELSE 1

(* The version of the code that a call at this block runs: the native        *)
(* runtime where the versions are equal, else the wasm of the chain.         *)
Dispatched(n) == IF VersionAt(n) = NativeVersion THEN NativeVersion ELSE VersionAt(n)

(* The signed extensions CheckSpecVersion, CheckEra and CheckNonce of the    *)
(* next block.                                                              *)
Includable(x) ==
    LET current == Best + 1
        birth == Birth(x.era, current)
    IN  /\ x.version = VersionAt(current)
        /\ Known(birth, current)
        /\ HashOf(birth) = x.signed
        /\ x.nonce = Nonce

-----------------------------------------------------------------------------
NoCall == [step |-> "idle", hash |-> <<0, 0>>, number |-> 0, changed |-> FALSE]

LifeInit ==
    /\ bestChain = <<>> /\ upgradedAt = 0
    /\ call = NoCall
    /\ made = {}
    /\ onChain = [x \in {} |-> 0]

Changed == IF call.step = "idle" THEN call ELSE [call EXCEPT !.changed = TRUE]

(* A block on top of the best, with at most one of the extrinsics, or with   *)
(* the call that sets the code.                                             *)
Import ==
    /\ Best < MaxHeight
    /\ bestChain' = Append(bestChain, IF Best = 0 THEN 1 ELSE bestChain[Best])
    /\ \/ onChain' = onChain /\ UNCHANGED upgradedAt
       \/ onChain' = onChain /\ upgradedAt = 0 /\ upgradedAt' = Best + 1
       \/ UNCHANGED upgradedAt /\ \E x \in { y \in made : Includable(y) } :
            onChain' = [y \in DOMAIN onChain \cup {x} |-> IF y = x THEN Best + 1 ELSE onChain[y]]
    /\ call' = Changed
    /\ UNCHANGED made

(* The best block loses to two others, empty ones. *)
Reorganise2 ==
    /\ Best \in 1 .. MaxHeight - 1
    /\ bestChain[Best] = 1
    /\ bestChain' = SubSeq(bestChain, 1, Best - 1) \o <<2, 2>>
    /\ upgradedAt' = IF upgradedAt = Best THEN 0 ELSE upgradedAt
    /\ LET left == { x \in DOMAIN onChain : onChain[x] < Best }
       IN  onChain' = [x \in left |-> onChain[x]]
    /\ call' = Changed
    /\ UNCHANGED made

ReadBestHash ==
    /\ call.step = "idle" /\ Cardinality(made) < MaxMade
    /\ call' = [NoCall EXCEPT !.step = "hash_read", !.hash = HashOf(Best)]
    /\ UNCHANGED <<bestChain, upgradedAt, made, onChain>>

ReadBestNumber ==
    /\ call.step = "hash_read"
    /\ call' = [call EXCEPT !.step = "number_read", !.number = Best]
    /\ UNCHANGED <<bestChain, upgradedAt, made, onChain>>

Extrinsic(version, number, hash, nonce, raced) ==
    [version |-> version, era |-> Era(number), born |-> number, signed |-> hash,
     nonce |-> nonce, raced |-> raced]

FetchNonceAndSign ==
    /\ call.step = "number_read"
    /\ made' = made \cup
                {Extrinsic(NativeVersion, call.number, call.hash, Nonce, call.changed)}
    /\ call' = NoCall
    /\ UNCHANGED <<bestChain, upgradedAt, onChain>>

(* An offchain worker at the best block, in the runtime of that block: the   *)
(* era starts one block earlier, and the payload takes the hash of that      *)
(* block from the state.                                                    *)
CreateTransaction ==
    /\ Cardinality(made) < MaxMade /\ Best > 0
    /\ LET era == Era(Best - 1)
       IN  made' = made \cup
             {Extrinsic(Dispatched(Best + 1), Best - 1, HashOf(Birth(era, Best)), Nonce, FALSE)}
    /\ UNCHANGED <<bestChain, upgradedAt, call, onChain>>

LifeNext ==
    \/ Import \/ Reorganise2
    \/ ReadBestHash \/ ReadBestNumber \/ FetchNonceAndSign
    \/ CreateTransaction

LifeSpec == LifeInit /\ [][LifeNext]_lifeVars

-----------------------------------------------------------------------------
LifeTypeOK ==
    /\ Best <= MaxHeight /\ upgradedAt \in 0 .. Best
    /\ call.step \in {"idle", "hash_read", "number_read"}
    /\ \A x \in made : x.era.period = Period /\ x.era.phase < Period
    /\ DOMAIN onChain \subseteq made

(* An extrinsic that has not expired can be included, unless the chain       *)
(* changed while it was made, the block it was signed on has been           *)
(* abandoned, its runtime replaced, or its nonce used.  In particular the    *)
(* hash of that block is never forgotten too early.  One that has expired is *)
(* dead for good, on whatever fork, and so is one that was signed over two   *)
(* different blocks; no two with one nonce are on the chain.                 *)
LivesUntilExpired ==
    \A x \in made :
        /\ \/ x \in DOMAIN onChain
           \/ x.raced
           \/ x.signed # HashOf(x.signed[1])
           \/ x.version # VersionAt(Best + 1)
           \/ x.nonce # Nonce
           \/ Best + 1 >= x.born + Period
           \/ Includable(x)
        /\ Includable(x) => Best + 1 < x.born + Period /\ x.signed[1] = x.born
        /\ \A y \in DOMAIN onChain :
            x \in DOMAIN onChain /\ x # y => x.nonce # y.nonce
=============================================================================
