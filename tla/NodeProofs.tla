----------------------------- MODULE NodeProofs -----------------------------
(***************************************************************************)
(* The node, its inspect subcommand and the life of an extrinsic, for all  *)
(* of their bounds, and the instance in which they are checked together    *)
(* with the benchmarks and the button of the client.                       *)
(***************************************************************************)
EXTENDS MCNode, BenchProofs, TxButtonProofs

-----------------------------------------------------------------------------
(***************************************************************************)
(* RpcSeesVoter for every number of tasks that end and of rounds.  The     *)
(* invariant follows the one voter state from the rpc builder, that makes  *)
(* it, to the handlers and to the voter, through the stages of the start.  *)
(***************************************************************************)

(* The stages of the start at which the builder, the rpc handlers and the    *)
(* voter are there.                                                         *)
WithBuilder == {"partial", "network", "tasks", "babe", "discovery", "grandpa", "running"}
WithHandlers == {"tasks", "babe", "discovery", "grandpa", "running"}
WithVoter == {"grandpa", "running"}

VoterIInv ==
    /\ at \in WithBuilder => cell.builder = 1 /\ cell.setup = 1
    /\ at \in WithHandlers => cell.rpc = 1
    /\ "grandpa-voter" \in tasks => at \in WithVoter /\ cell.voter = 1
    /\ cell \in [builder : 0 .. 2, setup : 0 .. 2, rpc : 0 .. 2, voter : 0 .. 2]
    /\ round[1] = votingRound
    /\ round \in [Cells -> Nat] /\ votingRound \in Nat

-----------------------------------------------------------------------------
(* Before new_full_base nothing of the voter exists. *)
LEMMA VoterInitInv == NodeInit => VoterIInv
<1> SUFFICES ASSUME NodeInit PROVE VoterIInv
  OBVIOUS
<1>1. at = "shell" /\ tasks = {}
  BY DEF NodeInit
<1>2. cell \in [builder : 0 .. 2, setup : 0 .. 2, rpc : 0 .. 2, voter : 0 .. 2]
  <2>1. NoCell \in [builder : 0 .. 2, setup : 0 .. 2, rpc : 0 .. 2, voter : 0 .. 2]
    BY DEF NoCell
  <2> QED
    BY <2>1 DEF NodeInit
<1>3. round[1] = votingRound /\ round \in [Cells -> Nat] /\ votingRound \in Nat
  <2>1. round = [c \in Cells |-> 0] /\ votingRound = 0
    BY DEF NodeInit
  <2> QED
    BY <2>1 DEF Cells
<1> QED
  BY <1>1, <1>2, <1>3 DEF VoterIInv, WithBuilder, WithHandlers

(* No step of new_partial or new_full_base separates the two cells. *)
LEMMA VoterStepInv == VoterIInv /\ [NodeNext]_nodeVars => VoterIInv'
<1> SUFFICES ASSUME VoterIInv, [NodeNext]_nodeVars PROVE VoterIInv'
  OBVIOUS
<1> USE DEF WithBuilder, WithHandlers, WithVoter
<1>1. ASSUME NEW how, how \in {"done", "failed"}, Stop(how) PROVE VoterIInv'
  BY <1>1 DEF Stop, VoterIInv, voterVars
<1>2. CASE ParseArgs
  BY <1>2 DEF ParseArgs, Go, VoterIInv, voterVars, taskVars
<1>3. CASE RunPlain
  BY <1>3, <1>1 DEF RunPlain
<1>4. CASE NoSpec
  BY <1>4, <1>1 DEF NoSpec
<1>5. CASE RunConfigured
  BY <1>5, <1>1 DEF RunConfigured
<1>6. CASE RunPartial
  BY <1>6, <1>1 DEF RunPartial
<1>7. CASE Startup
  <2>1. CASE LoadSpec
    BY <2>1 DEF LoadSpec, Go, VoterIInv, voterVars, taskVars
  <2>2. CASE OpenClient
    BY <2>2 DEF OpenClient, Go, Spawn, VoterIInv, voterVars
  <2>3. CASE LinkConsensus
    <3>1. /\ at = "client" /\ at' = "partial"
          /\ tasks' = tasks \cup {"import-queue"}
          /\ cell' = [cell EXCEPT !.builder = 1, !.setup = 1]
          /\ UNCHANGED <<round, votingRound>>
      BY <2>3 DEF LinkConsensus, Go, Spawn
    <3>2. cell' \in [builder : 0 .. 2, setup : 0 .. 2, rpc : 0 .. 2, voter : 0 .. 2]
          /\ cell'.builder = 1 /\ cell'.setup = 1
      <4>1. cell \in [builder : 0 .. 2, setup : 0 .. 2, rpc : 0 .. 2, voter : 0 .. 2]
        BY DEF VoterIInv
      <4> DEFINE rebuilt == [cell EXCEPT !.builder = 1]
      <4>2. /\ rebuilt \in [builder : 0 .. 2, setup : 0 .. 2, rpc : 0 .. 2, voter : 0 .. 2]
            /\ rebuilt.builder = 1
        BY <4>1
      <4>3. cell' = [rebuilt EXCEPT !.setup = 1]
        BY <3>1
      <4> HIDE DEF rebuilt
      <4> QED
        BY <4>2, <4>3
    <3>3. "grandpa-voter" \notin tasks'
      BY <3>1 DEF VoterIInv
    <3> QED
      BY <3>1, <3>2, <3>3 DEF VoterIInv
  <2>4. CASE BuildNetwork
    BY <2>4 DEF BuildNetwork, Go, Spawn, VoterIInv, voterVars
  <2>5. CASE SpawnTasks
    BY <2>5 DEF SpawnTasks, CreateFull, Go, Spawn, VoterIInv
  <2>6. CASE StartBabe
    BY <2>6 DEF StartBabe, Go, Spawn, VoterIInv, voterVars, taskVars
  <2>7. CASE StartDiscovery
    BY <2>7 DEF StartDiscovery, Go, Spawn, VoterIInv, voterVars, taskVars
  <2>8. CASE StartGrandpa
    BY <2>8 DEF StartGrandpa, Go, SpawnVoter, VoterCell, Spawn, VoterIInv, taskVars
  <2>9. CASE StartNetwork
    BY <2>9 DEF StartNetwork, Go, VoterIInv, voterVars, taskVars
  <2> QED
    BY <1>7, <2>1, <2>2, <2>3, <2>4, <2>5, <2>6, <2>7, <2>8, <2>9 DEF Startup
<1>8. CASE StartFails
  BY <1>8, <1>1 DEF StartFails
<1>9. ASSUME NEW t \in tasks, TaskEnds(t) PROVE VoterIInv'
  BY <1>9 DEF TaskEnds, VoterIInv, voterVars
<1>10. CASE VoterRound
  BY <1>10 DEF VoterRound, VoterIInv, Cells
<1>11. CASE Exit \/ Interrupt
  BY <1>11, <1>1 DEF Exit, Interrupt
<1>12. CASE UNCHANGED nodeVars
  BY <1>12 DEF nodeVars, VoterIInv
<1> QED
  BY <1>2, <1>3, <1>4, <1>5, <1>6, <1>7, <1>8, <1>9, <1>10, <1>11, <1>12 DEF NodeNext

-----------------------------------------------------------------------------
(* What the rpc tells of the voter is what the voter does: the handlers,     *)
(* that are made before there is a voter, have the voter state that it       *)
(* publishes its rounds in (service.rs, new_partial and new_full_base).      *)
THEOREM RpcAndVoterAgree == NodeSpec => []RpcSeesVoter
<1>1. VoterIInv => RpcSeesVoter
  BY DEF VoterIInv, RpcSeesVoter, WithHandlers
<1> QED
  BY <1>1, VoterInitInv, VoterStepInv, PTL DEF NodeSpec

-----------------------------------------------------------------------------
(***************************************************************************)
(* What the inspector finds, for chains of every length.                   *)
(***************************************************************************)

InspectIInv ==
    /\ bodies \subseteq stored /\ stored \subseteq Blocks
    /\ best \in Forks /\ height \in 0 .. MaxNumber

(* However the chain grows, is reorganised and is pruned. *)
LEMMA InspectInvariance == InspectSpec => []InspectIInv
<1>1. InspectInit => InspectIInv
  BY InspectBounds DEF InspectInit, InspectIInv, Genesis0, Blocks, Forks
<1>2. InspectIInv /\ [InspectNext]_inspectVars => InspectIInv'
  <2> SUFFICES ASSUME InspectIInv, [InspectNext]_inspectVars PROVE InspectIInv'
    OBVIOUS
  <2> USE InspectBounds
  <2>1. CASE Extend
    <3>1. height + 1 \in 0 .. MaxNumber /\ <<height + 1, best>> \in Blocks
      BY <2>1 DEF Extend, InspectIInv, Blocks
    <3> QED
      BY <2>1, <3>1 DEF Extend, InspectIInv
  <2>2. CASE Reorganise
    <3> DEFINE fork == (1 .. height + 1) \X {best'}
    <3>1. /\ height' = height + 1 /\ stored' = stored \cup fork
          /\ bodies' = bodies \cup (fork \ stored) /\ best' = 3 - best
          /\ height \in 1 .. MaxNumber - 1
      BY <2>2 DEF Reorganise
    <3>2. best' \in Forks /\ height' \in 0 .. MaxNumber
      BY <3>1 DEF InspectIInv, Forks
    <3>3. fork \subseteq Blocks
      BY <3>1, <3>2 DEF Blocks
    <3> HIDE DEF fork
    <3> QED
      BY <3>1, <3>2, <3>3 DEF InspectIInv
  <2>3. ASSUME NEW b \in bodies, Prune(b) PROVE InspectIInv'
    BY <2>3 DEF Prune, InspectIInv
  <2>4. ASSUME UNCHANGED <<stored, bodies, best, height>> PROVE InspectIInv'
    BY <2>4 DEF InspectIInv
  <2> QED
    BY <2>1, <2>2, <2>3, <2>4 DEF InspectNext, InspectBlock, InspectExtrinsic, inspectVars
<1> QED
  BY <1>1, <1>2, PTL DEF InspectSpec

-----------------------------------------------------------------------------
(***************************************************************************)
(* LivesUntilExpired for every number of block hashes that one era does    *)
(* not outlive, every height and every number of extrinsics.  The          *)
(* invariant knows that the number of the best block never falls, so that  *)
(* the hash that is signed is never of a later block than the era is born  *)
(* at, and that the nonce of an extrinsic on the chain counts those below. *)
(***************************************************************************)

(* An era is at least 4 blocks and at most one longer than the runtime keeps *)
(* hashes for: the power of two above half of them (service.rs,              *)
(* create_extrinsic).                                                        *)
LEMMA PeriodBounds ==
    BlockHashCount \in Nat /\ Period \in Nat /\ Period >= 4 /\ Period <= BlockHashCount + 2
<1> DEFINE powers == {1, 2, 4, 8, 16, 32, 64, 128, 256, 512, 1024, 2048, 4096}
           n == BlockHashCount
           p == NextPowerOfTwo(n)
<1>1. n \in 2 .. 4096
  BY HashCountAssumption
<1>2. \E q \in powers : q >= n /\ (q = 1 \/ q \div 2 < n)
  BY <1>1
<1>3. p \in powers /\ p >= n /\ (p = 1 \/ p \div 2 < n)
  <2> HIDE DEF n
  <2> QED
    BY <1>2 DEF NextPowerOfTwo
<1> HIDE DEF p
<1>4. p \div 2 \in Nat /\ p \div 2 < n
  BY <1>1, <1>3
<1>5. Period = MortalPeriod(p \div 2)
  BY DEF Period, p
<1> QED
  BY <1>1, <1>4, <1>5 DEF MortalPeriod

(* The era of a block is born there as long as it has not expired, and later *)
(* from then on: never earlier, and never a whole period ago.                *)
LEMMA EraOf ==
    ASSUME NEW b \in Nat, NEW current \in Nat, b <= current
    PROVE  LET birth == Birth(Era(b), current)
           IN  /\ birth \in Nat /\ b <= birth /\ current < birth + Period
               /\ current < b + Period => birth = b
<1> DEFINE phase == b % Period
           a == b \div Period
           d == current - phase
           q == d \div Period
           r == d % Period
<1>1. Period \in Nat \ {0}
  BY PeriodBounds
<1>2. a \in Int /\ phase \in 0 .. Period - 1 /\ b = Period * a + phase
  BY <1>1, DivMod
<1>3. Period * a \in Int
  BY <1>1, <1>2
<1>4. a >= 0
  <2>1. CASE a < 0
    <3>1. Period * a + Period <= Period * 0
      BY <1>1, <1>2, <2>1, Multiples
    <3> QED
      BY <1>1, <1>2, <1>3, <3>1
  <2> QED
    BY <1>2, <2>1
<1>5. Period * a >= 0
  BY <1>1, <1>2, <1>4
<1> HIDE DEF phase, a
<1>6. d \in Nat
  BY <1>1, <1>2, <1>3, <1>5
<1>7. q \in Int /\ r \in 0 .. Period - 1 /\ d = Period * q + r
  <2> HIDE DEF d
  <2> QED
    BY <1>1, <1>6, DivMod
<1>8. Birth(Era(b), current) = q * Period + phase
  <2>1. Era(b).phase = phase /\ Era(b).period = Period
    BY DEF Era, phase
  <2>2. ~ current < phase
    BY <1>1, <1>2, <1>6
  <2> QED
    BY <2>1, <2>2 DEF Birth
<1> HIDE DEF q, r
<1>9. Period * q \in Int /\ q * Period = Period * q
  BY <1>1, <1>7
<1>10. current = Period * q + r + phase
  BY <1>1, <1>2, <1>7, <1>9 DEF d
<1>11. ~ q < a
  <2> SUFFICES ASSUME q < a PROVE FALSE
    OBVIOUS
  <2>1. Period * q + Period <= Period * a
    BY <1>1, <1>2, <1>7, Multiples
  <2> QED
    BY <1>1, <1>2, <1>3, <1>7, <1>9, <1>10, <2>1
<1>12. Period * a <= Period * q
  <2>1. CASE a < q
    <3>1. Period * a + Period <= Period * q
      BY <1>1, <1>2, <1>7, <2>1, Multiples
    <3> QED
      BY <1>1, <1>3, <1>9, <3>1
  <2>2. CASE a = q
    BY <1>3, <2>2
  <2> QED
    BY <1>2, <1>7, <1>11, <2>1, <2>2
<1>13. ASSUME current < b + Period PROVE Period * a = Period * q
  <2>1. CASE a < q
    <3>1. Period * a + Period <= Period * q
      BY <1>1, <1>2, <1>7, <2>1, Multiples
    <3> QED
      BY <1>1, <1>2, <1>3, <1>7, <1>9, <1>10, <1>13, <3>1
  <2>2. CASE a = q
    BY <2>2
  <2> QED
    BY <1>2, <1>7, <1>11, <2>1, <2>2
<1>14. q * Period + phase \in Nat /\ b <= q * Period + phase
  BY <1>1, <1>2, <1>3, <1>5, <1>9, <1>12
<1>15. current < q * Period + phase + Period
  BY <1>1, <1>2, <1>7, <1>9, <1>10
<1>16. current < b + Period => q * Period + phase = b
  BY <1>2, <1>9, <1>13
<1> QED
  BY <1>8, <1>14, <1>15, <1>16

(* The chain, the call that reads it, what was made of it, and what it has   *)
(* of that.                                                                 *)
ChainInv == bestChain \in Seq({1, 2}) /\ Best <= MaxHeight /\ upgradedAt \in 0 .. Best

CallInv ==
    /\ call \in [step : {"idle", "hash_read", "number_read"}, hash : Nat \X Nat,
                 number : Nat, changed : BOOLEAN]
    /\ call.hash[1] <= Best /\ call.number <= Best
    /\ call.step = "number_read" => call.hash[1] <= call.number
    /\ ~call.changed => /\ call.step = "hash_read" => call.hash[1] = Best
                        /\ call.step = "number_read" => call.hash[1] = call.number

SoundExtrinsic(x) ==
    /\ x.born \in Nat /\ x.era = Era(x.born)
    /\ x.signed \in Nat \X Nat /\ x.signed[1] <= x.born
    /\ ~x.raced => x.signed[1] = x.born

MadeInv == \A x \in made : SoundExtrinsic(x) /\ x.born <= Best

Below(block, x) == { y \in DOMAIN block : block[y] < block[x] }

OnChainInv ==
    /\ IsFiniteSet(DOMAIN onChain) /\ DOMAIN onChain \subseteq made
    /\ \A x \in DOMAIN onChain :
        /\ onChain[x] \in 1 .. Best /\ x.nonce = Cardinality(Below(onChain, x))
        /\ \A y \in DOMAIN onChain : x # y => onChain[x] # onChain[y]

LifeIInv == ChainInv /\ CallInv /\ MadeInv /\ OnChainInv

(* A block of the best chain has its own number.                             *)
LEMMA HashNumber ==
    ASSUME ChainInv, NEW n \in 0 .. Best
    PROVE  HashOf(n) \in Nat \X Nat /\ HashOf(n)[1] = n
<1>1. Best \in Nat /\ \A i \in 1 .. Best : bestChain[i] \in {1, 2}
  BY DEF ChainInv, Best
<1>2. n = 0 \/ (n \in 1 .. Best /\ n # 0)
  BY <1>1
<1> QED
  BY <1>1, <1>2 DEF HashOf

(* The number of the best block never falls: a fork that wins is longer.     *)
LEMMA BestGrows ==
    ASSUME ChainInv, Import \/ Reorganise2
    PROVE  ChainInv' /\ Best' >= Best /\ Best \in Nat /\ Best' = Best + 1
<1>1. Best \in Nat /\ MaxHeight \in Nat /\ Best <= MaxHeight /\ upgradedAt \in 0 .. Best
  BY LifeBounds DEF ChainInv, Best
<1>2. CASE Import
  <2> DEFINE fork == IF Best = 0 THEN 1 ELSE bestChain[Best]
  <2>1. /\ Best < MaxHeight /\ bestChain' = Append(bestChain, fork)
        /\ upgradedAt' = upgradedAt \/ upgradedAt' = Best + 1
    BY <1>2 DEF Import
  <2>2. fork \in {1, 2}
    BY <1>1 DEF ChainInv, Best
  <2> HIDE DEF fork
  <2>3. bestChain' \in Seq({1, 2}) /\ Len(bestChain') = Len(bestChain) + 1
    BY <2>1, <2>2 DEF ChainInv
  <2> QED
    BY <1>1, <2>1, <2>3 DEF ChainInv, Best
<1>3. CASE Reorganise2
  <2> DEFINE kept == SubSeq(bestChain, 1, Best - 1)
             fork == <<2, 2>>
  <2>1. /\ Best \in 1 .. MaxHeight - 1 /\ bestChain' = kept \o fork
        /\ upgradedAt' = IF upgradedAt = Best THEN 0 ELSE upgradedAt
    BY <1>3 DEF Reorganise2
  <2>2. kept \in Seq({1, 2}) /\ Len(kept) = Best - 1
    <3>1. /\ bestChain \in Seq({1, 2}) /\ Len(bestChain) = Best
          /\ 1 \in 1 .. Best + 1 /\ Best - 1 \in 1 - 1 .. Best
      BY <2>1 DEF ChainInv, Best
    <3>2. kept \in Seq({1, 2})
          /\ Len(kept) = IF 1 <= Best - 1 THEN (Best - 1) - 1 + 1 ELSE 0
      BY <3>1, SubSeqProperties
    <3> QED
      BY <1>1, <2>1, <3>2
  <2>3. fork \in Seq({1, 2}) /\ Len(fork) = 2
    OBVIOUS
  <2> HIDE DEF kept, fork
  <2>4. bestChain' \in Seq({1, 2}) /\ Len(bestChain') = Len(kept) + Len(fork)
    BY <2>1, <2>2, <2>3, ConcatProperties
  <2>5. Best' = Best + 1
    BY <1>1, <2>2, <2>3, <2>4 DEF Best
  <2>6. Best' <= MaxHeight /\ upgradedAt' \in 0 .. Best'
    <3> HIDE DEF Best
    <3> QED
      BY <1>1, <2>1, <2>5
  <2> QED
    BY <1>1, <2>4, <2>5, <2>6 DEF ChainInv
<1> QED
  BY <1>1, <1>2, <1>3

(* What has been read, and made, of a chain holds of a longer one.           *)
LEMMA ReadsStay ==
    ASSUME CallInv, MadeInv, ChainInv, Best \in Nat, Best' \in Nat, Best' >= Best,
           call' = Changed, made' = made
    PROVE  CallInv' /\ MadeInv'
<1>1. CallInv'
  <2>1. CASE call.step = "idle"
    BY <2>1 DEF CallInv, Changed
  <2>2. CASE call.step # "idle"
    <3>1. /\ call' \in [step : {"idle", "hash_read", "number_read"}, hash : Nat \X Nat,
                        number : Nat, changed : BOOLEAN]
          /\ call'.changed = TRUE /\ call'.step = call.step /\ call'.hash = call.hash
          /\ call'.number = call.number
      BY <2>2 DEF CallInv, Changed
    <3>2. /\ call.hash[1] \in Nat /\ call.number \in Nat
          /\ call.hash[1] <= Best /\ call.number <= Best
          /\ call.step = "number_read" => call.hash[1] <= call.number
      BY DEF CallInv
    <3>3. call.hash[1] <= Best' /\ call.number <= Best'
      BY <3>2
    <3> QED
      BY <3>1, <3>2, <3>3 DEF CallInv
  <2> QED
    BY <2>1, <2>2
<1>2. MadeInv'
  <2>1. ASSUME NEW x \in made PROVE SoundExtrinsic(x) /\ x.born <= Best'
    <3>1. SoundExtrinsic(x) /\ x.born <= Best
      BY DEF MadeInv
    <3>2. x.born \in Nat
      BY <3>1 DEF SoundExtrinsic
    <3> QED
      BY <3>1, <3>2
  <2> QED
    BY <2>1 DEF MadeInv
<1> QED
  BY <1>1, <1>2

(* An extrinsic that a block includes has the nonce that counts those below. *)
LEMMA OnChainGrows ==
    ASSUME LifeIInv, Import PROVE OnChainInv'
<1>1. /\ Best \in Nat /\ Best' = Best + 1 /\ made' = made
  BY BestGrows DEF LifeIInv, Import
<1>2. CASE onChain' = onChain
  <2>1. ASSUME NEW x \in DOMAIN onChain PROVE onChain[x] \in 1 .. Best'
    BY <1>1 DEF LifeIInv, OnChainInv
  <2>2. DOMAIN onChain' = DOMAIN onChain /\ \A x : Below(onChain', x) = Below(onChain, x)
    BY <1>2
  <2> QED
    BY <1>1, <1>2, <2>1, <2>2 DEF LifeIInv, OnChainInv
<1>3. ASSUME NEW x \in made, Includable(x),
             onChain' = [y \in DOMAIN onChain \cup {x} |-> IF y = x THEN Best + 1 ELSE onChain[y]]
      PROVE  OnChainInv'
  <2>1. \A y \in DOMAIN onChain : onChain[y] \in 1 .. Best
    BY DEF LifeIInv, OnChainInv
  <2>2. x.nonce = Cardinality(DOMAIN onChain)
    BY <1>3 DEF Includable, Nonce
  <2>3. x \notin DOMAIN onChain
    <3> SUFFICES ASSUME x \in DOMAIN onChain PROVE FALSE
      OBVIOUS
    <3>1. /\ IsFiniteSet(DOMAIN onChain) /\ Below(onChain, x) \subseteq DOMAIN onChain
          /\ Cardinality(Below(onChain, x)) = Cardinality(DOMAIN onChain)
      BY <2>2 DEF LifeIInv, OnChainInv, Below
    <3>2. Below(onChain, x) = DOMAIN onChain
      BY <3>1, FS_Subset
    <3> QED
      BY <2>1, <3>2 DEF Below
  <2>4. /\ DOMAIN onChain' = DOMAIN onChain \cup {x} /\ onChain'[x] = Best + 1
        /\ \A y \in DOMAIN onChain : onChain'[y] = onChain[y]
    BY <1>3, <2>3
  <2>5. IsFiniteSet(DOMAIN onChain') /\ DOMAIN onChain' \subseteq made'
    BY <1>1, <2>4, FS_AddElement DEF LifeIInv, OnChainInv
  <2>6. Below(onChain', x) = DOMAIN onChain
    BY <1>1, <2>1, <2>4 DEF Below
  <2>7. ASSUME NEW y \in DOMAIN onChain PROVE Below(onChain', y) = Below(onChain, y)
    BY <1>1, <2>1, <2>4 DEF Below
  <2>8. ASSUME NEW y \in DOMAIN onChain'
        PROVE  /\ onChain'[y] \in 1 .. Best' /\ y.nonce = Cardinality(Below(onChain', y))
               /\ \A z \in DOMAIN onChain' : y # z => onChain'[y] # onChain'[z]
    <3>1. CASE y = x
      BY <1>1, <2>1, <2>2, <2>4, <2>6, <3>1
    <3>2. CASE y \in DOMAIN onChain
      <4>1. y.nonce = Cardinality(Below(onChain, y))
        BY <3>2 DEF LifeIInv, OnChainInv
      <4>2. \A z \in DOMAIN onChain : y # z => onChain[y] # onChain[z]
        BY <3>2 DEF LifeIInv, OnChainInv
      <4>3. \A z \in DOMAIN onChain' : y # z => onChain'[y] # onChain'[z]
        BY <1>1, <2>1, <2>4, <3>2, <4>2
      <4> QED
        BY <1>1, <2>1, <2>4, <2>7, <3>2, <4>1, <4>3
    <3> QED
      BY <2>4, <3>1, <3>2
  <2> QED
    BY <2>5, <2>8 DEF OnChainInv
<1> QED
  BY <1>2, <1>3 DEF Import

(* And those that an abandoned block takes from the chain are above the rest. *)
LEMMA OnChainShrinks ==
    ASSUME LifeIInv, Reorganise2 PROVE OnChainInv'
<1> DEFINE left == { x \in DOMAIN onChain : onChain[x] < Best }
<1>1. /\ Best \in Nat /\ Best' = Best + 1 /\ made' = made
      /\ onChain' = [x \in left |-> onChain[x]]
  BY BestGrows DEF LifeIInv, Reorganise2
<1>2. \A y \in DOMAIN onChain : onChain[y] \in 1 .. Best
  BY DEF LifeIInv, OnChainInv
<1>3. DOMAIN onChain' = left /\ \A y \in left : onChain'[y] = onChain[y]
  BY <1>1
<1>4. IsFiniteSet(DOMAIN onChain') /\ DOMAIN onChain' \subseteq made'
  BY <1>1, <1>3, FS_Subset DEF LifeIInv, OnChainInv
<1>5. ASSUME NEW y \in left PROVE Below(onChain', y) = Below(onChain, y)
  BY <1>1, <1>2, <1>3 DEF Below
<1>6. ASSUME NEW y \in left
      PROVE  /\ onChain'[y] \in 1 .. Best' /\ y.nonce = Cardinality(Below(onChain', y))
             /\ \A z \in left : y # z => onChain'[y] # onChain'[z]
  <2>1. y.nonce = Cardinality(Below(onChain, y))
    BY DEF LifeIInv, OnChainInv
  <2>2. \A z \in DOMAIN onChain : y # z => onChain[y] # onChain[z]
    BY DEF LifeIInv, OnChainInv
  <2> QED
    BY <1>1, <1>2, <1>3, <1>5, <2>1, <2>2
<1> HIDE DEF left
<1> QED
  BY <1>3, <1>4, <1>6 DEF OnChainInv

(* What create_extrinsic signs is of the block the era is born at, or of an  *)
(* earlier one if the chain changed in between.                              *)
LEMMA SignedInOrder ==
    ASSUME LifeIInv, FetchNonceAndSign PROVE LifeIInv'
<1> DEFINE x == Extrinsic(NativeVersion, call.number, call.hash, Nonce, call.changed)
<1>1. /\ call.step = "number_read" /\ made' = made \cup {x} /\ call' = NoCall
      /\ bestChain' = bestChain /\ upgradedAt' = upgradedAt /\ onChain' = onChain
  BY DEF FetchNonceAndSign
<1>2. ChainInv' /\ Best' = Best /\ Best \in Nat
  BY <1>1 DEF LifeIInv, ChainInv, Best
<1>3. CallInv'
  BY <1>1, <1>2 DEF CallInv, NoCall
<1>4. /\ x.born = call.number /\ x.era = Era(call.number) /\ x.signed = call.hash
      /\ x.raced = call.changed
  BY DEF Extrinsic
<1>5. /\ call.number \in Nat /\ call.hash \in Nat \X Nat /\ call.hash[1] <= call.number
      /\ call.number <= Best /\ (~call.changed => call.hash[1] = call.number)
  BY <1>1 DEF LifeIInv, CallInv
<1> HIDE DEF x
<1>6. SoundExtrinsic(x) /\ x.born <= Best
  BY <1>4, <1>5 DEF SoundExtrinsic
<1>7. MadeInv'
  BY <1>1, <1>2, <1>6 DEF LifeIInv, MadeInv
<1>8. OnChainInv'
  BY <1>1, <1>2 DEF LifeIInv, OnChainInv, Below
<1> QED
  BY <1>2, <1>3, <1>7, <1>8 DEF LifeIInv

(* What create_transaction signs is of the block the era is born at.         *)
LEMMA SignedAtBirth ==
    ASSUME LifeIInv, CreateTransaction PROVE LifeIInv'
<1> DEFINE born == Best - 1
           birth == Birth(Era(born), Best)
           x == Extrinsic(Dispatched(Best + 1), born, HashOf(birth), Nonce, FALSE)
<1>1. /\ Best > 0 /\ made' = made \cup {x} /\ call' = call
      /\ bestChain' = bestChain /\ upgradedAt' = upgradedAt /\ onChain' = onChain
  BY DEF CreateTransaction
<1>2. ChainInv' /\ Best' = Best /\ Best \in Nat
  BY <1>1 DEF LifeIInv, ChainInv, Best
<1>3. CallInv'
  BY <1>1, <1>2 DEF LifeIInv, CallInv
<1>4. born \in Nat /\ born <= Best /\ Best < born + Period /\ born \in 0 .. Best
  BY <1>1, <1>2, PeriodBounds
<1>5. birth = born
  <2> HIDE DEF born
  <2> QED
    BY <1>2, <1>4, EraOf
<1>6. HashOf(born) \in Nat \X Nat /\ HashOf(born)[1] = born
  <2> HIDE DEF born
  <2> QED
    BY <1>4, HashNumber DEF LifeIInv
<1>7. /\ x.born = born /\ x.era = Era(born) /\ x.signed = HashOf(born)
      /\ x.raced = FALSE
  BY <1>5 DEF Extrinsic
<1> HIDE DEF x, born
<1>8. SoundExtrinsic(x) /\ x.born <= Best
  BY <1>4, <1>6, <1>7 DEF SoundExtrinsic
<1>9. MadeInv'
  BY <1>1, <1>2, <1>8 DEF LifeIInv, MadeInv
<1>10. OnChainInv'
  BY <1>1, <1>2 DEF LifeIInv, OnChainInv, Below
<1> QED
  BY <1>2, <1>3, <1>9, <1>10 DEF LifeIInv

(* Through every read of create_extrinsic, with blocks imported and reorganised between them. *)
LEMMA LifeInvariance == LifeSpec => []LifeIInv
<1>1. LifeInit => LifeIInv
  <2> SUFFICES ASSUME LifeInit PROVE LifeIInv
    OBVIOUS
  <2>1. /\ bestChain = <<>> /\ upgradedAt = 0 /\ call = NoCall /\ made = {}
        /\ DOMAIN onChain = {}
    BY DEF LifeInit
  <2>2. ChainInv /\ Best = 0
    BY <2>1, LifeBounds DEF ChainInv, Best
  <2>3. CallInv
    BY <2>1, <2>2 DEF CallInv, NoCall
  <2>4. MadeInv /\ OnChainInv
    BY <2>1, FS_EmptySet DEF MadeInv, OnChainInv
  <2> QED
    BY <2>2, <2>3, <2>4 DEF LifeIInv
<1>2. LifeIInv /\ [LifeNext]_lifeVars => LifeIInv'
  <2> SUFFICES ASSUME LifeIInv, [LifeNext]_lifeVars PROVE LifeIInv'
    OBVIOUS
  <2>0. Best \in Nat
    BY DEF LifeIInv, ChainInv, Best
  <2>1. CASE Import
    <3>1. ChainInv' /\ Best' \in Nat /\ Best' >= Best
      BY <2>1, <2>0, BestGrows DEF LifeIInv
    <3>2. CallInv' /\ MadeInv'
      BY <2>0, <2>1, <3>1, ReadsStay DEF LifeIInv, Import
    <3> QED
      BY <2>1, <3>1, <3>2, OnChainGrows DEF LifeIInv
  <2>2. CASE Reorganise2
    <3>1. ChainInv' /\ Best' \in Nat /\ Best' >= Best
      BY <2>2, <2>0, BestGrows DEF LifeIInv
    <3>2. CallInv' /\ MadeInv'
      BY <2>0, <2>2, <3>1, ReadsStay DEF LifeIInv, Reorganise2
    <3> QED
      BY <2>2, <3>1, <3>2, OnChainShrinks DEF LifeIInv
  <2>3. ASSUME bestChain' = bestChain, upgradedAt' = upgradedAt, made' = made,
               onChain' = onChain
        PROVE  ChainInv' /\ MadeInv' /\ OnChainInv' /\ Best' = Best
    BY <2>3 DEF LifeIInv, ChainInv, MadeInv, OnChainInv, Best, Below
  <2>4. CASE ReadBestHash
    <3>1. call' = [NoCall EXCEPT !.step = "hash_read", !.hash = HashOf(Best)]
      BY <2>4 DEF ReadBestHash
    <3>2. HashOf(Best) \in Nat \X Nat /\ HashOf(Best)[1] = Best
      BY <2>0, HashNumber DEF LifeIInv
    <3>3. Best' = Best
      BY <2>4 DEF ReadBestHash, Best
    <3>4. /\ call' \in [step : {"idle", "hash_read", "number_read"}, hash : Nat \X Nat,
                        number : Nat, changed : BOOLEAN]
          /\ call'.step = "hash_read" /\ call'.hash = HashOf(Best) /\ call'.number = 0
      BY <3>1, <3>2 DEF NoCall
    <3>5. CallInv'
      BY <2>0, <3>2, <3>3, <3>4 DEF CallInv
    <3> QED
      BY <2>3, <2>4, <3>5 DEF LifeIInv, ReadBestHash
  <2>5. CASE ReadBestNumber
    <3>1. call.step = "hash_read"
          /\ call' = [call EXCEPT !.step = "number_read", !.number = Best]
      BY <2>5 DEF ReadBestNumber
    <3>2. Best' = Best
      BY <2>5 DEF ReadBestNumber, Best
    <3>3. /\ call' \in [step : {"idle", "hash_read", "number_read"}, hash : Nat \X Nat,
                        number : Nat, changed : BOOLEAN]
          /\ call'.step = "number_read" /\ call'.hash = call.hash /\ call'.number = Best
          /\ call'.changed = call.changed
      BY <2>0, <3>1 DEF LifeIInv, CallInv
    <3>4. call.hash[1] <= Best /\ (~call.changed => call.hash[1] = Best)
      BY <3>1 DEF LifeIInv, CallInv
    <3>5. CallInv'
      BY <2>0, <3>2, <3>3, <3>4 DEF CallInv
    <3> QED
      BY <2>3, <2>5, <3>5 DEF LifeIInv, ReadBestNumber
  <2>6. CASE UNCHANGED lifeVars
    BY <2>3, <2>6 DEF lifeVars, LifeIInv, CallInv
  <2> QED
    BY <2>1, <2>2, <2>4, <2>5, <2>6, SignedInOrder, SignedAtBirth DEF LifeNext
<1> QED
  BY <1>1, <1>2, PTL DEF LifeSpec

(* LifeTypeOK: every era has the period and a phase below it, and only what  *)
(* was made is on the chain (cli/src/service.rs, create_extrinsic;           *)
(* runtime/src/lib.rs, create_transaction).                                  *)
THEOREM LifeTyped == LifeSpec => []LifeTypeOK
<1>1. LifeIInv => LifeTypeOK
  <2> SUFFICES ASSUME LifeIInv PROVE LifeTypeOK
    OBVIOUS
  <2>1. ASSUME NEW x \in made PROVE x.era.period = Period /\ x.era.phase < Period
    <3>1. x.era = Era(x.born) /\ x.born \in Nat
      BY DEF LifeIInv, MadeInv, SoundExtrinsic
    <3>2. x.era.period = Period /\ x.era.phase = x.born % Period
      BY <3>1 DEF Era
    <3>3. Period \in Nat \ {0}
      BY PeriodBounds
    <3>4. x.born \in Int
      BY <3>1
    <3>5. x.born % Period \in 0 .. Period - 1
      BY <3>3, <3>4, DivMod, Zenon
    <3> QED
      BY <3>2, <3>3, <3>5
  <2> QED
    BY <2>1 DEF LifeTypeOK, LifeIInv, ChainInv, CallInv, OnChainInv
<1> QED
  BY <1>1, LifeInvariance, PTL

(* LivesUntilExpired: the era that create_extrinsic picks from the number of *)
(* block hashes lets an extrinsic be included until it expires and never     *)
(* after that, and no nonce is used twice (cli/src/service.rs,               *)
(* create_extrinsic; runtime/src/lib.rs, create_transaction and              *)
(* SignedExtra).                                                            *)
THEOREM ExtrinsicsLiveUntilExpired == LifeSpec => []LivesUntilExpired
<1>1. LifeIInv => LivesUntilExpired
  <2> SUFFICES ASSUME LifeIInv, NEW x \in made
               PROVE  /\ \/ x \in DOMAIN onChain
                         \/ x.raced
                         \/ x.signed # HashOf(x.signed[1])
                         \/ x.version # VersionAt(Best + 1)
                         \/ x.nonce # Nonce
                         \/ Best + 1 >= x.born + Period
                         \/ Includable(x)
                      /\ Includable(x) => Best + 1 < x.born + Period /\ x.signed[1] = x.born
                      /\ \A y \in DOMAIN onChain :
                          x \in DOMAIN onChain /\ x # y => x.nonce # y.nonce
    BY DEF LivesUntilExpired
  <2> DEFINE born == x.born
             current == Best + 1
             birth == Birth(x.era, current)
  <2>1. /\ born \in Nat /\ x.era = Era(born) /\ born <= Best /\ Best \in Nat
        /\ x.signed \in Nat \X Nat /\ x.signed[1] <= born /\ (~x.raced => x.signed[1] = born)
    BY DEF LifeIInv, ChainInv, MadeInv, SoundExtrinsic, Best
  <2>2. /\ birth \in Nat /\ born <= birth /\ current < birth + Period
        /\ current < born + Period => birth = born
    <3>1. current \in Nat /\ born <= current
      BY <2>1
    <3> HIDE DEF current, born
    <3> QED
      BY <2>1, <3>1, EraOf
  <2>3. /\ Period \in Nat /\ BlockHashCount \in Nat /\ Period <= BlockHashCount + 2
    BY PeriodBounds
  <2>4. ASSUME ~x.raced, x.signed = HashOf(x.signed[1]), x.version = VersionAt(Best + 1),
               x.nonce = Nonce, ~ Best + 1 >= x.born + Period
        PROVE  Includable(x)
    <3>1. birth = born /\ HashOf(birth) = x.signed
      BY <2>1, <2>2, <2>3, <2>4
    <3>2. Known(birth, current)
      BY <2>1, <2>2, <2>3, <3>1 DEF Known
    <3> QED
      BY <2>4, <3>1, <3>2 DEF Includable
  <2>5. ASSUME Includable(x)
        PROVE  Best + 1 < x.born + Period /\ x.signed[1] = x.born
    <3>1. Known(birth, current) /\ HashOf(birth) = x.signed
      BY <2>5 DEF Includable
    <3>2. birth \in 0 .. Best
      BY <2>1, <2>2, <2>3, <3>1 DEF Known
    <3> HIDE DEF birth, current
    <3>3. HashOf(birth)[1] = birth
      BY <3>2, HashNumber DEF LifeIInv
    <3>4. x.signed[1] = birth /\ birth = born
      BY <2>1, <2>2, <3>1, <3>3
    <3> QED
      BY <2>2, <3>4 DEF current
  <2>6. ASSUME NEW y \in DOMAIN onChain, x \in DOMAIN onChain, x # y
        PROVE  x.nonce # y.nonce
    <3>1. ASSUME NEW a \in DOMAIN onChain, NEW b \in DOMAIN onChain, onChain[a] < onChain[b]
          PROVE  Cardinality(Below(onChain, a)) < Cardinality(Below(onChain, b))
      <4>1. \A z \in DOMAIN onChain : onChain[z] \in Nat
        BY DEF LifeIInv, OnChainInv
      <4>2. /\ Below(onChain, a) \subseteq Below(onChain, b)
            /\ a \in Below(onChain, b) /\ a \notin Below(onChain, a)
        BY <3>1, <4>1 DEF Below
      <4>3. IsFiniteSet(Below(onChain, b))
        BY FS_Subset DEF LifeIInv, OnChainInv, Below
      <4>4. /\ IsFiniteSet(Below(onChain, a))
            /\ Cardinality(Below(onChain, a)) <= Cardinality(Below(onChain, b))
            /\ Cardinality(Below(onChain, a)) # Cardinality(Below(onChain, b))
        BY <4>2, <4>3, FS_Subset
      <4>5. /\ Cardinality(Below(onChain, a)) \in Nat
            /\ Cardinality(Below(onChain, b)) \in Nat
        BY <4>3, <4>4, FS_CardinalityType
      <4> QED
        BY <4>4, <4>5
    <3>2. /\ x.nonce = Cardinality(Below(onChain, x)) /\ y.nonce = Cardinality(Below(onChain, y))
          /\ onChain[x] # onChain[y] /\ onChain[x] \in 1 .. Best /\ onChain[y] \in 1 .. Best
      BY <2>6 DEF LifeIInv, OnChainInv
    <3>3. /\ IsFiniteSet(Below(onChain, x)) /\ IsFiniteSet(Below(onChain, y))
      BY FS_Subset DEF LifeIInv, OnChainInv, Below
    <3>4. x.nonce \in Nat /\ y.nonce \in Nat
      BY <3>2, <3>3, FS_CardinalityType
    <3>5. CASE onChain[x] < onChain[y]
      BY <2>6, <3>1, <3>2, <3>4, <3>5
    <3>6. CASE onChain[y] < onChain[x]
      BY <2>6, <3>1, <3>2, <3>4, <3>6
    <3> QED
      BY <2>1, <3>2, <3>5, <3>6
  <2> HIDE DEF born, current, birth
  <2> QED
    BY <2>4, <2>5, <2>6
<1> QED
  BY <1>1, LifeInvariance, PTL

-----------------------------------------------------------------------------
(***************************************************************************)
(* The types of the service and of the inspector.                          *)
(***************************************************************************)

Stages == {"shell", "parsed", "loaded", "client", "partial", "network", "tasks",
           "babe", "discovery", "grandpa", "running", "done", "failed"}

NodeTypeInv ==
    /\ cmd \in Commands \cup {"none"} /\ chain \in Chains /\ config \in Configs
    /\ at \in Stages
    /\ tasks \subseteq spawned /\ essential \subseteq spawned /\ ended \subseteq spawned
    /\ network \in {"none", "built", "started"}
    /\ network # "none" => at \notin {"shell", "done", "failed"}
    /\ round \in [Cells -> 0 .. MaxRounds] /\ votingRound \in 0 .. MaxRounds

(* Before the command line is dispatched nothing has been made or spawned. *)
LEMMA NodeTypeInit == NodeInit => NodeTypeInv
<1> SUFFICES ASSUME NodeInit PROVE NodeTypeInv
  OBVIOUS
<1>1. DefaultConfig \in Configs
  BY DEF DefaultConfig, Configs
<1>2. /\ cmd = "none" /\ chain = "" /\ config = DefaultConfig /\ at = "shell"
      /\ tasks = {} /\ essential = {} /\ spawned = {} /\ ended = {} /\ network = "none"
      /\ round = [c \in Cells |-> 0] /\ votingRound = 0
  BY DEF NodeInit
<1>3. 0 \in 0 .. MaxRounds
  BY NodeBounds
<1> QED
  BY <1>1, <1>2, <1>3 DEF NodeTypeInv, Chains, Stages

TasksSpawned ==
    tasks' \subseteq spawned' /\ essential' \subseteq spawned' /\ spawned \subseteq spawned'

(* Spawning adds one task, essential or not, to those that run. *)
LEMMA SpawnSpawns ==
    ASSUME NodeTypeInv, NEW normal, NEW needed, Spawn(normal, needed)
    PROVE  TasksSpawned
BY DEF NodeTypeInv, Spawn, TasksSpawned

(* Every step of the start of a node keeps its handles and tasks in their sets. *)
LEMMA NodeTypeStep == NodeTypeInv /\ [NodeNext]_nodeVars => NodeTypeInv'
<1> SUFFICES ASSUME NodeTypeInv, [NodeNext]_nodeVars PROVE NodeTypeInv'
  OBVIOUS
<1> USE DEF Stages
<1>1. ASSUME NEW how \in {"done", "failed"}, Stop(how) PROVE NodeTypeInv'
  BY <1>1 DEF Stop, NodeTypeInv, voterVars, processVars
<1>2. CASE ParseArgs
  <2>1. DefaultConfig \in Configs
    BY DEF DefaultConfig, Configs
  <2>2. cmd' \in Commands /\ chain' \in Chains /\ config' \in Configs
    BY <1>2, <2>1 DEF ParseArgs
  <2>3. at = "shell" /\ at' = "parsed"
        /\ UNCHANGED <<tasks, essential, spawned, ended, network, round, votingRound>>
    BY <1>2 DEF ParseArgs, Go, taskVars, voterVars
  <2> QED
    BY <2>2, <2>3 DEF NodeTypeInv
<1>0. ASSUME UNCHANGED taskVars PROVE TasksSpawned
  BY <1>0 DEF taskVars, NodeTypeInv, TasksSpawned
<1>3. ASSUME NEW from \in Stages \ {"done", "failed"},
             NEW to \in Stages \ {"shell", "done", "failed"}, Go(from, to),
             UNCHANGED <<cmd, chain, config, ended, round, votingRound>>,
             network' \in {network, "built", "started"},
             TasksSpawned
      PROVE  NodeTypeInv'
  BY <1>3 DEF NodeTypeInv, Go, TasksSpawned
<1>4. CASE Startup
  <2>1. CASE LoadSpec
    <3>1. TasksSpawned
      BY <2>1, <1>0 DEF LoadSpec
    <3> QED
      BY <2>1, <3>1, <1>3 DEF LoadSpec, processVars, voterVars
  <2>2. CASE OpenClient
    <3>1. TasksSpawned
      BY <2>2, SpawnSpawns DEF OpenClient
    <3> QED
      BY <2>2, <3>1, <1>3 DEF OpenClient, processVars, voterVars
  <2>3. CASE LinkConsensus
    <3>1. TasksSpawned
      BY <2>3, SpawnSpawns DEF LinkConsensus
    <3> QED
      BY <2>3, <3>1, <1>3 DEF LinkConsensus, processVars, voterVars
  <2>4. CASE BuildNetwork
    <3>1. TasksSpawned
      BY <2>4, SpawnSpawns DEF BuildNetwork
    <3> QED
      BY <2>4, <3>1, <1>3 DEF BuildNetwork, processVars, voterVars
  <2>5. CASE SpawnTasks
    <3>1. TasksSpawned
      BY <2>5, SpawnSpawns DEF SpawnTasks
    <3> QED
      BY <2>5, <3>1, <1>3 DEF SpawnTasks, processVars, voterVars
  <2>6. CASE StartBabe
    <3>1. TasksSpawned
      BY <2>6, <1>0, SpawnSpawns DEF StartBabe
    <3> QED
      BY <2>6, <3>1, <1>3 DEF StartBabe, processVars, voterVars
  <2>7. CASE StartDiscovery
    <3>1. TasksSpawned
      BY <2>7, <1>0, SpawnSpawns DEF StartDiscovery
    <3> QED
      BY <2>7, <3>1, <1>3 DEF StartDiscovery, processVars, voterVars
  <2>8. CASE StartGrandpa
    <3>1. TasksSpawned
      BY <2>8, <1>0, SpawnSpawns DEF StartGrandpa, SpawnVoter
    <3> QED
      BY <2>8, <3>1, <1>3 DEF StartGrandpa, processVars, voterVars
  <2>9. CASE StartNetwork
    <3>1. TasksSpawned
      BY <2>9, <1>0 DEF StartNetwork
    <3> QED
      BY <2>9, <3>1, <1>3 DEF StartNetwork, processVars, voterVars
  <2> QED
    BY <1>4, <2>1, <2>2, <2>3, <2>4, <2>5, <2>6, <2>7, <2>8, <2>9 DEF Startup
<1>5. ASSUME NEW t \in tasks, TaskEnds(t) PROVE NodeTypeInv'
  BY <1>5 DEF TaskEnds, NodeTypeInv, voterVars, processVars
<1>6. CASE VoterRound
  <2>1. votingRound + 1 \in 0 .. MaxRounds
    BY <1>6, NodeBounds DEF VoterRound, NodeTypeInv
  <2>2. round' \in [Cells -> 0 .. MaxRounds] /\ votingRound' \in 0 .. MaxRounds
    BY <1>6, <2>1 DEF VoterRound, NodeTypeInv
  <2> QED
    BY <1>6, <2>2 DEF VoterRound, NodeTypeInv, taskVars, processVars
<1>7. CASE UNCHANGED nodeVars
  BY <1>7 DEF nodeVars, NodeTypeInv
<1> QED
  BY <1>1, <1>2, <1>4, <1>5, <1>6, <1>7
     DEF NodeNext, RunPlain, NoSpec, RunConfigured, RunPartial, StartFails, Exit, Interrupt

(* NodeTypeOK: in particular no task runs, is essential or has ended that    *)
(* was not spawned, and a process that has not begun or is over has no       *)
(* network (cli/src/service.rs, new_full_base; command.rs, run).             *)
THEOREM NodeTyped == NodeSpec => []NodeTypeOK
<1>1. VoterIInv /\ NodeTypeInv => NodeTypeOK
  <2> SUFFICES ASSUME VoterIInv, NodeTypeInv PROVE NodeTypeOK
    OBVIOUS
  <2>1. cell \in [DOMAIN NoCell -> 0 .. 2]
    <3>1. DOMAIN NoCell = {"builder", "setup", "rpc", "voter"}
      BY DEF NoCell
    <3>2. cell \in [builder : 0 .. 2, setup : 0 .. 2, rpc : 0 .. 2, voter : 0 .. 2]
      BY DEF VoterIInv
    <3>3. cell \in [{"builder", "setup", "rpc", "voter"} -> 0 .. 2]
      BY <3>2
    <3> QED
      BY <3>1, <3>3
  <2> QED
    BY <2>1 DEF NodeTypeOK, NodeTypeInv, Stages
<1> QED
  BY <1>1, VoterInitInv, VoterStepInv, NodeTypeInit, NodeTypeStep, PTL DEF NodeSpec

ShownInv == shown.is \in {"error", "block", "raw_block", "extrinsic", "raw_extrinsic"}

(* InspectTypeOK: no body is kept without its header, and what is shown is a *)
(* block, an extrinsic or an error (inspect/src/lib.rs).                     *)
THEOREM InspectTyped == InspectSpec => []InspectTypeOK
<1>1. ASSUME NEW p PROVE GetBlock(p).is \in {"error", "block", "raw_block"}
  BY DEF GetBlock, GetById, Error, Block, RawBlock
<1>2. ASSUME NEW address, address.is \in {"error", "bytes", "in_block"}
      PROVE  GetExtrinsic(address).is
               \in {"error", "block", "raw_block", "extrinsic", "raw_extrinsic"}
  <2>2. CASE address.is = "error"
    BY <2>2 DEF GetExtrinsic
  <2>3. CASE address.is = "bytes"
    BY <2>3 DEF GetExtrinsic, Error
  <2>4. CASE address.is = "in_block"
    <3>1. GetExtrinsic(address).is \in {GetBlock(address.part).is, "error", "extrinsic"}
      BY <2>4 DEF GetExtrinsic, Error
    <3> QED
      BY <1>1, <3>1
  <2> QED
    BY <1>2, <2>2, <2>3, <2>4
<1>6. ASSUME NEW input
      PROVE  ParseExtrinsic(input).is \in {"error", "bytes", "in_block"}
  BY DEF ParseExtrinsic, Error
<1>3. InspectInit => ShownInv
  BY DEF InspectInit, ShownInv, Error
<1>4. ShownInv /\ [InspectNext]_inspectVars => ShownInv'
  <2> SUFFICES ASSUME ShownInv, [InspectNext]_inspectVars PROVE ShownInv'
    OBVIOUS
  <2>1. \/ UNCHANGED shown
        \/ \E p : shown' = GetBlock(p)
        \/ \E input : shown' = GetExtrinsic(ParseExtrinsic(input))
    BY Zenon DEF InspectNext, Extend, Reorganise, Prune, InspectBlock, InspectExtrinsic,
                 inspectVars
  <2> QED
    BY <1>1, <1>2, <1>6, <2>1 DEF ShownInv
<1>5. InspectIInv /\ ShownInv => InspectTypeOK
  BY DEF InspectIInv, ShownInv, InspectTypeOK
<1> QED
  BY <1>3, <1>4, <1>5, InspectInvariance, PTL DEF InspectSpec

-----------------------------------------------------------------------------
(***************************************************************************)
(* GenesisBuilds for whatever accounts and authorities a genesis is made   *)
(* of, within the limits of the pallets, and with that for every chain     *)
(* the node knows by name.                                                 *)
(***************************************************************************)

AccountsOf(names) == names \X {"", "stash"}
AuthoritiesOf(names) == {AuthorityOf(name) : name \in names}

(* What the loop over the authorities does for one of them. *)
Pushed(list, a) == IF a.stash \in ToSet(list) THEN list ELSE Append(list, a.stash)

(* Endow goes through the authorities one after the other. *)
LEMMA EndowSteps ==
    ASSUME NEW names, NEW given \in Seq(AccountsOf(names)),
           NEW authorities \in Seq(AuthoritiesOf(names))
    PROVE  \E f \in [0 .. Len(authorities) -> Seq(AccountsOf(names))] :
             /\ f[0] = given
             /\ \A k \in 0 .. Len(authorities) - 1 : f[k + 1] = Pushed(f[k], authorities[k + 1])
             /\ Endow(given, authorities) = f[Len(authorities)]
<1> DEFINE T == Seq(AccountsOf(names))
    E == AuthoritiesOf(names)
    s == authorities
    step == [p \in T \X E |-> Pushed(p[1], p[2])]
    Is(g) == g = [x \in SUBSET DOMAIN s |->
                    IF x = {} THEN given
                    ELSE Pushed(g[x \ {CHOOSE m \in x : \A y \in x : m >= y}],
                                s[CHOOSE m \in x : \A y \in x : m >= y])]
    fold == CHOOSE g : Is(g)
<1>0. Len(s) \in Nat /\ DOMAIN s = 1 .. Len(s) /\ given \in T /\ s \in Seq(E)
  OBVIOUS
<1>1. step \in [T \X E -> T]
  <2> SUFFICES ASSUME NEW list \in T, NEW a \in E PROVE Pushed(list, a) \in T
    OBVIOUS
  <2>1. PICK name \in names : a = AuthorityOf(name)
    BY DEF AuthoritiesOf
  <2>2. a.stash \in AccountsOf(names)
    BY <2>1 DEF AuthorityOf, StashOf, AccountsOf
  <2> QED
    BY <2>2, AppendProperties DEF Pushed
<1>2. ASSUME NEW list \in T, NEW a \in E PROVE step[<<list, a>>] = Pushed(list, a)
  OBVIOUS
<1> HIDE DEF T, E, step
<1>3. ASSUME NEW g, NEW x \in SUBSET (1 .. Len(s)), x # {}, g[x \ {LastOf(x)}] \in T
      PROVE  step[<<g[x \ {LastOf(x)}], s[LastOf(x)]>>]
               = Pushed(g[x \ {LastOf(x)}], s[LastOf(x)])
  <2>1. LastOf(x) \in 1 .. Len(s)
    BY <1>0, <1>3, LastIn
  <2>2. s[LastOf(x)] \in E
    BY <1>0, <2>1
  <2> QED
    BY <2>2, <1>2, <1>3
<1>4. PICK g \in [SUBSET (1 .. Len(s)) -> T] : FoldedBy(g, step, given, s)
  BY <1>0, <1>1, FoldExists, Zenon
<1>5. Is(g)
  <2>1. ASSUME NEW x \in SUBSET (1 .. Len(s)), x # {}
        PROVE  g[x] = Pushed(g[x \ {LastOf(x)}], s[LastOf(x)])
    <3>1. g[x \ {LastOf(x)}] \in T
      OBVIOUS
    <3> QED
      BY <1>3, <1>4, <2>1, <3>1 DEF FoldedBy
  <2>2. g = [x \in SUBSET (1 .. Len(s)) |->
               IF x = {} THEN given ELSE Pushed(g[x \ {LastOf(x)}], s[LastOf(x)])]
    BY <1>4, <2>1 DEF FoldedBy
  <2> QED
    BY <2>2, <1>0 DEF LastOf
<1>6. Is(fold)
  <2> HIDE DEF Is
  <2> QED
    BY <1>5
<1>7. Endow(given, s) = fold[DOMAIN s]
  BY DEF Endow, FoldLeft, MapThenFoldSet, Max, Pushed
<1> HIDE DEF fold
<1>8. \A x \in SUBSET (1 .. Len(s)) :
        fold[x] = IF x = {} THEN given ELSE Pushed(fold[x \ {LastOf(x)}], s[LastOf(x)])
  BY <1>6, <1>0 DEF LastOf
<1>9. PICK f \in [0 .. Len(s) -> T] :
        Follows(f, step, given, s) /\ f[Len(s)] = fold[1 .. Len(s)]
  <2>1. Unfolds(fold, T, step, given, s)
    BY <1>3, <1>8 DEF Unfolds
  <2>2. Reached(fold, T, step, given, s)
    BY <1>0, <1>1, <2>1, FoldSteps, Zenon
  <2> QED
    BY <2>2 DEF Reached
<1>10. ASSUME NEW k \in 0 .. Len(s) - 1 PROVE f[k + 1] = Pushed(f[k], s[k + 1])
  <2>1. k \in 0 .. Len(s) /\ k + 1 \in 1 .. Len(s)
    BY <1>0
  <2>2. f[k] \in T /\ s[k + 1] \in E
    BY <1>0, <2>1
  <2> QED
    BY <1>2, <1>9, <2>2 DEF Follows
<1> QED
  BY <1>0, <1>7, <1>9, <1>10 DEF T, Follows

Distinct(s) == \A i, j \in DOMAIN s : s[i] = s[j] => i = j

(* Nobody is endowed twice, who is endowed by name stays so, and every       *)
(* authority has its stash endowed.                                         *)
LEMMA EndowedOnce ==
    ASSUME NEW names, NEW given \in Seq(AccountsOf(names)),
           NEW authorities \in Seq(AuthoritiesOf(names)), Distinct(given)
    PROVE  LET endowed == Endow(given, authorities)
           IN  /\ endowed \in Seq(AccountsOf(names)) /\ Distinct(endowed)
               /\ ToSet(given) \subseteq ToSet(endowed)
               /\ \A i \in DOMAIN authorities : authorities[i].stash \in ToSet(endowed)
               /\ Len(given) <= Len(endowed)
               /\ Len(endowed) <= Len(given) + Len(authorities)
<1> DEFINE A == AccountsOf(names)
           n == Len(authorities)
<1>0. n \in Nat /\ DOMAIN authorities = 1 .. n /\ Len(given) \in Nat
  OBVIOUS
<1>1. PICK f \in [0 .. n -> Seq(A)] :
        /\ f[0] = given
        /\ \A k \in 0 .. n - 1 : f[k + 1] = Pushed(f[k], authorities[k + 1])
        /\ Endow(given, authorities) = f[n]
  BY EndowSteps
<1> HIDE DEF n, A
<1> DEFINE Good(k, list) ==
             /\ list \in Seq(A) /\ Distinct(list) /\ ToSet(given) \subseteq ToSet(list)
             /\ \A i \in 1 .. k : authorities[i].stash \in ToSet(list)
             /\ Len(given) <= Len(list) /\ Len(list) <= Len(given) + k
           S == {k \in 0 .. n : Good(k, f[k])}
<1>2. 0 \in S
  <2>1. given \in Seq(A) /\ 0 \in 0 .. n
    BY <1>0 DEF A
  <2> QED
    BY <1>0, <1>1, <2>1
<1>3. ASSUME NEW k \in 0 .. n - 1, k \in S PROVE k + 1 \in S
  <2>1. k \in 0 .. n /\ k \in Nat /\ k + 1 \in 0 .. n /\ 1 .. k + 1 = (1 .. k) \cup {k + 1}
    BY <1>0
  <2> DEFINE list == f[k]
             stash == authorities[k + 1].stash
             next == f[k + 1]
  <2>2. Good(k, list)
    BY <1>3
  <2>3. next = IF stash \in ToSet(list) THEN list ELSE Append(list, stash)
    BY <1>1 DEF Pushed
  <2>4. next \in Seq(A)
    BY <1>1, <2>1
  <2> HIDE DEF next, list
  <2>5. Len(list) \in Nat /\ DOMAIN list = 1 .. Len(list)
    BY <2>2
  <2>6. CASE stash \in ToSet(list)
    <3>1. next = list
      BY <2>3, <2>6
    <3>2. \A i \in 1 .. k + 1 : authorities[i].stash \in ToSet(list)
      BY <2>1, <2>2, <2>6
    <3>3. Len(list) <= Len(given) + (k + 1)
      BY <1>0, <2>1, <2>2, <2>5
    <3>4. Good(k + 1, list)
      BY <2>2, <3>2, <3>3
    <3> QED
      BY <2>1, <3>1, <3>4 DEF next
  <2>7. CASE stash \notin ToSet(list)
    <3>1. next = Append(list, stash)
      BY <2>3, <2>7
    <3>2. /\ Len(next) = Len(list) + 1 /\ DOMAIN next = 1 .. Len(list) + 1
          /\ next[Len(list) + 1] = stash
          /\ \A i \in 1 .. Len(list) : next[i] = list[i]
      BY <2>2, <3>1
    <3>3. ToSet(next) = ToSet(list) \cup {stash}
      <4> DEFINE last == Len(list) + 1
      <4>1. 1 .. last = (1 .. Len(list)) \cup {last}
        BY <2>5
      <4> HIDE DEF last
      <4>2. DOMAIN next = (1 .. Len(list)) \cup {last} /\ next[last] = stash
        BY <3>2, <4>1 DEF last
      <4> HIDE DEF stash
      <4>3. \A i \in 1 .. Len(list) : next[i] = list[i]
        BY <3>2
      <4>4. ASSUME NEW v PROVE v \in ToSet(next) <=> v \in ToSet(list) \/ v = stash
        <5>1. v \in ToSet(next) <=> \E i \in (1 .. Len(list)) \cup {last} : v = next[i]
          BY <4>2 DEF ToSet
        <5>2. v \in ToSet(list) <=> \E i \in 1 .. Len(list) : v = list[i]
          BY <2>5 DEF ToSet
        <5> QED
          BY <4>2, <4>3, <5>1, <5>2
      <4> QED
        BY <4>4
    <3>4. Distinct(next)
      <4>1. \A i \in 1 .. Len(list) : list[i] # stash
        BY <2>5, <2>7 DEF ToSet
      <4> QED
        BY <2>2, <2>5, <3>2, <4>1 DEF Distinct
    <3>5. Good(k + 1, next)
      BY <1>0, <2>1, <2>2, <2>4, <2>5, <3>2, <3>3, <3>4
    <3> QED
      BY <2>1, <3>5 DEF next
  <2> QED
    BY <2>6, <2>7
<1>4. S = 0 .. n
  <2>1. S \in SUBSET (0 .. n)
    OBVIOUS
  <2> HIDE DEF S
  <2> QED
    BY <1>0, <1>2, <1>3, <2>1, AllOf
<1>5. Good(n, f[n])
  <2>1. n \in S
    <3> HIDE DEF S
    <3> QED
      BY <1>0, <1>4
  <2> QED
    BY <2>1
<1> QED
  BY <1>0, <1>1, <1>5 DEF A, n

(* A testnet genesis builds, if nobody is endowed twice by name, somebody    *)
(* validates, the root key is endowed by name, and half of the endowed fit   *)
(* into the bodies.                                                          *)
LEMMA TestnetBuilds ==
    ASSUME NEW names, NEW given \in Seq(AccountsOf(names)),
           NEW authorities \in Seq(AuthoritiesOf(names)), NEW rootKey \in ToSet(given),
           Distinct(given), authorities # <<>>,
           Len(given) + Len(authorities) <= 2 * DesiredMembers
    PROVE  LET g == TestnetGenesis(authorities, rootKey, given)
           IN  Builds(g) /\ Governable(g)
<1> DEFINE g == TestnetGenesis(authorities, rootKey, given)
           endowed == Endow(given, authorities)
           half == (Len(endowed) + 1) \div 2
           members == FirstHalf(endowed)
           n == Len(authorities)
<1>1. /\ endowed \in Seq(AccountsOf(names)) /\ Distinct(endowed)
      /\ ToSet(given) \subseteq ToSet(endowed)
      /\ \A i \in DOMAIN authorities : authorities[i].stash \in ToSet(endowed)
      /\ Len(given) <= Len(endowed)
      /\ Len(endowed) <= Len(given) + Len(authorities)
  BY EndowedOnce
<1> HIDE DEF endowed
<1>2. /\ Len(given) \in Nat /\ Len(given) > 0 /\ n \in Nat /\ n > 0
      /\ DOMAIN authorities = 1 .. n
      /\ Len(endowed) \in Nat /\ DOMAIN endowed = 1 .. Len(endowed)
  BY <1>1 DEF ToSet
<1>3. half \in Nat /\ half >= 1 /\ half <= 13 /\ half <= Len(endowed)
  BY <1>1, <1>2 DEF DesiredMembers
<1> HIDE DEF half
<1>4. /\ members \in Seq(AccountsOf(names)) /\ Len(members) = half
      /\ \A i \in 1 .. half : members[i] = endowed[i]
  <2>1. members = SubSeq(endowed, 1, half)
    BY DEF FirstHalf, half
  <2>2. \A i \in 1 .. half : endowed[i] \in AccountsOf(names)
    BY <1>1, <1>2, <1>3
  <2> HIDE DEF members
  <2>3. 1 \in Int /\ half \in Int /\ half - 1 + 1 = half /\ \A i \in Int : 1 + i - 1 = i
    BY <1>3
  <2>4. /\ members \in Seq(AccountsOf(names))
        /\ Len(members) = IF 1 <= half THEN half - 1 + 1 ELSE 0
        /\ \A i \in 1 .. half - 1 + 1 : members[i] = endowed[1 + i - 1]
    BY <2>1, <2>2, <2>3, SubSeqProperties
  <2> QED
    BY <1>3, <2>3, <2>4
<1>5. DOMAIN members = 1 .. half
  <2> HIDE DEF members
  <2> QED
    BY <1>3, <1>4, LenProperties
<1> HIDE DEF members
<1>6. /\ g.balances = [i \in DOMAIN endowed |-> <<endowed[i], ENDOWMENT>>]
      /\ g.keys = [i \in 1 .. n |-> <<authorities[i].stash, authorities[i].keys>>]
      /\ g.stakers = [i \in 1 .. n |->
                        <<authorities[i].stash, authorities[i].controller, STASH>>]
      /\ g.validatorCount = n
      /\ g.elections = [i \in DOMAIN members |-> <<members[i], STASH>>]
      /\ g.technicalCommittee = members /\ g.sudo = rootKey
  BY <1>2 DEF TestnetGenesis, endowed, members
<1> HIDE DEF g
<1>7. ENDOWMENT \in Nat /\ STASH \in Nat /\ ENDOWMENT >= STASH
  BY DEF ENDOWMENT, STASH
<1> DEFINE Bonded(account) == \E b \in ToSet(g.balances) : b[1] = account /\ b[2] >= STASH
<1>8. ASSUME NEW account \in ToSet(endowed) PROVE Bonded(account)
  <2>1. PICK i \in DOMAIN endowed : account = endowed[i]
    BY DEF ToSet
  <2>2. <<endowed[i], ENDOWMENT>> \in ToSet(g.balances)
    BY <1>6 DEF ToSet
  <2>3. <<endowed[i], ENDOWMENT>>[1] = account /\ <<endowed[i], ENDOWMENT>>[2] >= STASH
    BY <2>1, <1>7
  <2> QED
    BY <2>2, <2>3
<1>9. \A i, j \in DOMAIN g.balances : g.balances[i][1] = g.balances[j][1] => i = j
  BY <1>1, <1>6 DEF Distinct
<1>10. \A s \in ToSet(g.stakers) : \E b \in ToSet(g.balances) : b[1] = s[1] /\ b[2] >= s[3]
  <2> SUFFICES ASSUME NEW i \in 1 .. n PROVE Bonded(authorities[i].stash)
    BY <1>6 DEF ToSet
  <2>1. authorities[i].stash \in ToSet(endowed)
    BY <1>1, <1>2
  <2> QED
    BY <2>1, <1>8
<1>11. \A m \in ToSet(g.elections) : \E b \in ToSet(g.balances) : b[1] = m[1] /\ b[2] >= m[2]
  <2> SUFFICES ASSUME NEW m \in ToSet(g.elections)
               PROVE  \E b \in ToSet(g.balances) : b[1] = m[1] /\ b[2] >= m[2]
    OBVIOUS
  <2>1. PICK i \in 1 .. half : m = <<members[i], STASH>>
    BY <1>5, <1>6 DEF ToSet
  <2>2. m[1] = members[i] /\ m[2] = STASH
    BY <2>1
  <2>3. members[i] \in ToSet(endowed)
    BY <1>2, <1>3, <1>4 DEF ToSet
  <2>4. Bonded(members[i])
    BY <2>3, <1>8
  <2> QED
    BY <2>2, <2>4
<1> DEFINE Once == \A i, j \in 1 .. half : members[i] = members[j] => i = j
<1>12. Once
  <2> SUFFICES ASSUME NEW i \in 1 .. half, NEW j \in 1 .. half, members[i] = members[j]
               PROVE  i = j
    OBVIOUS
  <2>1. i \in DOMAIN endowed /\ j \in DOMAIN endowed /\ endowed[i] = endowed[j]
    BY <1>2, <1>3, <1>4
  <2> QED
    BY <1>1, <2>1 DEF Distinct
<1>13. Firsts(g.stakers) = Firsts(g.keys)
  <2>1. Firsts(g.stakers) = {authorities[i].stash : i \in 1 .. n}
    BY <1>6 DEF Firsts
  <2>2. Firsts(g.keys) = {authorities[i].stash : i \in 1 .. n}
    BY <1>6 DEF Firsts
  <2> QED
    BY <2>1, <2>2
<1>14. Len(g.stakers) >= g.validatorCount /\ g.validatorCount > 0
  BY <1>2, <1>6
<1>15. Len(g.elections) \in 1 .. DesiredMembers /\ IsInjective(g.elections)
  <2>1. Len(g.elections) = half
    BY <1>3, <1>5, <1>6
  <2>2. ASSUME NEW i \in 1 .. half, NEW j \in 1 .. half, g.elections[i] = g.elections[j]
        PROVE  i = j
    <3>1. <<members[i], STASH>>[1] = <<members[j], STASH>>[1]
      BY <1>5, <1>6, <2>2
    <3> QED
      BY <1>12, <3>1
  <2>3. IsInjective(g.elections)
    BY <1>5, <1>6, <2>2 DEF IsInjective
  <2> QED
    BY <1>3, <2>1, <2>3 DEF DesiredMembers
<1>16. Len(g.technicalCommittee) <= TechnicalMaxMembers /\ IsInjective(g.technicalCommittee)
  <2>1. IsInjective(members)
    BY <1>5, <1>12 DEF IsInjective
  <2> QED
    BY <1>3, <1>4, <1>6, <2>1 DEF TechnicalMaxMembers
<1>17. Governable(g)
  <2>1. PICK i \in DOMAIN endowed : rootKey = endowed[i]
    BY <1>1 DEF ToSet
  <2>2. i \in DOMAIN g.balances /\ g.balances[i][1] = rootKey
    BY <1>6, <2>1
  <2> QED
    BY <1>6, <2>2 DEF Governable, Firsts
<1>18. Builds(g)
  BY <1>9, <1>10, <1>11, <1>13, <1>14, <1>15, <1>16 DEF Builds
<1> QED
  BY <1>17, <1>18 DEF g

(* A function on 1 .. n has length n as a list.                              *)
LEMMA ListOf ==
    ASSUME NEW S, NEW n \in Nat, NEW f \in [1 .. n -> S]
    PROVE  f \in Seq(S) /\ Len(f) = n
<1>1. f \in Seq(S)
  BY SequenceOf
<1>2. Len(f) \in Nat /\ DOMAIN f = 1 .. Len(f) /\ DOMAIN f = 1 .. n
  BY <1>1, LenProperties
<1>3. n \in 1 .. n <=> n > 0
  OBVIOUS
<1>4. Len(f) = n
  BY <1>2
<1> QED
  BY <1>1, <1>4

(* The genesis of each chain that the node knows by name (chain_spec.rs,     *)
(* development_config, local_testnet_config and staging_testnet_config).     *)
LEMMA KnownChainsBuild ==
    ASSUME NEW id \in Ids
    PROVE  Builds(Genesis(id)) /\ Governable(Genesis(id))
<1> DEFINE names == {"Alice", "Bob", "Charlie", "Dave", "Eve", "Ferdie"}
<1>1. /\ DefaultEndowed \in Seq(AccountsOf(names)) /\ Len(DefaultEndowed) = 12
      /\ Distinct(DefaultEndowed) /\ AccountOf("Alice") \in ToSet(DefaultEndowed)
  <2> DEFINE plain == [i \in 1 .. 6 |-> AccountOf(Seeds[i])]
             stashes == [i \in 1 .. 6 |-> StashOf(Seeds[i])]
  <2>1. /\ \A i \in 1 .. 6 : Seeds[i] \in names
        /\ \A i, j \in 1 .. 6 : Seeds[i] = Seeds[j] => i = j
        /\ Seeds[1] = "Alice"
    BY DEF Seeds
  <2>2. /\ \A i \in 1 .. 6 : plain[i] = <<Seeds[i], "">> /\ stashes[i] = <<Seeds[i], "stash">>
        /\ \A i \in 1 .. 6 : plain[i] \in AccountsOf(names) /\ stashes[i] \in AccountsOf(names)
    <3> HIDE DEF names
    <3> QED
      BY <2>1 DEF AccountOf, StashOf, AccountsOf
  <2>3. plain \in Seq(AccountsOf(names)) /\ stashes \in Seq(AccountsOf(names))
        /\ Len(plain) = 6 /\ Len(stashes) = 6
    <3>1. plain \in [1 .. 6 -> AccountsOf(names)] /\ stashes \in [1 .. 6 -> AccountsOf(names)]
      BY <2>2
    <3>2. 6 \in Nat
      OBVIOUS
    <3> HIDE DEF plain, stashes, names
    <3> QED
      BY <3>1, <3>2, ListOf
  <2>4. DefaultEndowed = plain \o stashes
    BY DEF DefaultEndowed
  <2> HIDE DEF plain, stashes, names
  <2>5. /\ DefaultEndowed \in Seq(AccountsOf(names)) /\ Len(DefaultEndowed) = 12
        /\ \A i \in 1 .. 12 :
             DefaultEndowed[i] = IF i <= 6 THEN plain[i] ELSE stashes[i - 6]
    <3>1. /\ plain \o stashes \in Seq(AccountsOf(names))
          /\ Len(plain \o stashes) = Len(plain) + Len(stashes)
          /\ \A i \in 1 .. Len(plain) + Len(stashes) :
               (plain \o stashes)[i]
                 = IF i <= Len(plain) THEN plain[i] ELSE stashes[i - Len(plain)]
      BY <2>3, ConcatProperties
    <3> QED
      BY <2>3, <2>4, <3>1
  <2>6. DOMAIN DefaultEndowed = 1 .. 12
    BY <2>5, LenProperties
  <2>7. ASSUME NEW i \in 1 .. 12, NEW j \in 1 .. 12, DefaultEndowed[i] = DefaultEndowed[j]
        PROVE  i = j
    <3>1. CASE i <= 6 /\ j <= 6
      <4>0. i \in 1 .. 6 /\ j \in 1 .. 6
        BY <3>1
      <4>3. DefaultEndowed[i] = plain[i]
        BY <2>5, <3>1
      <4>4. DefaultEndowed[j] = plain[j]
        BY <2>5, <3>1
      <4>1. plain[i] = plain[j] /\ i \in 1 .. 6 /\ j \in 1 .. 6
        BY <2>7, <4>0, <4>3, <4>4
      <4>2. <<Seeds[i], "">>[1] = <<Seeds[j], "">>[1]
        BY <4>1, <2>2
      <4> QED
        BY <4>1, <4>2, <2>1
    <3>2. CASE i > 6 /\ j > 6
      <4>1. PICK k \in 1 .. 6 : k = i - 6
        BY <3>2
      <4>2. PICK l \in 1 .. 6 : l = j - 6
        BY <3>2
      <4>3. stashes[k] = stashes[l]
        <5>1. DefaultEndowed[i] = stashes[i - 6]
          BY <2>5, <3>2
        <5>2. DefaultEndowed[j] = stashes[j - 6]
          BY <2>5, <3>2
        <5> QED
          BY <2>7, <4>1, <4>2, <5>1, <5>2
      <4>4. <<Seeds[k], "stash">>[1] = <<Seeds[l], "stash">>[1]
        BY <4>3, <2>2
      <4>5. k = l
        BY <4>4, <2>1
      <4> QED
        BY <4>1, <4>2, <4>5
    <3>3. CASE i <= 6 /\ j > 6
      <4>1. PICK l \in 1 .. 6 : l = j - 6
        BY <3>3
      <4>2. plain[i] = stashes[l] /\ i \in 1 .. 6
        <5>1. DefaultEndowed[i] = plain[i]
          BY <2>5, <3>3
        <5>2. DefaultEndowed[j] = stashes[j - 6]
          BY <2>5, <3>3
        <5>3. i \in 1 .. 6
          BY <3>3
        <5> QED
          BY <2>7, <4>1, <5>1, <5>2, <5>3
      <4>3. <<Seeds[i], "">>[2] = <<Seeds[l], "stash">>[2]
        BY <2>2, <4>2
      <4> QED
        BY <4>3
    <3>4. CASE i > 6 /\ j <= 6
      <4>1. PICK k \in 1 .. 6 : k = i - 6
        BY <3>4
      <4>2. plain[j] = stashes[k] /\ j \in 1 .. 6
        <5>1. DefaultEndowed[i] = stashes[i - 6]
          BY <2>5, <3>4
        <5>2. DefaultEndowed[j] = plain[j]
          BY <2>5, <3>4
        <5>3. j \in 1 .. 6
          BY <3>4
        <5> QED
          BY <2>7, <4>1, <5>1, <5>2, <5>3
      <4>3. <<Seeds[j], "">>[2] = <<Seeds[k], "stash">>[2]
        BY <2>2, <4>2
      <4> QED
        BY <4>3
    <3> QED
      BY <3>1, <3>2, <3>3, <3>4
  <2>8. AccountOf("Alice") \in ToSet(DefaultEndowed)
    <3>1. 1 \in 1 .. 6 /\ 1 \in 1 .. 12
      OBVIOUS
    <3>2. DefaultEndowed[1] = plain[1]
      BY <2>5, <3>1
    <3>3. plain[1] = <<Seeds[1], "">>
      BY <2>2, <3>1
    <3>4. DefaultEndowed[1] = AccountOf("Alice") /\ 1 \in DOMAIN DefaultEndowed
      BY <2>1, <2>6, <3>2, <3>3, <3>1 DEF AccountOf
    <3> QED
      BY <3>4 DEF ToSet
  <2> QED
    BY <2>5, <2>6, <2>7, <2>8 DEF Distinct
<1> HIDE DEF names
<1>2. "Alice" \in names /\ "Bob" \in names
  BY DEF names
<1>3. Builds(DevelopmentGenesis) /\ Governable(DevelopmentGenesis)
  <2> DEFINE authorities == <<AuthorityOf("Alice")>>
  <2>1. authorities \in Seq(AuthoritiesOf(names)) /\ Len(authorities) = 1 /\ authorities # <<>>
    BY <1>2 DEF AuthoritiesOf
  <2>2. DevelopmentGenesis = TestnetGenesis(authorities, AccountOf("Alice"), DefaultEndowed)
    BY DEF DevelopmentGenesis
  <2> HIDE DEF authorities
  <2>3. Len(DefaultEndowed) + Len(authorities) <= 2 * DesiredMembers
    BY <1>1, <2>1 DEF DesiredMembers
  <2> QED
    BY <1>1, <2>1, <2>2, <2>3, TestnetBuilds
<1>4. Builds(LocalTestnetGenesis) /\ Governable(LocalTestnetGenesis)
  <2> DEFINE authorities == <<AuthorityOf("Alice"), AuthorityOf("Bob")>>
  <2>1. authorities \in Seq(AuthoritiesOf(names)) /\ Len(authorities) = 2 /\ authorities # <<>>
    BY <1>2 DEF AuthoritiesOf
  <2>2. LocalTestnetGenesis = TestnetGenesis(authorities, AccountOf("Alice"), DefaultEndowed)
    BY DEF LocalTestnetGenesis
  <2> HIDE DEF authorities
  <2>3. Len(DefaultEndowed) + Len(authorities) <= 2 * DesiredMembers
    BY <1>1, <2>1 DEF DesiredMembers
  <2> QED
    BY <1>1, <2>1, <2>2, <2>3, TestnetBuilds
<1>5. Builds(StagingGenesis) /\ Governable(StagingGenesis)
  <2> DEFINE fir == <<"fir/1", "fir/2", "fir/3", "fir/4">>
             firs == {"fir/1", "fir/2", "fir/3", "fir/4", "fir/root"}
             authorities == [i \in 1 .. 4 |-> AuthorityOf(fir[i])]
             given == <<AccountOf("fir/root")>>
  <2>1. \A i \in 1 .. 4 : fir[i] \in firs
    OBVIOUS
  <2>2. StagingGenesis = TestnetGenesis(authorities, AccountOf("fir/root"), given)
    BY DEF StagingGenesis
  <2>3. "fir/root" \in firs
    OBVIOUS
  <2> HIDE DEF fir, firs
  <2>4. authorities \in [1 .. 4 -> AuthoritiesOf(firs)]
    BY <2>1 DEF AuthoritiesOf
  <2>5. given \in Seq(AccountsOf(firs)) /\ Len(given) = 1 /\ Distinct(given)
        /\ AccountOf("fir/root") \in ToSet(given)
    <3>1. AccountOf("fir/root") \in AccountsOf(firs)
      BY <2>3 DEF AccountOf, AccountsOf
    <3>2. Len(given) = 1 /\ DOMAIN given = {1} /\ given[1] = AccountOf("fir/root")
      OBVIOUS
    <3>3. given \in Seq(AccountsOf(firs))
      BY <3>1
    <3> HIDE DEF given
    <3> QED
      BY <3>2, <3>3 DEF ToSet, Distinct
  <2> HIDE DEF authorities, given
  <2>6. authorities \in Seq(AuthoritiesOf(firs)) /\ Len(authorities) = 4 /\ authorities # <<>>
    <3>1. 4 \in Nat
      OBVIOUS
    <3>2. authorities \in Seq(AuthoritiesOf(firs)) /\ Len(authorities) = 4
      BY <2>4, <3>1, ListOf
    <3>3. Len(<<>>) = 0
      OBVIOUS
    <3> QED
      BY <3>2, <3>3
  <2>7. Len(given) + Len(authorities) <= 2 * DesiredMembers
    BY <2>5, <2>6 DEF DesiredMembers
  <2> QED
    BY <2>2, <2>5, <2>6, <2>7, TestnetBuilds
<1> QED
  BY <1>3, <1>4, <1>5 DEF Ids, Genesis

(* GenesisBuilds: no pallet refuses the genesis of a chain that the node     *)
(* knows by name, and its sudo key can pay (chain_spec.rs, testnet_genesis). *)
THEOREM EveryGenesisBuilds == NodeSpec => []GenesisBuilds
<1>1. GenesisBuilds
  BY KnownChainsBuild DEF GenesisBuilds
<1> QED
  BY <1>1, PTL

-----------------------------------------------------------------------------
(***************************************************************************)
(* TypesOK for the whole instance.  A behaviour of the instance is one of  *)
(* every program, since a step moves one and leaves the variables of the   *)
(* others alone.                                                           *)
(***************************************************************************)

(* Each program alone: its behaviours are those of its own specification.    *)
LEMMA ProgramsAlone ==
    MCSpec => /\ NodeSpec /\ InspectSpec /\ LifeSpec /\ StoreSpec /\ SetupSpec /\ BenchSpec
              /\ ButtonSpec
<1>1. MCInit => /\ NodeInit /\ InspectInit /\ LifeInit /\ StoreInit /\ SetupInit /\ BenchInit
                /\ ButtonInit
  BY DEF MCInit
<1>2. [MCNext]_allVars =>
        /\ [NodeNext]_nodeVars /\ [InspectNext]_inspectVars /\ [LifeNext]_lifeVars
        /\ [StoreNext]_storeVars /\ [SetupNext]_setupVars /\ [BenchNext]_benchVars
        /\ [ButtonNext]_buttonVars
  BY DEF MCNext, allVars
<1> QED
  BY <1>1, <1>2, PTL
    DEF MCSpec, NodeSpec, InspectSpec, LifeSpec, StoreSpec, SetupSpec, BenchSpec, ButtonSpec

(* TypesOK of MCNode: the type invariants of the service, the inspector, the *)
(* extrinsics and the benchmarks together (src/votechain/cli, inspect,       *)
(* bench).                                                                   *)
THEOREM NodeTypesOK == MCSpec => []TypesOK
<1>1. MCSpec => /\ []NodeTypeOK /\ []InspectTypeOK /\ []LifeTypeOK
                /\ []StoreTypeOK /\ []SetupTypeOK /\ []BenchTypeOK
  BY ProgramsAlone, NodeTyped, InspectTyped, LifeTyped, StoreTyped, SetupTyped, BenchTyped
<1>2. /\ NodeTypeOK /\ InspectTypeOK /\ LifeTypeOK
      /\ StoreTypeOK /\ SetupTypeOK /\ BenchTypeOK
      => TypesOK
  BY DEF TypesOK
<1> QED
  BY <1>1, <1>2, PTL

(* The safety invariants of the programs around the node, all of them in     *)
(* every state of the instance: known chains build and can be governed, RPC  *)
(* and voter share their state, extrinsics live until they expire, databases *)
(* hold the trie, set ups are sound, averages are those of the runs in the   *)
(* middle, runs are independent, and the button of the client holds its      *)
(* subscription and shows its last click unless one overtook another         *)
(* (src/votechain/cli, bench; src/client, TxButton.js).                      *)
THEOREM NodeSafe ==
    MCSpec => /\ []GenesisBuilds /\ []RpcSeesVoter /\ []LivesUntilExpired
              /\ []DatabasesAgree /\ []SetupSound /\ []AveragesHold /\ []RunsIndependent
              /\ []OpenSubscriptionHeld /\ []StatusOfLastClick
BY ProgramsAlone, EveryGenesisBuilds, RpcAndVoterAgree, ExtrinsicsLiveUntilExpired,
   BothDatabasesHoldTheTrie, SetupIsSound, AveragesAlwaysHold, RunsAreIndependent,
   TxSubscriptionHeld, TxStatusIsLast
=============================================================================
