------------------------------ MODULE ChainSpec ------------------------------
(***************************************************************************)
(* chain_spec.rs: the chains the node knows by name, and the genesis that  *)
(* testnet_genesis makes of their authorities.                             *)
(*                                                                         *)
(* An account is a seed and a derivation; keys are named by their seed.    *)
(* Amounts are in DOLLARS.  Every caller of testnet_genesis passes an      *)
(* empty list of nominators, so that only validators stake.                *)
(***************************************************************************)
EXTENDS Integers, Sequences, SequencesExt

ENDOWMENT == 10000000
STASH == ENDOWMENT \div 1000

(* Limits of the pallets that build the genesis. *)
DesiredMembers == 13
TechnicalMaxMembers == 100

-----------------------------------------------------------------------------
Seeds == <<"Alice", "Bob", "Charlie", "Dave", "Eve", "Ferdie">>

AccountOf(seed) == <<seed, "">>
StashOf(seed) == <<seed, "stash">>

AuthorityOf(seed) ==
    [stash |-> StashOf(seed), controller |-> AccountOf(seed), keys |-> seed]

DefaultEndowed ==
    [i \in 1 .. 6 |-> AccountOf(Seeds[i])] \o [i \in 1 .. 6 |-> StashOf(Seeds[i])]

(* Mutant: an account that is endowed already is endowed again. *)
EndowAgain(endowed, authorities) ==
    endowed \o [i \in DOMAIN authorities |-> authorities[i].stash]

Endow(endowed, authorities) ==
    LET push(list, a) == IF a.stash \in ToSet(list) THEN list ELSE Append(list, a.stash)
    IN  FoldLeft(push, endowed, authorities)

(* The half of the endowed accounts that sits in every body. *)
FirstHalf(endowed) == SubSeq(endowed, 1, (Len(endowed) + 1) \div 2)

TestnetGenesis(authorities, rootKey, given) ==
    LET endowed == Endow(given, authorities)
        members == FirstHalf(endowed)
    IN  [balances  |-> [i \in DOMAIN endowed |-> <<endowed[i], ENDOWMENT>>],
         keys      |-> [i \in DOMAIN authorities |-> <<authorities[i].stash, authorities[i].keys>>],
         stakers   |-> [i \in DOMAIN authorities |->
                          <<authorities[i].stash, authorities[i].controller, STASH>>],
         validatorCount |-> Len(authorities),
         elections |-> [i \in DOMAIN members |-> <<members[i], STASH>>],
         technicalCommittee |-> members,
         technicalMembership |-> <<>>,
         society   |-> members,
         sudo      |-> rootKey]

-----------------------------------------------------------------------------
DevelopmentGenesis ==
    TestnetGenesis(<<AuthorityOf("Alice")>>, AccountOf("Alice"), DefaultEndowed)

LocalTestnetGenesis ==
    TestnetGenesis(<<AuthorityOf("Alice"), AuthorityOf("Bob")>>, AccountOf("Alice"),
                   DefaultEndowed)

(* Four authorities with keys of their own; only the root key is endowed by *)
(* name.                                                                    *)
StagingGenesis ==
    LET fir == <<"fir/1", "fir/2", "fir/3", "fir/4">>
    IN  TestnetGenesis([i \in 1 .. 4 |-> AuthorityOf(fir[i])], AccountOf("fir/root"),
                       <<AccountOf("fir/root")>>)

Genesis(id) ==
    CASE id = "dev" -> DevelopmentGenesis
      [] id = "local" -> LocalTestnetGenesis
      [] id = "staging" -> StagingGenesis

Ids == {"dev", "local", "staging"}

-----------------------------------------------------------------------------
Firsts(pairs) == { pairs[i][1] : i \in DOMAIN pairs }

(* What the pallets assert while they build their genesis: no account has   *)
(* two balances; who stakes, or is elected, has the bond; a session key for *)
(* each validator; the bodies within their limits, without a repetition.    *)
Builds(g) ==
    /\ \A i, j \in DOMAIN g.balances : g.balances[i][1] = g.balances[j][1] => i = j
    /\ \A s \in ToSet(g.stakers) :
        \E b \in ToSet(g.balances) : b[1] = s[1] /\ b[2] >= s[3]
    /\ \A m \in ToSet(g.elections) :
        \E b \in ToSet(g.balances) : b[1] = m[1] /\ b[2] >= m[2]
    /\ Firsts(g.stakers) = Firsts(g.keys)
    /\ Len(g.stakers) >= g.validatorCount /\ g.validatorCount > 0
    /\ Len(g.elections) \in 1 .. DesiredMembers /\ IsInjective(g.elections)
    /\ Len(g.technicalCommittee) <= TechnicalMaxMembers /\ IsInjective(g.technicalCommittee)

(* Somebody can act: the sudo key pays fees. *)
Governable(g) == g.sudo \in Firsts(g.balances)
=============================================================================
