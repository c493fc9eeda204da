------------------------------ MODULE MCRuntime ------------------------------
(***************************************************************************)
(* The parts of the runtime whose configuration lib.rs, impls.rs and       *)
(* voter_bags.rs choose, and the template calls of the pallet, in one      *)
(* instance: one of them moves in each behaviour.  They share no state.    *)
(***************************************************************************)
EXTENDS ProxyRules, Governance, Fees, BlockLoad, Eras, VoterBags, Referenda,
        TemplateValue

CONSTANTS a1, a2, a3, c1, c2, c3, c4, e1, v1, v2, v3, r1, r2

VARIABLE component

allVars == <<component, proxyVars, govVars, feeVars, loadVars, eraVars, bagVars, refVars,
             valueVars>>

MCInit ==
    /\ component \in {"proxy", "governance", "fees", "load", "eras", "bags", "referenda",
                     "template"}
    /\ ProxyInit /\ GovInit /\ FeeInit /\ LoadInit /\ EraInit /\ BagsInit /\ RefInit
    /\ ValueInit
    /\ component # "governance" => dissent = {}

MCNext ==
    /\ UNCHANGED component
    /\ \/ /\ component = "proxy" /\ ProxyNext
          /\ UNCHANGED <<govVars, feeVars, loadVars, eraVars, bagVars, refVars, valueVars>>
       \/ /\ component = "governance" /\ GovNext
          /\ UNCHANGED <<proxyVars, feeVars, loadVars, eraVars, bagVars, refVars, valueVars>>
       \/ /\ component = "fees" /\ FeeNext
          /\ UNCHANGED <<proxyVars, govVars, loadVars, eraVars, bagVars, refVars, valueVars>>
       \/ /\ component = "load" /\ LoadNext
          /\ UNCHANGED <<proxyVars, govVars, feeVars, eraVars, bagVars, refVars, valueVars>>
       \/ /\ component = "eras" /\ EraNext
          /\ UNCHANGED <<proxyVars, govVars, feeVars, loadVars, bagVars, refVars, valueVars>>
       \/ /\ component = "bags" /\ BagsNext
          /\ UNCHANGED <<proxyVars, govVars, feeVars, loadVars, eraVars, refVars, valueVars>>
       \/ /\ component = "referenda" /\ RefNext
          /\ UNCHANGED <<proxyVars, govVars, feeVars, loadVars, eraVars, bagVars, valueVars>>
       \/ /\ component = "template" /\ ValueNext
          /\ UNCHANGED <<proxyVars, govVars, feeVars, loadVars, eraVars, bagVars, refVars>>

MCSpec == MCInit /\ [][MCNext]_allVars

(* The variables of every component have their types.  Those of the fees    *)
(* say that no account is left with less than the existential deposit, and  *)
(* that of the template's value that it does not leave its width.           *)
TypesOK ==
    /\ ProxyTypeOK /\ GovTypeOK /\ FeeTypeOK /\ LoadTypeOK
    /\ EraTypeOK /\ BagsTypeOK /\ RefTypeOK /\ ValueTypeOK
=============================================================================
