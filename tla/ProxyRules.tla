------------------------------ MODULE ProxyRules ------------------------------
(***************************************************************************)
(* The kinds of proxies of the runtime (ProxyType), and the proxy pallet   *)
(* as the runtime configures it: what a delegate may do for an account.    *)
(*                                                                         *)
(* A transaction is signed by one account.  From there a call may be made  *)
(* for another account by Proxy.proxy, again and again: every level has an *)
(* origin of its own, with the filter of the grant it goes through and     *)
(* none of those before it.  Calls are named for their pallet, and those   *)
(* that change the grants are actions; of the others only matters whether  *)
(* the origin lets them pass.  No grant has a delay.                       *)
(***************************************************************************)
EXTENDS Integers, FiniteSets

CONSTANTS
    Accounts,       \* who signs, grants and is granted
    MaxGrants       \* bound: how many grants stand at a time, and how many kinds are
                    \* given away

ASSUME SomeAccount == Accounts # {}
ASSUME GrantBound == MaxGrants \in Nat

VARIABLES
    grants,         \* the grants that stand: of whom, to whom, of which kind
    acting,         \* the account a call is made for, and the kind of grant it goes
                    \* through, or "signed"
    given           \* history: the kinds each account has given away by itself

proxyVars == <<grants, acting, given>>

-----------------------------------------------------------------------------
ProxyTypes == {"Any", "NonTransfer", "Governance", "Staking"}

Transfers ==
    {"Balances", "Assets", "Uniques", "Vesting.vested_transfer", "Indices.transfer"}
Governing ==
    {"Democracy", "Council", "Society", "TechnicalCommittee", "Elections", "Treasury"}
Calls ==
    Transfers \cup Governing
        \cup {"Staking", "Proxy", "Vesting.vest", "Indices.claim", "Votechain"}

(* InstanceFilter::filter *)
Filter(t) ==
    CASE t = "Any" -> Calls
      [] t = "NonTransfer" -> Calls \ Transfers
      [] t = "Governance" -> Governing
      [] t = "Staking" -> {"Staking"}

(* Mutant: NonTransfer is above every kind, Any included. *)
NonTransferAbove(t, u) == t = u \/ t \in {"Any", "NonTransfer"}

(* InstanceFilter::is_superset *)
IsSuperset(t, u) ==
    \/ t = u
    \/ t = "Any"
    \/ u # "Any" /\ t = "NonTransfer"

(* What the origin of a call lets pass; the grants may be changed only by   *)
(* kinds that are no less than the grant, and be swept only by Any.         *)
Scope(through) == IF through = "signed" THEN Calls ELSE Filter(through)
MayChange(through, t) ==
    "Proxy" \in Scope(through) /\ (through = "signed" \/ IsSuperset(through, t))
MaySweep(through) == through \in {"signed", "Any"}

-----------------------------------------------------------------------------
ProxyInit ==
    /\ grants = {}
    /\ acting = [for |-> CHOOSE a \in Accounts : TRUE, through |-> "signed"]
    /\ given = [a \in Accounts |-> {}]

Sign(a) ==
    /\ acting' = [for |-> a, through |-> "signed"]
    /\ UNCHANGED <<grants, given>>

(* proxy: any grant to the account the call is made for. *)
ProxyCall(g) ==
    /\ "Proxy" \in Scope(acting.through)
    /\ g.to = acting.for
    /\ acting' = [for |-> g.of, through |-> g.kind]
    /\ UNCHANGED <<grants, given>>

AddProxy(d, t) ==
    /\ MayChange(acting.through, t)
    /\ d # acting.for
    /\ Cardinality(grants) < MaxGrants
    /\ grants' = grants \cup {[of |-> acting.for, to |-> d, kind |-> t]}
    /\ IF acting.through = "signed"
         THEN /\ given' = [given EXCEPT ![acting.for] = @ \cup {t}]
              /\ Cardinality({ x \in Accounts \X ProxyTypes : x[2] \in given'[x[1]] }) <= MaxGrants
         ELSE UNCHANGED given
    /\ UNCHANGED acting

RemoveProxy(g) ==
    /\ MayChange(acting.through, g.kind)
    /\ g.of = acting.for
    /\ grants' = grants \ {g}
    /\ UNCHANGED <<acting, given>>

RemoveProxies ==
    /\ MaySweep(acting.through)
    /\ grants' = { g \in grants : g.of # acting.for }
    /\ IF acting.through = "signed"
         THEN given' = [given EXCEPT ![acting.for] = {}]
         ELSE UNCHANGED given
    /\ UNCHANGED acting

ProxyNext ==
    \/ \E a \in Accounts : Sign(a)
    \/ \E g \in grants : ProxyCall(g) \/ RemoveProxy(g)
    \/ \E d \in Accounts, t \in ProxyTypes : AddProxy(d, t)
    \/ RemoveProxies

ProxySpec == ProxyInit /\ [][ProxyNext]_proxyVars

-----------------------------------------------------------------------------
ProxyTypeOK ==
    /\ grants \subseteq [of : Accounts, to : Accounts, kind : ProxyTypes]
    /\ acting \in [for : Accounts, through : ProxyTypes \cup {"signed"}]
    /\ given \in [Accounts -> SUBSET ProxyTypes]

Covered(a, t) == \E u \in given[a] : IsSuperset(u, t)

(* Whatever delegates do with their grants, by themselves or through each   *)
(* other, no call passes for an account that the account did not give away  *)
(* itself, since it last swept its grants.                                  *)
NoEscalation ==
    acting.through # "signed" =>
        \A c \in Scope(acting.through) : \E u \in given[acting.for] : c \in Filter(u)
=============================================================================
