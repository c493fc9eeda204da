------------------------------- MODULE MCNode -------------------------------
(***************************************************************************)
(* The programs around the runtime, in one instance: one of them moves in  *)
(* each behaviour.  They share no state: a process of the node, its        *)
(* inspect subcommand, the making of an extrinsic, the steps of a          *)
(* benchmark, and the button of the client that sends extrinsics.          *)
(***************************************************************************)
EXTENDS NodeService, Inspect, ExtrinsicLife, TrieStore, TrieSetup, BenchRunner, TxButton

VARIABLE component

allVars ==
    <<component, nodeVars, inspectVars, lifeVars, storeVars, setupVars, benchVars, buttonVars>>

MCHistograms ==
    { [i \in 1 .. 3 |-> [size |-> 10 * i, count |-> c[i]]] : c \in [1 .. 3 -> 1 .. 3] }

MCInit ==
    /\ component \in {"service", "inspect", "extrinsic", "store", "setup", "bench", "button"}
    /\ NodeInit /\ InspectInit /\ LifeInit /\ StoreInit /\ SetupInit /\ BenchInit
    /\ ButtonInit /\ (component = "button" \/ type = "SIGNED-TX")

MCNext ==
    /\ UNCHANGED component
    /\ \/ /\ component = "service" /\ NodeNext
          /\ UNCHANGED <<inspectVars, lifeVars, storeVars, setupVars, benchVars, buttonVars>>
       \/ /\ component = "inspect" /\ InspectNext
          /\ UNCHANGED <<nodeVars, lifeVars, storeVars, setupVars, benchVars, buttonVars>>
       \/ /\ component = "extrinsic" /\ LifeNext
          /\ UNCHANGED <<nodeVars, inspectVars, storeVars, setupVars, benchVars, buttonVars>>
       \/ /\ component = "store" /\ StoreNext
          /\ UNCHANGED <<nodeVars, inspectVars, lifeVars, setupVars, benchVars, buttonVars>>
       \/ /\ component = "setup" /\ SetupNext
          /\ UNCHANGED <<nodeVars, inspectVars, lifeVars, storeVars, benchVars, buttonVars>>
       \/ /\ component = "bench" /\ BenchNext
          /\ UNCHANGED <<nodeVars, inspectVars, lifeVars, storeVars, setupVars, buttonVars>>
       \/ /\ component = "button" /\ ButtonNext
          /\ UNCHANGED <<nodeVars, inspectVars, lifeVars, storeVars, setupVars, benchVars>>

(* Startup and Exit are disabled where the service has not been started, and *)
(* nothing of the button is awaited where it has not been clicked.           *)
MCSpec == MCInit /\ [][MCNext]_allVars /\ NodeFairness /\ ButtonFairness

(* The variables of every component have their types.  That of an           *)
(* extrinsic's era says that its phase is below its period, and that of the *)
(* inspector that no body is kept without its header.                       *)
TypesOK ==
    /\ NodeTypeOK /\ InspectTypeOK /\ LifeTypeOK
    /\ StoreTypeOK /\ SetupTypeOK /\ BenchTypeOK
=============================================================================
