----------------------------- MODULE NodeService -----------------------------
(***************************************************************************)
(* One process of the node, from its command line to its end: command.rs   *)
(* chooses what to run and loads the chain, service.rs puts the parts of a *)
(* node together and spawns its tasks, rpc/src/lib.rs hands some of the    *)
(* parts to the JSON-RPC handlers.                                         *)
(*                                                                         *)
(* The tasks run from the moment they are spawned, while the rest of the   *)
(* node is still being put together, and any of them may end by itself.    *)
(* An essential task that ends is noted by the task manager, that is asked *)
(* once the node is complete.  A start that fails drops what it has made.  *)
(***************************************************************************)
EXTENDS ChainSpec, FiniteSets

CONSTANTS
    MaxEnds,        \* bound: how many tasks end by themselves
    MaxRounds       \* bound: how many rounds the voter goes through

ASSUME NodeBounds == MaxEnds \in Nat /\ MaxRounds \in Nat

VARIABLES
    cmd,            \* what the process was asked to do
    chain,          \* the chain it was given
    config,         \* role and switches of a node
    at,             \* how far the process has come
    tasks,          \* the tasks that run
    essential,      \* those of them, and of the ended, that must not end
    spawned,        \* history: every task that was spawned
    ended,          \* history: the tasks that ended by themselves
    network,        \* "none", "built" (its worker waits), "started"
    cell,           \* which voter state the rpc builder, the service, the rpc handlers
                    \* and the voter have a handle of
    round,          \* what is in each voter state
    votingRound     \* the round the voter is in

nodeVars == <<cmd, chain, config, at, tasks, essential, spawned, ended, network, cell,
              round, votingRound>>
processVars == <<cmd, chain, config>>
voterVars == <<cell, round, votingRound>>

-----------------------------------------------------------------------------
(* Subcommands by what they need: nothing, the configuration, a client and  *)
(* its import queue, or a feature the node was built without.               *)
Plain == {"key", "sign", "verify", "vanity"}
Configured == {"inspect", "build-spec", "purge-chain"}
Partial == {"check-block", "export-blocks", "export-state", "import-blocks", "revert"}
Disabled == {"benchmark", "try-runtime"}
Commands == {"run"} \cup Plain \cup Configured \cup Partial \cup Disabled

Chains == Ids \cup {"", "fir", "path"}
Configs == [authority : BOOLEAN, grandpa : BOOLEAN, offchain : BOOLEAN]
DefaultConfig == [authority |-> FALSE, grandpa |-> TRUE, offchain |-> TRUE]
NoCell == [builder |-> 0, setup |-> 0, rpc |-> 0, voter |-> 0]
Cells == 1 .. 2

(* What a node of this configuration is there for. *)
Duties ==
    {"txpool", "import-queue"}
        \cup (IF config.authority THEN {"babe-proposer"} ELSE {})
        \cup (IF config.grandpa THEN {"grandpa-voter"} ELSE {})

-----------------------------------------------------------------------------
NodeInit ==
    /\ cmd = "none" /\ chain = "" /\ config = DefaultConfig
    /\ at = "shell"
    /\ tasks = {} /\ essential = {} /\ spawned = {} /\ ended = {}
    /\ network = "none"
    /\ cell = NoCell /\ round = [c \in Cells |-> 0] /\ votingRound = 0

taskVars == <<tasks, essential, spawned>>

Spawn(normal, needed) ==
    /\ tasks' = tasks \cup normal \cup needed
    /\ essential' = essential \cup needed
    /\ spawned' = spawned \cup normal \cup needed

Go(from, to) == at = from /\ at' = to

(* The process ends: the task manager is dropped, and with it every task.   *)
Stop(how) ==
    /\ at' = how
    /\ tasks' = {}
    /\ network' = "none"
    /\ UNCHANGED <<processVars, essential, spawned, ended, voterVars>>

ParseArgs ==
    /\ Go("shell", "parsed")
    /\ \E c \in Commands, ch \in Chains :
        /\ cmd' = c /\ chain' = ch
        /\ config' \in IF c = "run" THEN Configs ELSE {DefaultConfig}
    /\ UNCHANGED <<taskVars, ended, network, voterVars>>

(* Commands that read no chain, and those whose feature is missing. *)
RunPlain ==
    /\ at = "parsed"
    /\ \/ cmd \in Plain /\ Stop("done")
       \/ cmd \in Disabled /\ Stop("failed")

LoadSpec ==
    /\ cmd \notin Plain \cup Disabled
    /\ chain # ""
    /\ Go("parsed", "loaded")
    /\ UNCHANGED <<processVars, taskVars, ended, network, voterVars>>

(* No chain is given, or its file is none. *)
NoSpec ==
    /\ at = "parsed" /\ cmd \notin Plain \cup Disabled
    /\ chain \notin Ids
    /\ Stop("failed")

RunConfigured ==
    /\ at = "loaded" /\ cmd \in Configured
    /\ \E how \in {"done", "failed"} : Stop(how)

(* new_partial: the client over its database, telemetry, the pool. *)
OpenClient ==
    /\ cmd \in Partial \cup {"run"}
    /\ Go("loaded", "client")
    /\ Spawn({"telemetry"}, {"txpool"})
    /\ UNCHANGED <<processVars, ended, network, voterVars>>

(* new_partial: GRANDPA and BABE import, the queue, and the voter state     *)
(* that the rpc builder keeps and new_full_base is handed a clone of.       *)
LinkConsensus ==
    /\ Go("client", "partial")
    /\ Spawn({}, {"import-queue"})
    /\ cell' = [cell EXCEPT !.builder = 1, !.setup = 1]
    /\ UNCHANGED <<processVars, ended, network, round, votingRound>>

RunPartial ==
    /\ at = "partial" /\ cmd \in Partial
    /\ \E how \in {"done", "failed"} : Stop(how)

BuildNetwork ==
    /\ cmd = "run"
    /\ Go("partial", "network")
    /\ Spawn({"network-worker"}
                \cup (IF config.offchain THEN {"offchain-workers"} ELSE {}), {})
    /\ network' = "built"
    /\ UNCHANGED <<processVars, ended, voterVars>>

(* create_full: each handler gets its parts, that are all the node's own;   *)
(* the voter state is the only one made for the occasion.                   *)
CreateFull(voterState) == [cell EXCEPT !.rpc = voterState]

(* The rpc servers open here, before anything votes or authors. *)
SpawnTasks ==
    /\ Go("network", "tasks")
    /\ Spawn({"rpc"}, {})
    /\ cell' = CreateFull(cell.builder)
    /\ UNCHANGED <<processVars, ended, network, round, votingRound>>

StartBabe ==
    /\ Go("tasks", "babe")
    /\ IF config.authority THEN Spawn({}, {"babe-proposer"}) ELSE UNCHANGED taskVars
    /\ UNCHANGED <<processVars, ended, network, voterVars>>

StartDiscovery ==
    /\ Go("babe", "discovery")
    /\ IF config.authority THEN Spawn({"authority-discovery"}, {}) ELSE UNCHANGED taskVars
    /\ UNCHANGED <<processVars, ended, network, voterVars>>

(* Mutant: the voter has a voter state of its own. *)
OwnCell == 2

(* Mutant: the voter is not essential. *)
SpawnDispensable == Spawn({"grandpa-voter"}, {})

VoterCell == cell.setup
SpawnVoter == Spawn({}, {"grandpa-voter"})

StartGrandpa ==
    /\ Go("discovery", "grandpa")
    /\ IF config.grandpa
         THEN SpawnVoter /\ cell' = [cell EXCEPT !.voter = VoterCell]
         ELSE UNCHANGED <<taskVars, cell>>
    /\ UNCHANGED <<processVars, ended, network, round, votingRound>>

StartNetwork ==
    /\ Go("grandpa", "running")
    /\ network' = "started"
    /\ UNCHANGED <<processVars, taskVars, ended, voterVars>>

(* Every step of new_partial and new_full_base that ends in a question mark. *)
StartFails ==
    /\ at \in {"loaded", "client", "partial", "network", "tasks", "discovery"}
    /\ cmd \in Partial \cup {"run"}
    /\ at \in {"partial", "network", "tasks", "discovery"} => cmd = "run"
    /\ at = "tasks" => config.authority
    /\ at = "discovery" => config.grandpa
    /\ Stop("failed")

-----------------------------------------------------------------------------
TaskEnds(t) ==
    /\ t \in tasks
    /\ Cardinality(ended) < MaxEnds
    /\ tasks' = tasks \ {t}
    /\ ended' = ended \cup {t}
    /\ UNCHANGED <<processVars, at, essential, spawned, network, voterVars>>

(* GRANDPA, once the node is complete; its voter publishes every round. *)
VoterRound ==
    /\ at = "running" /\ "grandpa-voter" \in tasks
    /\ votingRound < MaxRounds
    /\ votingRound' = votingRound + 1
    /\ round' = [round EXCEPT ![cell.voter] = votingRound + 1]
    /\ UNCHANGED <<processVars, at, taskVars, ended, network, cell>>

(* run_node_until_exit: an essential task has ended, or a signal came. *)
Exit == at = "running" /\ essential \cap ended # {} /\ Stop("done")
Interrupt == at = "running" /\ Stop("done")

Startup ==
    \/ LoadSpec \/ OpenClient \/ LinkConsensus \/ BuildNetwork \/ SpawnTasks
    \/ StartBabe \/ StartDiscovery \/ StartGrandpa \/ StartNetwork

NodeNext ==
    \/ ParseArgs \/ RunPlain \/ NoSpec \/ RunConfigured \/ RunPartial
    \/ Startup \/ StartFails
    \/ \E t \in tasks : TaskEnds(t)
    \/ VoterRound \/ Exit \/ Interrupt

(* The start goes on, and the process ends when it is told to. *)
NodeFairness == WF_nodeVars(Startup) /\ WF_nodeVars(Exit)

NodeSpec == NodeInit /\ [][NodeNext]_nodeVars /\ NodeFairness

-----------------------------------------------------------------------------
NodeTypeOK ==
    /\ cmd \in Commands \cup {"none"} /\ chain \in Chains /\ config \in Configs
    /\ at \in {"shell", "parsed", "loaded", "client", "partial", "network", "tasks",
               "babe", "discovery", "grandpa", "running", "done", "failed"}
    /\ tasks \cup essential \cup ended \subseteq spawned
    /\ network \in {"none", "built", "started"}
    /\ network # "none" => at \notin {"shell", "done", "failed"}
    /\ cell \in [DOMAIN NoCell -> 0 .. 2]
    /\ round \in [Cells -> 0 .. MaxRounds] /\ votingRound \in 0 .. MaxRounds

(* Every chain the node knows by name has a genesis that its pallets accept *)
(* and that somebody can govern.                                            *)
GenesisBuilds ==
    at = "loaded" /\ chain \in Ids => Builds(Genesis(chain)) /\ Governable(Genesis(chain))

(* What the rpc tells of the voter is what the voter does, although the rpc *)
(* handlers are made before there is a voter, or when there will be none.   *)
RpcSeesVoter ==
    at = "running" /\ "grandpa-voter" \in tasks => round[cell.rpc] = votingRound

(* A node does not go on without a task it is there for, even if the task   *)
(* ended while the node was still being started.                            *)
DutyLostStopsNode ==
    (cmd = "run" /\ Duties \cap ended # {}) ~> at \in {"done", "failed"}
=============================================================================
