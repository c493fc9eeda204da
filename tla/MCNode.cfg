\* Two tasks that end by themselves; three blocks to inspect; six with a runtime upgrade
\* and two extrinsics; two places of a trie; nine keys; four runs of a benchmark;
\* four clicks on a button of each type that needs an account.
CONSTANTS
    MaxEnds = 2
    MaxRounds = 1
    MaxNumber = 3
    BlockHashCount = 5
    MaxHeight = 6
    MaxMade = 2
    Places = {"p", "q"}
    Hashes = {"g", "h"}
    MaxRuns = 2
    SampleSize = 3
    DatabaseSizes = {6, 9, 12}
    Histograms <- MCHistograms
    Runs = 4
    Skip = 1
    Take = 2
    KeyringLength = 500
    BlockCapacities = {120, 600}
    Durations = {1, 9}
    Filters = {"full", "custom", "proposer", "write", "txpool", "disk"}
    Customs = {600}
    Types = {"SIGNED-TX", "SUDO-TX", "UNCHECKED-SUDO-TX"}
    MaxClicks = 4
SPECIFICATION MCSpec
CHECK_DEADLOCK FALSE
INVARIANTS
    TypesOK GenesisBuilds RpcSeesVoter LivesUntilExpired DatabasesAgree SetupSound
    AveragesHold RunsIndependent TxTypeOK OpenSubscriptionHeld StatusOfLastClick
PROPERTIES DutyLostStopsNode SendingEnds
