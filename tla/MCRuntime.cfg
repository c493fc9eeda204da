\* Three accounts with two grants; a council of four and an expert; four charges; a
\* multiplier of 20 to 30 units; seven eras; three voters; two referenda.
CONSTANTS
    a1 = a1  a2 = a2  a3 = a3  c1 = c1  c2 = c2  c3 = c3  c4 = c4  e1 = e1
    v1 = v1  v2 = v2  v3 = v3  r1 = r1  r2 = r2
    Accounts = {a1, a2, a3}
    MaxGrants = 2
    Council = {c1, c2, c3, c4}
    Experts = {e1}
    MaxList = 2
    MaxProposals = 1
    Width = 3
    ExistentialDeposit = 3
    Funds = 24
    Prices = {0, 3, 7, 12}
    MaxCharges = 4
    Accuracy = 1000
    AdjustmentVariable = 100
    MinimumMultiplier = 20
    MaxMultiplier = 30
    Weights = {1, 4}
    EpochDuration = 8
    SessionsPerEra = 2
    BondingDuration = 4
    MaxSkip = 1
    MaxEra = 7
    Voters = {v1, v2, v3}
    VoteWeights = {1, 3, 8}
    SnapshotLimit = 2
    Polls = {r1, r2}
    Electorate = 3
    UndecidingTimeout = 7
SPECIFICATION MCSpec
CHECK_DEADLOCK FALSE
INVARIANTS
    TypesOK NoEscalation DissentHolds FeesConserved BlocksFit ErasSound ReportsBite
    TrackDecides
PROPERTIES FeesFollowLoad HeaviestVote
