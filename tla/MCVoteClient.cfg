\* Two elections that a2 has voted in already; no election is created again.
CONSTANTS
    d1 = d1  d2 = d2  n1 = n1  a2 = a2  u = u
    Accounts = {u, a2}
    User = u
    Descriptions = {d1, d2}
    CandidateNames = {n1}
    Bytes <- MCBytes
    ElectionMinBytes = 8    ElectionMaxBytes = 4096
    CandidateMinBytes = 8   CandidateMaxBytes = 4096
    HashOf <- MCHashOf
    Root = Root
    None = None
    NoId = NoId
    MaxClicks = 4
    MaxCreations = 1
    MaxRegistrations = 1
    MaxFetches = 2
SPECIFICATION MCSpec
SYMMETRY DescriptionSymmetry
VIEW ClientView
CHECK_DEADLOCK FALSE
INVARIANTS ClientTypeOK ShownVotesAreOneList
PROPERTIES FormNeverWastesBallot
