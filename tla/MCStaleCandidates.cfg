\* Two elections with a candidate each; the form changes its election.
CONSTANTS
    d1 = d1  d2 = d2  n1 = n1  a2 = a2  u = u
    Accounts = {u}
    User = u
    Descriptions = {d1, d2}
    CandidateNames = {n1}
    Bytes <- MCBytes
    ElectionMinBytes = 8    ElectionMaxBytes = 4096
    CandidateMinBytes = 8   CandidateMaxBytes = 4096
    HashOf <- MCHashOf
    Root = Root
    None = None
    NoId = NoId
    MaxClicks = 3
    MaxCreations = 1
    MaxRegistrations = 1
    MaxFetches = 2
SPECIFICATION MCSpec
CHECK_DEADLOCK FALSE
INVARIANTS OfferedCandidatesMatch
