\* Two elections, each created once, with a candidate name registered in both; two voters.
CONSTANTS
    d1 = d1  d2 = d2  dShort = dShort  dLong = dLong
    n1 = n1  nShort = nShort  nLong = nLong  n2 = n2  a1 = a1  a2 = a2
    Accounts = {a1, a2}
    Descriptions = {d1, d2}
    CandidateNames = {n1}
    Bytes <- MCBytes
    ElectionMinBytes = 8    ElectionMaxBytes = 4096
    CandidateMinBytes = 8   CandidateMaxBytes = 4096
    HashOf <- MCHashOf
    Root = Root
    None = None
    MaxCreations = 1
    MaxRegistrations = 1
    Named = {d1, d2}
SPECIFICATION MCSpec
SYMMETRY AccountSymmetry
VIEW StorageView
INVARIANTS StorageMapsAgree BallotsAccounted
PROPERTIES ImplementsBallotBox
