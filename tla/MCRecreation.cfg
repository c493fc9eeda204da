\* One election created and registered in again, and every refused length; two voters.
CONSTANTS
    d1 = d1  d2 = d2  dShort = dShort  dLong = dLong
    n1 = n1  nShort = nShort  nLong = nLong  n2 = n2  a1 = a1  a2 = a2
    Accounts = {a1, a2}
    Descriptions = {d1, dShort, dLong}
    CandidateNames = {n1, n2, nShort, nLong}
    Bytes <- MCBytes
    ElectionMinBytes = 8    ElectionMaxBytes = 4096
    CandidateMinBytes = 8   CandidateMaxBytes = 4096
    HashOf <- MCHashOf
    Root = Root
    None = None
    MaxCreations = 2
    MaxRegistrations = 2
    Named = {d1}
SPECIFICATION MCSpec
SYMMETRY AccountSymmetry
VIEW StorageView
INVARIANTS TypeOK OneBallotPerAuthor BallotsAccounted DoubleCountNeedsRecreation
PROPERTIES OnlyRootDiscardsVotes
