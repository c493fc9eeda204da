\* The socket drops while the accounts are loaded.
CONSTANTS
    alice = alice  bob = bob
    Pairs = {alice, bob}
    SudoKey = alice
    Nobody = Nobody
    MaxDrops = 1
    MaxLogins = 1
SPECIFICATION Spec
CHECK_DEADLOCK FALSE
INVARIANTS LoadingScreenMeansLoading
