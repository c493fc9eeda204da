\* Two accounts; the socket drops twice and there are three logins.
CONSTANTS
    alice = alice  bob = bob
    Pairs = {alice, bob}
    SudoKey = alice
    Nobody = Nobody
    MaxDrops = 2
    MaxLogins = 3
SPECIFICATION FairSpec
CHECK_DEADLOCK FALSE
INVARIANTS SessionTypeOK AdminMenuNeedsSudoLogin MenuRightUnlessRaced LossNeedsDrop
PROPERTIES KeyringLoadedOnce EventuallyShown
