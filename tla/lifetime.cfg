\* One connection each of a device and a connector, paired while they are up: frames, a lease that ends, a revocation and shutdown.
CONSTANTS
    a1 = a1
    a2 = a2
    b1 = b1
    b2 = b2
    d1 = d1
    c1 = c1
    s1 = s1
    ClientKeys = {d1}
    ConnectorKeys = {c1}
    Sockets = {a1, b1}
    KeyOf <- Key
    SessionOf <- Session
    Trust = {}
    NewTrust <- Paired
    Revocations = {d1}
    Account = account
    Capacity = 2
    Talkers = {b1}
    Leased = {b1}
    Fragile = {}
    Closes = TRUE
    NONE = NONE
SPECIFICATION FairSpec
INVARIANTS
    OnlyTrustedMessages
PROPERTY RevokedSocketLeaves
CHECK_DEADLOCK FALSE
