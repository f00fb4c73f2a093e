\* Two connections of a device, the first lost as the second comes up, and its connector.
CONSTANTS
    a1 = a1
    a2 = a2
    b1 = b1
    b2 = b2
    d1 = d1
    c1 = c1
    s1 = s1
    ClientKeys = {d1}
    ConnectorKeys = {c1}
    Sockets = {a1, a2, b1}
    KeyOf <- Key
    SessionOf <- Session
    Trust <- Paired
    NewTrust = {}
    Revocations = {}
    Account = account
    Capacity = 3
    Talkers = {}
    Leased = {}
    Fragile = {a1}
    Closes = FALSE
    NONE = NONE
SPECIFICATION Spec
INVARIANT PresenceConverges
CHECK_DEADLOCK FALSE
