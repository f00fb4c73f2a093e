\* One account, one pairing, enough draws for a pairing and a rotation.
CONSTANTS
    u1 = u1
    Users = {u1}
    Sessions = {s1}
    SessionOwner <- Owner
    DeviceKeys = {d1}
    ConnectorKeys = {c1}
    Pairings = {p1}
    Tokens = {x1, x2}
    Tickets = {t1}
    Names = {n1}
    AccountLimit = 1
    GlobalLimit = 1
    MaxChallenges = 1
    MaxFailures = 0
    NONE = NONE
SPECIFICATION CallSpec
INVARIANT CurrentCredentialCancelsRotation
CHECK_DEADLOCK FALSE
