\* Two accounts compete for two phones and one OpenCode instance, over two pairings, with wrong codes.
CONSTANTS
    u1 = u1
    u2 = u2
    Users = {u1, u2}
    Sessions = {}
    SessionOwner <- Owner
    DeviceKeys = {d1, d2}
    ConnectorKeys = {c1}
    Pairings = {p1, p2}
    Tokens = {x1, x2}
    Tickets = {}
    Names = {n1}
    AccountLimit = 1
    GlobalLimit = 1
    MaxChallenges = 1
    MaxFailures = 1
    NONE = NONE
SPECIFICATION Spec
SYMMETRY CeremonySymmetry
INVARIANTS
    TypeOK
    TrustNeedsConsent
    AccountIsolation
PROPERTIES
    PairingClaimedOnce
    AgreementSpec
CHECK_DEADLOCK FALSE
