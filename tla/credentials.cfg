\* One account pairs, re-pairs, rotates, renames and buys a ticket; then everything ends early.
CONSTANTS
    u1 = u1
    u2 = u2
    Users = {u1}
    Sessions = {s1}
    SessionOwner <- Owner
    DeviceKeys = {d1}
    ConnectorKeys = {c1}
    Pairings = {p1, p2}
    Tokens = {x1, x2}
    Tickets = {t1}
    Names = {n1, n2}
    AccountLimit = 1
    GlobalLimit = 1
    MaxChallenges = 1
    MaxFailures = 0
    NONE = NONE
SPECIFICATION Spec
SYMMETRY Symmetry
INVARIANTS
    
    RevokedDeviceHoldsNothing
    AdmissionsNeedConsent
PROPERTIES
    RetiredStayRetired
    ReplacementIsDeliberate
    AdmissionNeedsLiveAuthority
CHECK_DEADLOCK FALSE
