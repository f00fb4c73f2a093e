\* A new address two Google accounts claim and an old account's, two people, two sign-ins in flight.
CONSTANTS
    alice = alice
    bob = bob
    a1 = a1
    a2 = a2
    g1 = g1
    g2 = g2
    g3 = g3
    People = {alice, bob}
    Addresses = {a1, a2}
    Owner <- OwnerOf
    Legacy = {a2}
    LegacyHolder <- Holder
    Subjects = {g1, g2, g3}
    PersonOf <- Person
    Asserts <- OneAddress
    Codes = {k1, k2, k3}
    Requests = {r1, r2}
    MaxAttempts = 1
    Retries = 1
    NONE = NONE
SPECIFICATION Spec
SYMMETRY Symmetry
INVARIANTS
    TypeOK
    SessionsBelong
    TriesCapped
    LinksNeedProof
    RetrySuffices
CHECK_DEADLOCK FALSE
