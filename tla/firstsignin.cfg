\* One Google account signs in twice at once to a new address.
CONSTANTS
    alice = alice
    bob = bob
    a1 = a1
    a2 = a2
    g1 = g1
    g2 = g2
    g3 = g3
    People = {alice}
    Addresses = {a1}
    Owner <- OwnerOf
    Legacy = {}
    LegacyHolder <- Holder
    Subjects = {g1}
    PersonOf <- Person
    Asserts <- OneAddress
    Codes = {k1}
    Requests = {r1, r2}
    MaxAttempts = 1
    Retries = 1
    NONE = NONE
SPECIFICATION Spec
INVARIANT RefusalNamesAnother
CHECK_DEADLOCK FALSE
