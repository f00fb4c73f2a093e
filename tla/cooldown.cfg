\* One person registers and asks for codes again.
CONSTANTS
    alice = alice
    bob = bob
    a1 = a1
    a2 = a2
    g1 = g1
    g2 = g2
    g3 = g3
    People = {alice}
    Addresses = {a1}
    Owner <- OwnerOf
    Legacy = {}
    LegacyHolder <- Holder
    Subjects = {}
    PersonOf <- Person
    Asserts <- OneAddress
    Codes = {k1, k2, k3}
    Requests = {r1}
    MaxAttempts = 1
    Retries = 1
    NONE = NONE
SPECIFICATION Spec
PROPERTY CooldownKept
CHECK_DEADLOCK FALSE
