\* Two accounts, two sessions and four pairs of tokens between them.
CONSTANTS
    Users = {u1, u2}
    Sessions = {s1, s2}
    Pairs = {x1, x2, x3, x4}
    NONE = NONE
SPECIFICATION Spec
INVARIANTS
    TypeOK
    OneTradableCredential
    NoSilentEnd
PROPERTY ChainSpec
CHECK_DEADLOCK FALSE
