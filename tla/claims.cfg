\* Three claims of two accounts from up to three networks, over windows of one and two ticks.
CONSTANTS
    a1 = a1
    a2 = a2
    h1 = h1
    h2 = h2
    h3 = h3
    h4 = h4
    Claims = {c1, c2, c3}
    Clients = {k1, k2, k3}
    Accounts = {a1, a2}
    Challenges = {h1, h2, h3, h4}
    ChallengeOwner <- Owner
    Maximum = 1
    Window = 2
    Capacity = 2
    AccountLimit = 2
    AccountWindow = 2
    GlobalLimit = 1
    GlobalWindow = 1
    MaxTime = 2
    NONE = NONE
SPECIFICATION Spec
SYMMETRY Symmetry
INVARIANTS
    LimiterBounded
    AccountBudget
    GlobalBudget
    
PROPERTY RefusalEarned
CHECK_DEADLOCK FALSE
