\* Three requests of any kinds, over the same rows and the smallest pools in which two can meet.
CONSTANTS
    Requests = {q1, q2, q3}
    Program <- Programs
    Slots <- PoolNames
    Capacity <- PoolSizes
    Rank <- RankOf
    MaxRank <- Last
    Unordered = {"googleLinkExisting"}
    NONE = NONE
SPECIFICATION Spec
SYMMETRY Symmetry
INVARIANTS
    SlotsReturned
    TakenInOrder
    OnlyUnorderedStall
    PoolsNeverStall
    PoolsInOrder
