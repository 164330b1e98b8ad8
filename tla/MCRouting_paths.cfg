SPECIFICATION FairFromSettled
CONSTANTS
    Node = {1, 2, 3}
    Edge = 2
    Stream = {"t", "u"}
    MaxStreams = 1
    MaxChanges = 2
    Load <- SmallLoad
INVARIANTS IndInv Admitted Truthful OneReached FailsOver PriorityOrder
PROPERTY Answered
CHECK_DEADLOCK FALSE
