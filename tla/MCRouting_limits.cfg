SPECIFICATION FairFromUnheard
CONSTANTS
    Node = {1, 2, 3}
    Edge = 2
    Stream = {"t", "u"}
    MaxStreams = 1
    MaxChanges = 1
    Load <- SmallLoad
INVARIANTS Resolved OneBackend
PROPERTY AlwaysAnswered
CHECK_DEADLOCK FALSE
