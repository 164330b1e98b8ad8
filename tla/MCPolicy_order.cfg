SPECIFICATION Spec
CONSTANTS
    Node = {1, 2}
    Service <- Services
    Pattern <- Patterns
    Matches <- MatchesOf
    NoService = NoService
    Cluster = {"c", "d"}
    NoCluster = NoCluster
    AllowFlag <- Flags
    Bundle <- Bundles
    MinVersion = {0, 2}
INVARIANTS TypeOK HighestWins Enforced
