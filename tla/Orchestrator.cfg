SPECIFICATION Spec
CONSTANTS
    MaxSubtasks = 3
    PeerLists <- MCPeerLists
    MaxRetries = 2
    Answers = {"yes", "no"}
INVARIANTS ResultsAgree RunsAreAccounted MajorityWins
PROPERTIES EveryPlanEnds IsFanOut
