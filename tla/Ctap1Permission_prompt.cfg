SPECIFICATION Spec
CONSTANTS
    Apps = {"a", "b"}
    PromptLimit = 1
    Margin = 1
    MaxQueue = 4
    MaxThreads = 2
    MaxPresses = 2
INVARIANTS
    OnePressOneApproval
    PromptGuarded
PROPERTIES
    DenialHolds
    PromptCloses
