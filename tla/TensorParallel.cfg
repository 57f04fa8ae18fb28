SPECIFICATION TPSpec
CONSTANTS
    Configurations <- AllConfigurations
    GroupKeys <- AllGroupKeys
    Hidden = 2
    NumHeads = 4
    NumKvHeads = 2
    Intermediate = 2
    Vocab = 2
    MaxPasses = 3
INVARIANTS TPTypeOK RanksMatchReference
PROPERTIES NoStaleReduction PassesComplete
CHECK_DEADLOCK FALSE
