SPECIFICATION SamplingSpec
CONSTANTS
    NumWarps = 2
    Cols <- FourColumns
    top_k = 2
    Logits <- DistinctLogits
INVARIANT MasksAllButTopK
CHECK_DEADLOCK FALSE
