SPECIFICATION Spec
CONSTANTS
    BLOCK_SIZE = 2
    ta = ta
    tb = tb
    s1 = s1
    s2 = s2
    s3 = s3
    NoSeq = NoSeq
    Token = {ta, tb}
    Sampled = {ta}
    SeqId = {s1, s2}
    NumBlocks = 4
    Lengths <- UpToFour
    Prompts <- PrefixPrompts
SYMMETRY Symmetry
CHECK_DEADLOCK FALSE
INVARIANT SharedOnlySamePrefix
