SPECIFICATION Spec
CONSTANTS
    BLOCK_SIZE = 3
    ta = ta
    tb = tb
    s1 = s1
    s2 = s2
    s3 = s3
    NoSeq = NoSeq
    Token = {ta, tb}
    Sampled = {ta}
    SeqId = {s1, s2, s3}
    NumBlocks = 2
    Lengths <- UpToSix
    Prompts <- ThreeTokenPrompts
SYMMETRY Symmetry
INVARIANTS
    TypeOK
    RefCountExact FreeUsedPartition AllocateNeverStarves
    TableCovers SealedMatchesTokens PartialBlockPrivate
    CachedWithinTable MayAppendAsserts
PROPERTY SharedBlockFrozen
CHECK_DEADLOCK FALSE
