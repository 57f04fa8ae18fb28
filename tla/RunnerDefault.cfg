SPECIFICATION RunnerSpec
CONSTANTS
    BLOCK_SIZE = 2
    ta = ta
    tb = tb
    te = te
    s1 = s1
    s2 = s2
    s3 = s3
    NoSeq = NoSeq
    Token = {ta, tb, te}
    Sampled = {te}
    eos = tb
    SeqId = {s1, s2}
    NumBlocks = 3
    max_num_seqs = 2
    max_num_batched_tokens = 6
    max_num_prefill_tokens = 6
    enable_chunked_prefill = FALSE
    kv_cache_int8 = FALSE
    Requests <- PositionalRequests
SYMMETRY Symmetry
INVARIANTS KVTypeOK HitsKnowTheirPrefix AttendsToItsPrefix ComputedIsMaterialized
CHECK_DEADLOCK FALSE
