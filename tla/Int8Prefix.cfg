SPECIFICATION RunnerSpec
CONSTANTS
    BLOCK_SIZE = 2
    ta = ta
    tb = tb
    te = te
    s1 = s1
    s2 = s2
    s3 = s3
    NoSeq = NoSeq
    Token = {ta, tb, te}
    Sampled = {te}
    eos = tb
    SeqId = {s1, s2}
    NumBlocks = 4
    max_num_seqs = 2
    max_num_batched_tokens = 4
    max_num_prefill_tokens = 4
    enable_chunked_prefill = FALSE
    kv_cache_int8 = TRUE
    Requests <- CachedRequests
INVARIANT AttendsToItsPrefix
CHECK_DEADLOCK FALSE
