SPECIFICATION RunnerSpec
CONSTANTS
    BLOCK_SIZE = 2
    ta = ta
    tb = tb
    te = te
    s1 = s1
    s2 = s2
    s3 = s3
    NoSeq = NoSeq
    Token = {ta, tb, te}
    Sampled = {te}
    eos = tb
    SeqId = {s1, s2, s3}
    NumBlocks = 3
    max_num_seqs = 2
    max_num_batched_tokens = 4
    max_num_prefill_tokens = 3
    enable_chunked_prefill = TRUE
    kv_cache_int8 = FALSE
    Requests <- ChunkedRequests
INVARIANTS QueuesMatchStatus TablesMatchStatus ChunksWithinBudget CountsExact
PROPERTIES FirstComeFirstServed ImplementsGeneration KeepsTokensOfWholeSequences
CHECK_DEADLOCK FALSE
