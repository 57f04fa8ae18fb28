SPECIFICATION Spec
CONSTANTS
    BLOCK_SIZE = 2
    a = a
    e = e
    s1 = s1
    s2 = s2
    s3 = s3
    NoSeq = NoSeq
    Token = {a, e}
    Sampled = {a, e}
    eos = e
    SeqId = {s1, s2}
    NumBlocks = 3
    max_num_seqs = 2
    max_num_batched_tokens = 8
    Requests <- OversizedRequests
INVARIANT BatchNotEmpty
CHECK_DEADLOCK FALSE
