SPECIFICATION Spec
CONSTANTS
    BLOCK_SIZE = 2
    a = a
    e = e
    s1 = s1
    s2 = s2
    s3 = s3
    NoSeq = NoSeq
    Token = {a, e}
    Sampled = {a, e}
    eos = e
    SeqId = {s1, s2, s3}
    NumBlocks = 3
    max_num_seqs = 2
    max_num_batched_tokens = 4
    Requests <- SameRequests
SYMMETRY Symmetry
INVARIANTS QueuesMatchStatus TablesMatchStatus BatchIsRunnable BatchNotEmpty
PROPERTIES FirstComeFirstServed PreemptYoungest
CHECK_DEADLOCK FALSE
