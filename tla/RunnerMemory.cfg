SPECIFICATION RMSpec
CONSTANTS
    StagingBytes = 64
    BLOCK_SIZE = 2
    num_blocks = 9
    max_num_seqs = 4
    max_model_len = 4
    HiddenBytes = 512
    QkvBytes = 512
    PromptLens <- ThreePrompts
    MaxLen = 5
    MaxRuns = 3
    MaxFailures = 1
    MaxDepartures = 1
INVARIANTS RMTypeOK ResultsOfOwnBatch
PROPERTIES KVOnlyByBatch RunsEnd
CHECK_DEADLOCK FALSE
