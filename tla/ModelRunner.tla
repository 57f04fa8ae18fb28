----------------------------- MODULE ModelRunner -----------------------------
(***************************************************************************)
(* What ModelRunner::run does with a batch of either scheduler: the slots  *)
(* of the paged KV cache it writes, and those its attention reads.  The    *)
(* K and V of a token depend on every token before it, so a slot's content *)
(* is named by the prefix of tokens it was computed for.  One run is one   *)
(* action: in every layer store_kvcache comes before the attention.        *)
(***************************************************************************)
EXTENDS ChunkedScheduler

CONSTANTS enable_chunked_prefill,   \* Config::enable_chunked_prefill
          kv_cache_int8             \* Config::kv_cache_int8

ASSUME ConfigAssumption ==
    enable_chunked_prefill \in BOOLEAN /\ kv_cache_int8 \in BOOLEAN

VARIABLE kv   \* kv_cache_: the prefixes each slot may hold, {} at first

runnerVars == << vars, kv >>

Slots == BlockId \X (0 .. BLOCK_SIZE - 1)

RunnerInit ==
    /\ Init
    /\ kv = [c \in Slots |-> {}]

Batch == ToSet(scheduled_seqs)

Prefix(s, pos) == SubSeq(token_ids[s], 1, pos + 1)

\* The slot of a position: entry pos / block_size of the table; the rows of
\* build_block_tables are padded with 0.
Slot(s, pos) ==
    LET i == pos \div BLOCK_SIZE + 1
    IN  << IF i \in DOMAIN block_table[s] THEN block_table[s][i] ELSE 0,
           pos % BLOCK_SIZE >>

-----------------------------------------------------------------------------
(* prepare_prefill and prepare_decode *)

\* Fault: the first token to compute is skipped.
query_beginLate(s) == num_computed_tokens[s] + 1

\* The first position a prefill computes.  Without a chunk size it is the
\* first one the prefix cache does not hold.
query_begin(s) ==
    IF num_tokens_to_process[s] > 0 THEN num_computed_tokens[s]
    ELSE ComputedAtAdmission(s)

\* One past the last position the step computes: as many positions are
\* attended to.
query_end(s) ==
    LET chunk_end == query_begin(s) + num_tokens_to_process[s] IN
    IF is_prefill /\ num_tokens_to_process[s] > 0 /\ chunk_end < len(s)
    THEN chunk_end ELSE len(s)

\* The positions the step computes, and the slot each one's K and V go to.
Queries(s) == IF is_prefill THEN query_begin(s) .. query_end(s) - 1
              ELSE {len(s) - 1}

slot_mapping(s, pos) ==
    IF is_prefill THEN Slot(s, pos)
    ELSE << Last(block_table[s]), last_block_num_tokens(token_ids[s]) - 1 >>

\* An invalid argument: a prefill needs a table of the right size, a decode
\* one that is not empty.
Refused(s) == IF is_prefill THEN Len(block_table[s]) # num_blocks(token_ids[s])
              ELSE block_table[s] = << >>

\* Fault: only the first sequence is looked at.
block_tables_definedByFirst ==
    is_prefill => query_begin(Head(scheduled_seqs)) > 0

\* The block tables go to the device if some query has keys before it.
block_tables_defined ==
    is_prefill => \E s \in Batch : query_begin(s) > 0

-----------------------------------------------------------------------------
(* Attention::forward *)

\* The cache after the batch; a slot written twice holds either content.
store_kvcache ==
    LET Written(c) == UNION { { Prefix(s, pos) : pos \in
                                  { p \in Queries(s) : slot_mapping(s, p) = c } } :
                              s \in Batch }
    IN  [c \in Slots |-> IF Written(c) = {} THEN kv[c] ELSE Written(c)]

\* The K and V rows of the batch itself, in order.
BatchRows ==
    FlattenSeq([i \in DOMAIN scheduled_seqs |->
        LET s == scheduled_seqs[i] IN
        [k \in 1 .. query_end(s) - query_begin(s) |->
            Prefix(s, query_begin(s) + k - 1)]])

\* cu_seqlens_k: the row at which the keys of the i-th sequence start.
cu_seqlens_k(i) ==
    SumFunctionOnSet([j \in DOMAIN scheduled_seqs |-> query_end(scheduled_seqs[j])],
                     1 .. i - 1)

\* What the attention of the i-th sequence finds at a position: it reads the
\* paged cache, or, in a prefill that has no block tables or an int8 cache,
\* the rows of the batch.
Attended(i, pos) ==
    LET row == cu_seqlens_k(i) + pos + 1 IN
    IF block_tables_defined /\ ~(is_prefill /\ kv_cache_int8)
    THEN store_kvcache[Slot(scheduled_seqs[i], pos)]
    ELSE IF row \in DOMAIN BatchRows THEN {BatchRows[row]} ELSE {}

-----------------------------------------------------------------------------
RunModel ==
    /\ run
    /\ \A s \in Batch : ~Refused(s)
    /\ kv' = store_kvcache

\* The exception leaves step() before postprocess.  The scheduler keeps what
\* schedule() did to it, and the caller may step again.
RunThrows ==
    /\ pc = "run"
    /\ \E s \in Batch : Refused(s)
    /\ scheduled_seqs' = << >>
    /\ pc' = "idle"
    /\ UNCHANGED << bmVars, seqVars, waiting, running, is_prefill, num_seqs,
                    num_batched_tokens, cur, post_i, kv >>

\* schedule() takes one path or the other, as configured.
SchedulePath == IF enable_chunked_prefill THEN schedule_chunked
                ELSE schedule_default

OutsideRun ==
    \/ \E s \in SeqId, r \in Requests : add(s, r)
    \/ schedule
    \/ SchedulePath
    \/ PostProcess
    \/ BlockManagerStep

RunnerNext == (OutsideRun /\ UNCHANGED kv) \/ RunModel \/ RunThrows

RunnerSpec == RunnerInit /\ [][RunnerNext]_runnerVars

-----------------------------------------------------------------------------
(* Safety *)

KVTypeOK == TypeOK /\ kv \in [Slots -> SUBSET Seq(Token)]

\* Whatever was cached, shared, freed, reused, preempted or recomputed: the
\* attention of a batch finds, at every position up to the query's own, the
\* K and V of exactly that token behind exactly that prefix
\* (prepare_prefill, prepare_decode, Attention::forward).
AttendsToItsPrefix ==
    pc = "run" =>
        \A i \in DOMAIN scheduled_seqs :
            LET s == scheduled_seqs[i] IN
            ~Refused(s) =>
                \A pos \in 0 .. query_end(s) - 1 :
                    Attended(i, pos) = {Prefix(s, pos)}

\* What the cached slots are right under: a cache hit finds the block as it
\* was indexed, chain hash and tokens, whatever was freed, reused and indexed
\* again in between (block_manager.cpp:84 compares the block's own tokens).
HitsKnowTheirPrefix == Client!HitsKnowTheirChain

\* A sampled token is kept exactly when the step that sampled it computed the
\* sequence up to its last token: what postprocess takes for a terminal chunk
\* is what prepare_prefill sent to the model (scheduler.cpp:216-230).
KeepsTokensOfWholeSequences ==
    [][pc = "post" /\ post_i' = post_i + 1 =>
           LET s == scheduled_seqs[post_i] IN
           token_ids'[s] # token_ids[s] <=> query_end(s) = len(s)]_runnerVars

\* num_computed_tokens is the "number of prompt tokens whose KV has been
\* materialized in the cache" (sequence.h:39): between steps the slots of
\* that many tokens of a running sequence hold its K and V.
ComputedIsMaterialized ==
    pc = "idle" =>
        \A s \in SeqId : status[s] = "RUNNING" =>
            \A pos \in 0 .. num_computed_tokens[s] - 1 :
                kv[Slot(s, pos)] = {Prefix(s, pos)}
=============================================================================
