--------------------------- MODULE DeviceKernels ---------------------------
(***************************************************************************)
(* What the stream does with the operations a run enqueues: copies,        *)
(* memsets, and the kernels of one decoder layer and of the sampler.  An   *)
(* operation names the tensors it reads and writes by address, as a launch *)
(* does, and finds in them what is there when its turn comes.  A token is  *)
(* <<sequence, position>>; the K and V of a row are named by its token and *)
(* the position rotary was given for it.                                   *)
(***************************************************************************)
EXTENDS CudaAllocator

CONSTANTS
    BLOCK_SIZE,     \* Sequence::BLOCK_SIZE
    num_blocks      \* num_kvcache_blocks_

ASSUME KernelsAssumption == BLOCK_SIZE \in Nat \ {0} /\ num_blocks \in Nat \ {0}

VARIABLES
    config,     \* Config: enforce_eager and kv_cache_int8; fast: a bfloat16 model
                \* with q_norm and k_norm, and the flash-attention library
    kv,         \* kv_cache_ and kv_scale_, << >> before allocate_kv_cache
    context,    \* the thread's Context
    host        \* the tokens the last copy to the host delivered

kernelVars == <<memoryVars, config, kv, context, host>>

\* A default Tensor; blocks are numbered from 1.
NoTensor == 0

\* What a row holds that nothing sensible was written to.
Junk == [token |-> <<0, 0>>, position |-> 0]

\* What Tensor::zeros leaves in a row of the cache.
Unwritten == [Junk EXCEPT !.position = -1]

Slots == 0 .. num_blocks * BLOCK_SIZE - 1

-----------------------------------------------------------------------------
(* Context *)

set_context(is_prefill, cu_q, cu_k, slot_mapping, context_lens, block_tables) ==
    [is_prefill |-> is_prefill, cu_seqlens_q |-> cu_q, cu_seqlens_k |-> cu_k,
     slot_mapping |-> slot_mapping, context_lens |-> context_lens,
     block_tables |-> block_tables]

reset_context == set_context(FALSE, NoTensor, NoTensor, NoTensor, NoTensor, NoTensor)

-----------------------------------------------------------------------------
(* Reading a tensor. *)

\* The column of that name in what the tensor holds, if it holds one.
Column(address, name) ==
    LET value == Read(address) IN IF name \in DOMAIN value THEN value[name] ELSE << >>

At(column, row, default) == IF row \in DOMAIN column THEN column[row] ELSE default

\* The slot of the k-th key in a row of the block tables.
cache_row(table, k) == At(table, k \div BLOCK_SIZE + 1, 0) * BLOCK_SIZE + (k % BLOCK_SIZE)

Cached(slot) == At(kv, slot, [value |-> Junk, scale |-> Junk])

-----------------------------------------------------------------------------
(* Kernels: the rows they leave in the tensor they write. *)

embedding_lookup_kernel(op) ==
    [r \in 1 .. op.rows |-> At(Column(op.input_ids, "input_ids"), r, Junk.token)]

\* The projection and rotary: query, key and value of every row.
rotary_kernel(op) ==
    [r \in 1 .. op.rows |->
        [token |-> At(Column(op.hidden, "hidden"), r, Junk.token),
         position |-> At(Column(op.positions, "positions"), r, 0)]]

\* Rows whose slot is negative or beyond the cache are skipped.
StoredIn(op, slot) ==
    { r \in 1 .. op.rows : At(Column(op.slot_mapping, "slot_mapping"), r, 0) = slot }

\* Rows that share their slot with another.
Contended(op) ==
    UNION { StoredIn(op, slot) : slot \in { c \in Slots : Cardinality(StoredIn(op, c)) > 1 } }

\* Of rows with one slot the late one is last.
StoredRow(op, qkv, late, slot) ==
    LET rows == StoredIn(op, slot)
    IN  At(qkv, IF late \in rows THEN late ELSE Max(rows), Junk)

store_kvcache_kernel(op, qkv, late) ==
    [slot \in DOMAIN kv |->
        IF StoredIn(op, slot) = {} THEN kv[slot]
        ELSE [kv[slot] EXCEPT !.value = StoredRow(op, qkv, late, slot)]]

\* The values are rounded to int8 by the scale of their own row, kept beside
\* them.
store_kvcache_int8_kernel(op, qkv, late) ==
    [slot \in DOMAIN kv |->
        IF StoredIn(op, slot) = {} THEN kv[slot]
        ELSE [value |-> StoredRow(op, qkv, late, slot),
              scale |-> StoredRow(op, qkv, late, slot)]]

\* A decode of a fast model into a cache of its own type: one kernel rotates
\* and stores.
fused_eligible(ctx) ==
    config.fast /\ ~ctx.is_prefill /\ ~config.kv_cache_int8 /\ ctx.slot_mapping # NoTensor

\* Which sequence a row of queries belongs to.
locate_prefill_sequence(cu_q, row) ==
    1 + Cardinality({ j \in 2 .. Len(cu_q) - 1 : row - 1 >= cu_q[j] })

\* How many keys a row sees: all that precede the queries, and those up to its
\* own.
allowed_k(cu_q, cu_k, row) ==
    LET i == locate_prefill_sequence(cu_q, row)
        keys == At(cu_k, i + 1, 0) - At(cu_k, i, 0)
        queries == At(cu_q, i + 1, 0) - At(cu_q, i, 0)
    IN  keys - queries + (row - 1 - At(cu_q, i, 0)) + 1

prefill_dense_attention_kernel(op, row) ==
    LET cu_q == Column(op.context.cu_seqlens_q, "cu_seqlens_q")
        cu_k == Column(op.context.cu_seqlens_k, "cu_seqlens_k")
        k_begin == At(cu_k, locate_prefill_sequence(cu_q, row), 0)
    IN  [k \in 1 .. allowed_k(cu_q, cu_k, row) |->
            At(Column(op.qkv, "qkv"), k_begin + k, Junk)]

prefill_paged_attention_kernel(op, row) ==
    LET cu_q == Column(op.context.cu_seqlens_q, "cu_seqlens_q")
        cu_k == Column(op.context.cu_seqlens_k, "cu_seqlens_k")
        table == At(Column(op.context.block_tables, "block_tables"),
                    locate_prefill_sequence(cu_q, row), << >>)
    IN  [k \in 1 .. allowed_k(cu_q, cu_k, row) |-> Cached(cache_row(table, k - 1)).value]

decode_paged_attention_kernel(op, row) ==
    LET table == At(Column(op.context.block_tables, "block_tables"), row, << >>)
    IN  [k \in 1 .. At(Column(op.context.context_lens, "context_lens"), row, 0) |->
            Cached(cache_row(table, k - 1)).value]

\* A value is worth something only together with the scale it was rounded by.
decode_paged_attention_int8_kernel(op, row) ==
    LET table == At(Column(op.context.block_tables, "block_tables"), row, << >>)
    IN  [k \in 1 .. At(Column(op.context.context_lens, "context_lens"), row, 0) |->
            LET entry == Cached(cache_row(table, k - 1))
            IN  IF entry.value = entry.scale THEN entry.value ELSE Junk]

\* The library is given the offsets of the sequences, and its causal mask is
\* aligned with the last key.
flash_attn_varlen_fwd(op, row) == prefill_dense_attention_kernel(op, row)

\* The library is given the context lengths and the tables, and no mask.
flash_attn_decode_kvcache(op, row) == decode_paged_attention_kernel(op, row)

\* Only prefills of a cache of the model's own type read it through tables.
paged_prefill(ctx) == kv # << >> /\ ctx.block_tables # NoTensor /\ ~config.kv_cache_int8

uses_flash(ctx) ==
    config.fast /\ IF ctx.is_prefill THEN ~paged_prefill(ctx) ELSE ~config.kv_cache_int8

\* Attention::forward and forward_decode_flash_only choose the kernel.
Attended(op, row) ==
    LET ctx == op.context
        prefill == ctx.is_prefill
    IN  CASE prefill /\ paged_prefill(ctx) -> prefill_paged_attention_kernel(op, row)
          [] prefill /\ uses_flash(ctx) -> flash_attn_varlen_fwd(op, row)
          [] prefill /\ ~paged_prefill(ctx) /\ ~uses_flash(ctx) ->
                 prefill_dense_attention_kernel(op, row)
          [] ~prefill /\ config.kv_cache_int8 -> decode_paged_attention_int8_kernel(op, row)
          [] ~prefill /\ uses_flash(ctx) -> flash_attn_decode_kvcache(op, row)
          [] OTHER -> decode_paged_attention_kernel(op, row)

attention(op) ==
    [r \in 1 .. op.rows |->
        [query |-> At(Column(op.qkv, "qkv"), r, Junk), keys |-> Attended(op, r)]]

\* The last row of every sequence of a prefill.
gather_last_tokens_kernel(op) ==
    [r \in 1 .. op.rows |->
        At(Column(op.input, "hidden_states"),
           At(Column(op.cu_seqlens_q, "cu_seqlens_q"), r + 1, 0), << >>)]

lm_head(op) == [r \in 1 .. op.rows |-> At(Column(op.input, "hidden_states"), r, << >>)]

\* A token depends on its row of logits and on its three parameters.
sample_tokens(op) ==
    [r \in 1 .. op.rows |->
        [logits |-> At(Column(op.logits, "logits"), r, << >>),
         parameters |-> { At(Column(op.temperatures, "temperatures"), r, 0),
                          At(Column(op.top_ks, "top_ks"), r, 0),
                          At(Column(op.top_ps, "top_ps"), r, 0) }]]

-----------------------------------------------------------------------------
(* The stream: one action per kind of operation. *)

Executing(kind) ==
    /\ stream # << >>
    /\ Head(stream).kind = kind
    /\ stream' = Tail(stream)
    /\ UNCHANGED <<heap, pinned, staged, config, context>>

\* A kernel leaves its rows in the column of its tensor.
Writes(kind, column, rows(_)) ==
    /\ Executing(kind)
    /\ memory' = Put(Head(stream).to, (column :> rows(Head(stream))))
    /\ UNCHANGED <<kv, host>>

ExecuteCopyToDevice ==
    /\ Executing("h2d")
    /\ memory' = Put(Head(stream).to, Fetched(Head(stream)))
    /\ UNCHANGED <<kv, host>>

ExecuteZeros ==
    /\ Executing("zeros")
    /\ memory' = Put(Head(stream).to, Head(stream).value)
    /\ UNCHANGED <<kv, host>>

ExecuteMemset ==
    LET op == Head(stream)
        old == Column(op.to, op.column)
    IN  /\ Executing("memset")
        /\ memory' = Put(op.to, op.column :>
                        [r \in DOMAIN old |-> IF r <= op.rows THEN op.value ELSE old[r]])
        /\ UNCHANGED <<kv, host>>

\* The first rows of a tensor, and of each row the first columns.
ExecuteCopy ==
    LET op == Head(stream)
        old == Column(op.to, op.column)
        new == Column(op.from, op.column)
    IN  /\ Executing("copy")
        /\ memory' = Put(op.to, op.column :>
                        [r \in DOMAIN old |-> IF r <= op.rows THEN At(new, r, old[r]) ELSE old[r]])
        /\ UNCHANGED <<kv, host>>

ExecuteCopy2D ==
    LET op == Head(stream)
        old == Column(op.to, "block_tables")
        new == Column(op.from, "block_tables")
    IN  /\ Executing("copy2d")
        /\ memory' = Put(op.to, "block_tables" :>
                        [r \in DOMAIN old |->
                            [c \in DOMAIN old[r] |->
                                IF r <= op.rows /\ c <= op.columns
                                THEN At(At(new, r, << >>), c, 0) ELSE old[r][c]]])
        /\ UNCHANGED <<kv, host>>

\* Rows that share a slot are stored in any order.
ExecuteStore ==
    LET op == Head(stream)
    IN  /\ Executing("store")
        /\ \E late \in Contended(op) \union {0} :
               kv' = IF config.kv_cache_int8
                     THEN store_kvcache_int8_kernel(op, Column(op.qkv, "qkv"), late)
                     ELSE store_kvcache_kernel(op, Column(op.qkv, "qkv"), late)
        /\ UNCHANGED <<memory, host>>

\* fused_split_norm_rope_store_kernel: the queries and, of each row with a
\* slot, the K and V.
ExecuteFused ==
    LET op == Head(stream)
    IN  /\ Executing("fused")
        /\ memory' = Put(op.to, "qkv" :> rotary_kernel(op))
        /\ \E late \in Contended(op) \union {0} :
               kv' = store_kvcache_kernel(op, rotary_kernel(op), late)
        /\ UNCHANGED host

\* Flash attention also leaves the softmax sums of its rows.
ExecuteAttention ==
    LET op == Head(stream)
        out == Put(op.to, "hidden_states" :> attention(op))
    IN  /\ Executing("attention")
        /\ memory' = IF op.lse = NoTensor THEN out ELSE (op.lse :> << >>) @@ out
        /\ UNCHANGED <<kv, host>>

ExecuteCopyToHost ==
    /\ Executing("d2h")
    /\ host' = Column(Head(stream).from, "tokens")
    /\ UNCHANGED <<memory, kv>>

Execute ==
    \/ ExecuteCopyToDevice
    \/ ExecuteZeros
    \/ ExecuteMemset
    \/ ExecuteCopy
    \/ ExecuteCopy2D
    \/ Writes("embedding", "hidden", embedding_lookup_kernel)
    \/ Writes("rotary", "qkv", rotary_kernel)
    \/ ExecuteStore
    \/ ExecuteFused
    \/ ExecuteAttention
    \/ Writes("gather", "hidden_states", gather_last_tokens_kernel)
    \/ Writes("lm_head", "logits", lm_head)
    \/ Writes("sample", "tokens", sample_tokens)
    \/ ExecuteCopyToHost
=============================================================================
