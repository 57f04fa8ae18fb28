-------------------------- MODULE CudaGraphRunner --------------------------
(***************************************************************************)
(* The decode batches a ModelRunner captures as CUDA graphs and replays.   *)
(* A graph is the operations the model enqueued while it was captured,     *)
(* with the addresses they had then: the shared input buffers and the      *)
(* regions a ScratchAllocator handed out of one buffer.  A replay enqueues *)
(* them again behind the copies of the batch into the input buffers.       *)
(***************************************************************************)
EXTENDS DeviceKernels

CONSTANTS
    max_num_seqs,   \* Config::max_num_seqs
    max_model_len,  \* Config::max_model_len
    HiddenBytes,    \* a row of hidden states
    QkvBytes        \* a row of query, key and value

ASSUME GraphAssumption ==
    /\ {max_num_seqs, max_model_len, HiddenBytes, QkvBytes} \subseteq Nat \ {0}

VARIABLE graph_runner

-----------------------------------------------------------------------------
(* ScratchAllocator *)

\* Scratch regions are no blocks of the CudaAllocator.
Region(offset) == -1 - offset

Aligned256(bytes) == CeilTo(bytes, 256)

\* What the first i of a list of tensors take.
Taken(sizes, i) ==
    SumFunctionOnSet([j \in DOMAIN sizes |-> Aligned256(sizes[j])], 1 .. i)

\* Where each of them starts, one behind the other.
Offsets(sizes) == [i \in DOMAIN sizes |-> Taken(sizes, i - 1)]

peak(sizes) == Taken(sizes, Len(sizes))

\* What forward allocates for so many rows: the hidden states, the projection,
\* the output of the attention, and the softmax sums of flash attention.
Intermediates(rows, flash) ==
    <<rows * HiddenBytes, rows * QkvBytes, rows * HiddenBytes>>
        \o (IF flash THEN <<4 * rows>> ELSE << >>)

\* The operations of TransformerForCausalLM::forward on tensors at these
\* addresses.
forward(at, input_ids, positions, ctx, rows) ==
    LET embedding == [kind |-> "embedding", to |-> at[1], input_ids |-> input_ids,
                      rows |-> rows]
        rotary == [kind |-> "rotary", to |-> at[2], hidden |-> at[1],
                   positions |-> positions, rows |-> rows]
        fused == [kind |-> "fused", to |-> at[2], hidden |-> at[1], positions |-> positions,
                  slot_mapping |-> ctx.slot_mapping, rows |-> rows]
        store == [kind |-> "store", qkv |-> at[2], slot_mapping |-> ctx.slot_mapping,
                  rows |-> rows]
        attended == [kind |-> "attention", to |-> at[3], qkv |-> at[2], context |-> ctx,
                     lse |-> IF uses_flash(ctx) THEN at[4] ELSE NoTensor, rows |-> rows]
        stored == kv # << >> /\ ctx.slot_mapping # NoTensor
    IN  IF fused_eligible(ctx) THEN <<embedding, fused, attended>>
        ELSE IF stored THEN <<embedding, rotary, store, attended>>
        ELSE <<embedding, rotary, attended>>

-----------------------------------------------------------------------------
(* Capture *)

max_bs == IF max_num_seqs < 512 THEN max_num_seqs ELSE 512

max_num_blocks_ == (max_model_len + BLOCK_SIZE - 1) \div BLOCK_SIZE

captured_bs_ ==
    { bs \in {1, 2, 4, 8} \union { b \in 12 .. max_bs : b % 4 = 0 } : bs <= max_bs }
        \union {max_bs}

\* The input buffers, as zeroed.
ZeroInputs ==
    << [name |-> "g_input_ids", bytes |-> 4 * max_bs,
        value |-> ("input_ids" :> [r \in 1 .. max_bs |-> Junk.token])],
       [name |-> "g_positions", bytes |-> 4 * max_bs,
        value |-> ("positions" :> [r \in 1 .. max_bs |-> 0])],
       [name |-> "g_slot_mapping", bytes |-> 4 * max_bs,
        value |-> ("slot_mapping" :> [r \in 1 .. max_bs |-> 0])],
       [name |-> "g_context_lens", bytes |-> 4 * max_bs,
        value |-> ("context_lens" :> [r \in 1 .. max_bs |-> 0])],
       [name |-> "g_block_tables", bytes |-> 4 * max_bs * max_num_blocks_,
        value |-> ("block_tables" :>
                    [r \in 1 .. max_bs |-> [c \in 1 .. max_num_blocks_ |-> 0]])] >>

graph_context(h) ==
    set_context(FALSE, NoTensor, NoTensor, h.held["g_slot_mapping"],
                h.held["g_context_lens"], h.held["g_block_tables"])

decode_sizes(bs) == Intermediates(bs, uses_flash(graph_context(heap)))

NoGraphs == [scratch_size_ |-> 0, graphs_ |-> << >>]

\* Fault: the probe runs the smallest batch.
probe_bsSmallest == CHOOSE bs \in captured_bs_ : \A b \in captured_bs_ : bs <= b

\* The probe runs the largest batch.
probe_bs == max_bs

\* Ten per cent more than the probe took, in whole pages.
scratch_size == CeilTo((peak(decode_sizes(probe_bs)) * 11) \div 10, 4096)

\* The probe goes on a stream of its own that waits for this one, and stores
\* row 0.
CaptureProbe ==
    /\ Synchronized
    /\ kv' = [kv EXCEPT ![0] = [value |-> Junk, scale |-> Junk]]
    /\ graph_runner' = [graph_runner EXCEPT !.scratch_size_ = scratch_size]
    /\ UNCHANGED <<memoryVars, config, context, host>>

Uncaptured == captured_bs_ \ DOMAIN graph_runner.graphs_

Fits(bs) == peak(decode_sizes(bs)) <= graph_runner.scratch_size_

\* The largest batch first.  The warm-up stores row 0 again.
CaptureGraph ==
    LET bs == Max(Uncaptured)
        sizes == decode_sizes(bs)
        at == [i \in DOMAIN sizes |-> Region(Offsets(sizes)[i])]
        ops == forward(at, heap.held["g_input_ids"], heap.held["g_positions"],
                       graph_context(heap), bs)
    IN  /\ Uncaptured # {} /\ Fits(bs)
        /\ graph_runner' = [graph_runner EXCEPT !.graphs_ =
                                (bs :> [ops |-> ops, output |-> at[3]]) @@ @]
        /\ context' = reset_context
        /\ UNCHANGED <<memoryVars, config, kv, host>>

-----------------------------------------------------------------------------
(* Replay *)

\* 0 if the batch is larger than any graph.
select_bs(bs) ==
    LET larger == { b \in DOMAIN graph_runner.graphs_ : b >= bs }
    IN  IF larger = {} THEN 0 ELSE CHOOSE b \in larger : \A c \in larger : b <= c

available(bs) == select_bs(bs) > 0

CopyOp(name, column, from, rows) ==
    [kind |-> "copy", to |-> heap.held[name], column |-> column, from |-> from, rows |-> rows]

MemsetOp(name, column, value, rows) ==
    [kind |-> "memset", to |-> heap.held[name], column |-> column, value |-> value, rows |-> rows]

\* Fault: the slots of the padding rows are left as they were.
CopiesOfInputsNoPadding(bs, input_ids, positions) ==
    << CopyOp("g_input_ids", "input_ids", input_ids, bs),
       CopyOp("g_positions", "positions", positions, bs),
       CopyOp("g_slot_mapping", "slot_mapping", context.slot_mapping, bs),
       MemsetOp("g_context_lens", "context_lens", 0, select_bs(bs)),
       CopyOp("g_context_lens", "context_lens", context.context_lens, bs) >>

\* The rows of the batch; those behind them have no slot and no context.
CopiesOfInputs(bs, input_ids, positions) ==
    << MemsetOp("g_slot_mapping", "slot_mapping", -1, select_bs(bs)),
       CopyOp("g_input_ids", "input_ids", input_ids, bs),
       CopyOp("g_positions", "positions", positions, bs),
       CopyOp("g_slot_mapping", "slot_mapping", context.slot_mapping, bs),
       MemsetOp("g_context_lens", "context_lens", 0, select_bs(bs)),
       CopyOp("g_context_lens", "context_lens", context.context_lens, bs) >>

\* The tables are copied whole if they are as wide as the buffer, row by row
\* if they are narrower.
CopyOfTables(bs, columns) ==
    IF columns = max_num_blocks_
    THEN <<CopyOp("g_block_tables", "block_tables", context.block_tables, bs)>>
    ELSE <<[kind |-> "copy2d", to |-> heap.held["g_block_tables"],
            from |-> context.block_tables, rows |-> bs, columns |-> columns]>>

\* cudaMemcpy2DAsync refuses rows wider than the buffer's.
TablesTooWide(columns) == columns > max_num_blocks_

replay(bs) == graph_runner.graphs_[select_bs(bs)]
=============================================================================
