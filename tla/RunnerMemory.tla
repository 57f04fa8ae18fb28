---------------------------- MODULE RunnerMemory ----------------------------
(***************************************************************************)
(* ModelRunner on its device: the construction (warm-up, KV cache, graph   *)
(* capture) and the runs that follow, as a host program that enqueues work *)
(* on a stream which executes it later.  The tensors of a run live in      *)
(* blocks that go to other tensors as soon as the host lets go of them,    *)
(* and its inputs travel through a staging buffer every run writes from    *)
(* the start.  The batches come from a caller that holds the sequences.    *)
(***************************************************************************)
EXTENDS CudaGraphRunner

CONSTANTS
    PromptLens,     \* the caller's sequences: the length of each prompt
    MaxLen,         \* bound: the caller takes no sequence further
    MaxRuns,        \* bound on the runs
    MaxFailures,    \* bound on failed cudaMallocs
    MaxDepartures   \* bound on sequences finished or preempted early

ASSUME RunnerAssumption ==
    /\ {MaxLen, MaxRuns} \subseteq Nat \ {0} /\ {MaxFailures, MaxDepartures} \subseteq Nat
    /\ PromptLens \in Seq(1 .. MaxLen)

VARIABLES
    seqs,       \* the caller's sequences
    runner,     \* the program of ModelRunner and where it is
    bounds      \* runs, failures and departures so far

vars == <<kernelVars, graph_runner, seqs, runner, bounds>>

SeqId == DOMAIN PromptLens

\* The table of a sequence: blocks no other sequence has.
MaxBlocks == (MaxLen + BLOCK_SIZE - 1) \div BLOCK_SIZE

block_table(s) ==
    [i \in 1 .. (seqs[s].len + BLOCK_SIZE - 1) \div BLOCK_SIZE |-> (s - 1) * MaxBlocks + i - 1]

Slot(s, pos) == block_table(s)[pos \div BLOCK_SIZE + 1] * BLOCK_SIZE + (pos % BLOCK_SIZE)

RMInit ==
    /\ config \in [enforce_eager : BOOLEAN, kv_cache_int8 : BOOLEAN, fast : BOOLEAN]
    /\ heap = NewHeap
    /\ memory = << >>
    /\ stream = << >>
    /\ pinned = NoStaging
    /\ staged = << >>
    /\ kv = << >>
    /\ context = reset_context
    /\ host = << >>
    /\ graph_runner = NoGraphs
    /\ seqs = [s \in SeqId |-> [status |-> "waiting", len |-> PromptLens[s], cached |-> 0]]
    /\ runner = [pc |-> "construct", kind |-> "warmup", batch |-> << >>, todo |-> << >>]
    /\ bounds = [runs |-> 0, failures |-> 0, departures |-> 0]

-----------------------------------------------------------------------------
(* The caller, between runs *)

Departs(s) ==
    /\ runner.pc = "idle"
    /\ seqs[s].status = "running"
    /\ bounds.departures < MaxDepartures
    /\ bounds' = [bounds EXCEPT !.departures = @ + 1]
    /\ UNCHANGED <<kernelVars, graph_runner, runner>>

Finish(s) ==
    /\ Departs(s)
    /\ seqs' = [seqs EXCEPT ![s].status = "gone"]

\* Preempted, and admitted again with its whole blocks still cached.  An int8
\* cache is left to the run that shows what comes of it.
Preempt(s) ==
    /\ Departs(s) /\ ~config.kv_cache_int8
    /\ seqs' = [seqs EXCEPT ![s].status = "waiting",
                            ![s].cached = ((seqs[s].len - 1) \div BLOCK_SIZE) * BLOCK_SIZE]

-----------------------------------------------------------------------------
(* The inputs of a run: the tensors it uploads, in order. *)

is_prefill == runner.kind # "decode"

query_begin(s) == IF is_prefill THEN seqs[s].cached ELSE seqs[s].len - 1

query_len(s) == seqs[s].len - query_begin(s)

\* The rows of a batch: the tokens to compute, sequence after sequence.
Rows == FlattenSeq([i \in DOMAIN runner.batch |->
            LET s == runner.batch[i]
            IN  [k \in 1 .. query_len(s) |-> <<s, query_begin(s) + k - 1>>]])

Sums(lens) == [i \in 1 .. Len(lens) + 1 |-> SumFunctionOnSet(lens, 1 .. i - 1)]

OfRows(value(_)) == LET all == Rows IN [r \in DOMAIN all |-> value(all[r])]

input_ids == Rows
positions == OfRows(LAMBDA row : row[2])
slot_mapping == OfRows(LAMBDA row : Slot(row[1], row[2]))
cu_seqlens_q == Sums([i \in DOMAIN runner.batch |-> query_len(runner.batch[i])])
cu_seqlens_k == Sums([i \in DOMAIN runner.batch |-> seqs[runner.batch[i]].len])

max_blocks == Max({ Len(block_table(s)) : s \in ToSet(runner.batch) })

\* build_block_tables pads every row with 0.
block_tables ==
    [i \in DOMAIN runner.batch |->
        [c \in 1 .. max_blocks |-> At(block_table(runner.batch[i]), c, 0)]]

Upload(name, count, value) == [name |-> name, bytes |-> 4 * count, value |-> value]

BlockTablesUpload ==
    Upload("block_tables", Len(runner.batch) * max_blocks, "block_tables" :> block_tables)

prepare_prefill ==
    << Upload("input_ids", Len(Rows), "input_ids" :> input_ids),
       Upload("positions", Len(Rows), "positions" :> positions),
       Upload("cu_seqlens_q", Len(cu_seqlens_q), "cu_seqlens_q" :> cu_seqlens_q),
       Upload("cu_seqlens_k", Len(cu_seqlens_k), "cu_seqlens_k" :> cu_seqlens_k),
       Upload("slot_mapping", Len(Rows), "slot_mapping" :> slot_mapping) >>
    \o (IF Last(cu_seqlens_k) > Last(cu_seqlens_q) THEN <<BlockTablesUpload>> ELSE << >>)

\* The four columns of a decode are one tensor.
prepare_decode ==
    << Upload("packed", 4 * Len(Rows),
              [input_ids |-> input_ids, positions |-> positions, slot_mapping |-> slot_mapping,
               context_lens |-> [i \in DOMAIN runner.batch |-> seqs[runner.batch[i]].len]]),
       BlockTablesUpload >>

\* No sequence has a repetition penalty; the parameters of a sequence are
\* named by it.
prepare_sample ==
    << Upload("temperatures", Len(runner.batch), "temperatures" :> runner.batch),
       Upload("top_ks", Len(runner.batch), "top_ks" :> runner.batch),
       Upload("top_ps", Len(runner.batch), "top_ps" :> runner.batch) >>

\* The warm-up runs a prompt of one block with no sequence behind it.
warmup_tokens == IF max_model_len < BLOCK_SIZE THEN max_model_len ELSE BLOCK_SIZE

warmup_model ==
    << Upload("input_ids", warmup_tokens,
              "input_ids" :> [r \in 1 .. warmup_tokens |-> Junk.token]),
       Upload("positions", warmup_tokens,
              "positions" :> [r \in 1 .. warmup_tokens |-> r - 1]),
       Upload("cu_seqlens_q", 2,
              [cu_seqlens_q |-> <<0, warmup_tokens>>, cu_seqlens_k |-> <<0, warmup_tokens>>]) >>

Tensor(name) == IF Holds(heap, name) THEN heap.held[name] ELSE NoTensor

NewContext ==
    CASE runner.kind = "warmup" ->
            set_context(TRUE, Tensor("cu_seqlens_q"), Tensor("cu_seqlens_q"),
                        NoTensor, NoTensor, NoTensor)
      [] runner.kind = "prefill" ->
            set_context(TRUE, Tensor("cu_seqlens_q"), Tensor("cu_seqlens_k"),
                        Tensor("slot_mapping"), NoTensor, Tensor("block_tables"))
      [] runner.kind = "decode" ->
            set_context(FALSE, NoTensor, NoTensor, Tensor("packed"), Tensor("packed"),
                        Tensor("block_tables"))

\* Every tensor of a run, in the order of its allocation.
RunTensors ==
    << "input_ids", "positions", "cu_seqlens_q", "cu_seqlens_k", "slot_mapping", "packed",
       "block_tables", "temperatures", "top_ks", "top_ps", "hidden", "qkv", "attended",
       "softmax_lse", "last", "logits", "output" >>

-----------------------------------------------------------------------------
(* The program of the host *)

Doing(pc) == runner.pc = pc

Goto(pc) == runner' = [runner EXCEPT !.pc = pc]

\* warmup_model is the first run of the constructor.
Construct ==
    /\ Doing("construct")
    /\ runner' = [runner EXCEPT !.pc = "inputs", !.todo = warmup_model]
    /\ UNCHANGED <<kernelVars, graph_runner, seqs, bounds>>

\* A run starts: the staging buffer is written from its start again.
BeginRun(batch, kind) ==
    /\ Doing("idle") /\ bounds.runs < MaxRuns /\ batch # << >>
    /\ runner' = [runner EXCEPT !.pc = "prepare", !.kind = kind, !.batch = batch]
    /\ pinned' = reset_pinned_staging(pinned)
    /\ bounds' = [bounds EXCEPT !.runs = @ + 1]
    /\ UNCHANGED <<heap, memory, stream, staged, config, kv, context, host, graph_runner, seqs>>

InOrder(S) == FlattenSeq([s \in SeqId |-> IF s \in S THEN <<s>> ELSE << >>])

\* A prefill takes the first of those that wait, a decode all that run.
Begin ==
    LET waiting == InOrder({ s \in SeqId : seqs[s].status = "waiting" })
        running == InOrder({ s \in SeqId : seqs[s].status = "running" })
    IN  \/ \E n \in 1 .. Len(waiting) : BeginRun(SubSeq(waiting, 1, n), "prefill")
        \/ BeginRun(running, "decode")

PrepareInputs ==
    /\ Doing("prepare")
    /\ runner' = [runner EXCEPT !.pc = "inputs",
                    !.todo = IF is_prefill THEN prepare_prefill ELSE prepare_decode]
    /\ UNCHANGED <<kernelVars, graph_runner, seqs, bounds>>

UploadNext ==
    /\ runner.pc \in {"inputs", "sampling"} /\ runner.todo # << >>
    /\ make_device_tensor(heap, Head(runner.todo).name, Head(runner.todo).bytes,
                          Head(runner.todo).value)
    /\ runner' = [runner EXCEPT !.todo = Tail(@)]
    /\ UNCHANGED <<memory, config, kv, context, host, graph_runner, seqs, bounds>>

SetContext ==
    /\ Doing("inputs") /\ runner.todo = << >>
    /\ context' = NewContext
    /\ runner' = [runner EXCEPT !.pc = "sampling",
                                !.todo = IF runner.kind = "warmup" THEN << >> ELSE prepare_sample]
    /\ UNCHANGED <<memoryVars, config, kv, host, graph_runner, seqs, bounds>>

\* What run allocates and enqueues, and where it goes from there.
Enqueues(h, ops, pc) ==
    /\ heap' = h
    /\ stream' = stream \o ops
    /\ Goto(pc)
    /\ UNCHANGED <<memory, pinned, staged, config, kv, context, host, graph_runner, seqs, bounds>>

SampleInputsReady == Doing("sampling") /\ runner.todo = << >>

GraphPath == runner.kind = "decode" /\ ~config.enforce_eager /\ available(Len(runner.batch))

\* The inputs: tensors of their own, or columns of one.
Input(name) == IF Holds(heap, name) THEN heap.held[name] ELSE heap.held["packed"]

rows == IF runner.kind = "warmup" THEN warmup_tokens ELSE Len(Rows)

\* run_model: without a graph.  What the layer allocated goes back while its
\* kernels are still enqueued.
RunModel ==
    /\ SampleInputsReady /\ ~GraphPath
    /\ \E sizes \in {Intermediates(rows, uses_flash(context))} :
       \E h1 \in {allocate(heap, "hidden", sizes[1])} :
       \E h2 \in {allocate(h1, "qkv", sizes[2])} :
       \E h3 \in {allocate(h2, "attended", sizes[3])} :
       \E h4 \in {IF Len(sizes) = 3 THEN h3 ELSE allocate(h3, "softmax_lse", sizes[4])} :
           LET names == SubSeq(<<"hidden", "qkv", "attended", "softmax_lse">>, 1, Len(sizes))
           IN  Enqueues(return_blocks(h4, <<"hidden", "qkv", "softmax_lse">>),
                        forward([i \in DOMAIN names |-> h4.held[names[i]]],
                                Input("input_ids"), Input("positions"), context, rows),
                        "head")

CopyGraphInputs ==
    /\ SampleInputsReady /\ GraphPath
    /\ Enqueues(heap, CopiesOfInputs(Len(runner.batch), Input("input_ids"), Input("positions")),
                "tables")

Replay ==
    /\ Doing("tables") /\ ~TablesTooWide(max_blocks)
    /\ Enqueues(heap, CopyOfTables(Len(runner.batch), max_blocks)
                        \o replay(Len(runner.batch)).ops, "head")

\* The hidden states: the tensor the layer left, or the output of the graph.
Hidden == IF Holds(heap, "attended") THEN heap.held["attended"]
          ELSE replay(Len(runner.batch)).output

num_logits == IF runner.kind = "warmup" THEN 1 ELSE Len(runner.batch)

LogitsOp(h, input) ==
    [kind |-> "lm_head", to |-> h.held["logits"], input |-> input, rows |-> num_logits]

AfterLogits == IF runner.kind = "warmup" THEN "sync" ELSE "sampler"

\* compute_logits: of a decode all rows, of a prefill the last row of each
\* sequence.
ComputeLogits ==
    LET h == allocate(heap, "logits", num_logits * HiddenBytes) IN
    /\ Doing("head") /\ ~context.is_prefill
    /\ Enqueues(return_blocks(h, <<"attended">>), <<LogitsOp(h, Hidden)>>, AfterLogits)

ComputeLastLogits ==
    /\ Doing("head") /\ context.is_prefill
    /\ \E g \in {allocate(heap, "last", num_logits * HiddenBytes)} :
       \E h \in {allocate(g, "logits", num_logits * HiddenBytes)} :
           Enqueues(return_blocks(h, <<"attended", "last">>),
                    << [kind |-> "gather", to |-> h.held["last"], input |-> Hidden,
                        cu_seqlens_q |-> context.cu_seqlens_q, rows |-> num_logits],
                       LogitsOp(h, h.held["last"]) >>, AfterLogits)

\* Sampler::forward: the tokens, and their copy to the host.
Sample ==
    LET h == allocate(heap, "output", 4 * Len(runner.batch)) IN
    /\ Doing("sampler")
    /\ Enqueues(h, << [kind |-> "sample", to |-> h.held["output"], logits |-> h.held["logits"],
                       temperatures |-> h.held["temperatures"], top_ks |-> h.held["top_ks"],
                       top_ps |-> h.held["top_ps"], rows |-> Len(runner.batch)],
                      [kind |-> "d2h", from |-> h.held["output"]] >>, "sync")

\* What leaving run or warmup_model does, by return or by exception.
Leave(pc) ==
    /\ heap' = return_blocks(heap, RunTensors)
    /\ context' = reset_context
    /\ runner' = [runner EXCEPT !.pc = pc, !.todo = << >>]
    /\ UNCHANGED <<memory, stream, pinned, staged, config, kv, host, graph_runner>>

\* synchronize_stream has returned.  The caller appends the tokens.
Return ==
    /\ Doing("sync") /\ Synchronized
    /\ Leave(IF runner.kind = "warmup" THEN "kv_cache" ELSE "idle")
    /\ seqs' = [s \in SeqId |->
                    IF s \notin ToSet(runner.batch) THEN seqs[s]
                    ELSE IF seqs[s].len = MaxLen THEN [seqs[s] EXCEPT !.status = "gone"]
                    ELSE [status |-> "running", len |-> seqs[s].len + 1, cached |-> 0]]
    /\ UNCHANGED bounds

allocate_kv_cache ==
    /\ Doing("kv_cache")
    /\ kv' = [slot \in Slots |-> [value |-> Unwritten, scale |-> Unwritten]]
    /\ runner' = IF config.enforce_eager THEN [runner EXCEPT !.pc = "idle"]
                 ELSE [runner EXCEPT !.pc = "buffers", !.todo = ZeroInputs]
    /\ UNCHANGED <<memoryVars, config, context, host, graph_runner, seqs, bounds>>

ZeroNext ==
    /\ Doing("buffers") /\ runner.todo # << >>
    /\ zeros(heap, Head(runner.todo).name, Head(runner.todo).bytes, Head(runner.todo).value)
    /\ runner' = [runner EXCEPT !.todo = Tail(@)]
    /\ UNCHANGED <<memory, pinned, staged, config, kv, context, host, graph_runner, seqs, bounds>>

Probe ==
    /\ Doing("buffers") /\ runner.todo = << >>
    /\ CaptureProbe
    /\ Goto("capture")
    /\ UNCHANGED <<seqs, bounds>>

Capture ==
    /\ Doing("capture")
    /\ CaptureGraph
    /\ UNCHANGED <<runner, seqs, bounds>>

Captured ==
    /\ Doing("capture") /\ Uncaptured = {}
    /\ Goto("idle")
    /\ UNCHANGED <<kernelVars, graph_runner, seqs, bounds>>

\* A cudaMalloc fails while the inputs of a run are prepared (one that fails
\* in the constructor leaves no runner).  The caller tries a decode again and
\* gives up the sequences of a prefill.
AbandonPrefill ==
    seqs' = [s \in SeqId |->
                IF is_prefill /\ s \in ToSet(runner.batch)
                THEN [seqs[s] EXCEPT !.status = "gone"] ELSE seqs[s]]

MallocFails ==
    /\ runner.pc \in {"inputs", "sampling"} /\ runner.todo # << >> /\ runner.kind # "warmup"
    /\ bounds.failures < MaxFailures
    /\ NeedsMalloc(heap, Head(runner.todo).bytes)
    /\ Leave("idle")
    /\ AbandonPrefill
    /\ bounds' = [bounds EXCEPT !.failures = @ + 1]

\* A sequence has outgrown max_model_len.
TablesRefused ==
    /\ Doing("tables") /\ TablesTooWide(max_blocks)
    /\ Leave("idle")
    /\ UNCHANGED <<seqs, bounds>>

Host ==
    \/ Construct \/ PrepareInputs \/ UploadNext \/ SetContext
    \/ RunModel \/ CopyGraphInputs \/ Replay
    \/ ComputeLogits \/ ComputeLastLogits \/ Sample \/ Return
    \/ allocate_kv_cache \/ ZeroNext \/ Probe \/ Capture \/ Captured
    \/ TablesRefused

Stream == Execute /\ UNCHANGED <<graph_runner, seqs, runner, bounds>>

Caller ==
    \/ \E s \in SeqId : Finish(s)
    \/ \E s \in SeqId : Preempt(s)
    \/ Begin

RMNext == Host \/ Stream \/ Caller \/ MallocFails

\* The thread in run() goes on, and so does the device.
RMSpec == RMInit /\ [][RMNext]_vars /\ WF_vars(Host) /\ WF_vars(Stream)

-----------------------------------------------------------------------------
(* Properties *)

\* Every block is in one place, what is staged lies within its buffer, and a
\* run that is over, or was given up, holds no tensor any more
\* (CudaAllocator::allocate and return_block, ModelRunner::pinned_alloc).
RMTypeOK ==
    /\ BlocksPartitioned
    /\ pinned.offset <= pinned.bytes
    /\ \A o \in DOMAIN staged : o < pinned.bytes
    /\ runner.pc = "idle" => DOMAIN heap.held \cap ToSet(RunTensors) = {}

\* The token a row should get: every key up to its own position, and its own
\* parameters.
Expected(s) ==
    LET key(pos) == [token |-> <<s, pos>>, position |-> pos]
    IN  [logits |-> [query |-> key(seqs[s].len - 1),
                     keys |-> [k \in 1 .. seqs[s].len |-> key(k - 1)]],
         parameters |-> {s}]

\* Whatever was still enqueued when the host wrote, freed and reused: the
\* tokens a run returns are computed, row by row, from the tokens, the cached
\* prefix and the parameters of that row's own sequence
\* (ModelRunner::run, CudaGraphRunner::run, Sampler::forward).
ResultsOfOwnBatch ==
    (runner.pc = "sync" /\ runner.kind # "warmup" /\ Synchronized) =>
        host = [i \in DOMAIN runner.batch |-> Expected(runner.batch[i])]

\* Outside construction a row of the cache changes only to the K and V of a
\* row of the batch whose slot it is: padding rows of a replay, failed runs
\* and stale inputs leave it alone (CudaGraphRunner::run, store_kvcache_kernel).
KVOnlyByBatch ==
    [][kv # << >> /\ kv' # kv /\ runner.pc \notin {"buffers", "capture"} =>
        LET changed == { slot \in Slots : kv'[slot].value # kv[slot].value }
            batch == ToSet(Rows)
        IN  \A slot \in changed : \E row \in batch :
                /\ slot = Slot(row[1], row[2])
                /\ kv'[slot].value = [token |-> row, position |-> row[2]]]_vars

\* The constructor comes to an end, and so does every run: no wait of the
\* host for the stream is for ever, and every graph finds room in a scratch
\* buffer sized by the largest (model_runner.cpp:151-176).
RunsEnd == runner.pc # "idle" ~> runner.pc = "idle"
=============================================================================
