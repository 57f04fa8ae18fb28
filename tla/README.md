# TLA+ models of nano-vllm-cpp

nano-vllm-cpp is an LLM inference engine in C++ and CUDA: it batches text
generation requests, keeps their attention keys and values (KV) in a pool of
fixed-size blocks on the GPU, shares blocks between requests with a common
prefix, and preempts requests when the pool is exhausted. This directory models
its control logic in TLA+ - requests and blocks, the runner's memory and the
stream it works on, sharded loading and collectives, down to the barriers of a
kernel -, model-checks it with TLC, and proves with TLAPS that its block
manager, scheduler, engine step, KV cache, device memory and collectives keep
their invariants, that sharded ranks compute what one would, and that both
scheduling paths implement their abstract specifications. Paths below are relative to `src/` of the
repository copy, e.g. `src/engine/scheduler.cpp` is `src/src/engine/scheduler.cpp`.

## 1. Inventory

The engine is single threaded except for tensor parallelism, where one thread
per rank executes the same forward pass. One `LLMEngine::step` is: `schedule`,
`ModelRunner::run`, `postprocess`.

| Component | State | Operations | Interacts with | Correct when |
|---|---|---|---|---|
| `Sequence` (`engine/sequence.*`) | tokens, status, cached/computed/to-process counters, block table | constructor, `append_token`, `block`, `num_blocks` | written by scheduler and block manager, read by the model runner | block arithmetic agrees everywhere; counters bracket the tokens |
| `BlockManager` (`engine/block_manager.*`) | blocks (ref count, hash, tokens), free deque, used set, hash index | `can_allocate`, `allocate`, `deallocate`, `can_append`, `may_append` | called by the scheduler for one sequence at a time | counts exact, free list a partition, a table covers its tokens, a shared block is what its readers computed |
| `Scheduler` (`engine/scheduler.*`) | waiting and running deques | `add`, `schedule` (default and chunked), `preempt`, `postprocess` | drives the block manager; results come from the model runner | nothing lost or served twice, FIFO, batches within limits, every request finishes |
| `LLMEngine` (`engine/llm_engine.*`) | config, tokenizer, runner, scheduler | constructor, `add_request`, `step`, `generate(_stream)` | composes all | output = prompt continuation up to EOS or `max_tokens` |
| `ModelRunner` (`engine/model_runner.*`) | KV cache, staging buffers, context | `prepare_prefill/decode/sample`, `run`, `allocate_kv_cache` | reads sequences, writes KV slots, calls the model | each KV slot read was written for that token and prefix |
| `ScratchAllocator`, `CudaGraphRunner` (`engine/model_runner.cpp`) | arena cursor; captured graphs per batch-size bucket | `capture`, `select_bs`, `run` | replays with copied inputs | padding rows are harmless, copies fit |
| `Config` (`core/config.*`) | limits, EOS id, block counts | `from_model_dir` | copied into scheduler and runner at construction | everyone sees the final values |
| `Context` (`utils/context.*`) | thread-local batch metadata | `set_context`, `reset_context` | runner to layers | reset on every exit |
| Tensor-parallel communicator (`utils/tensor_parallel.*`) | pending groups under mutex and condition variable | `all_reduce`, `gather` | rank threads | groups match, nobody waits for ever |
| `CudaAllocator`, pinned staging (`utils/cuda_allocator.*`, `engine/model_runner.cpp`) | free lists per bucket, staging cursor | `allocate`, `return_block`, `pinned_alloc` | every tensor | a buffer has one owner |
| `Tensor` (`utils/tensor.*`) | shape, strides, storage | views, copies | all layers | value type |
| `Tokenizer` (`utils/tokenizer.*`) | vocabulary, merge ranks | `encode`, `decode` | engine | BPE merges in rank order |
| Loader (`utils/loader.*`) | tensor registry, shards | `open`, select and slice | linear layers | each rank gets its shard |
| Attention dispatch (`layers/attention.cpp`) | none | choice of kernel and cache | context, KV cache | cached prefix is read from the right cache |
| Linear and embedding layers (`layers/linear.cpp`, `layers/embed_head.cpp`) | shard sizes | forward | communicator, loader | shards partition the rows |
| Models and other layers (`models/transformer.cpp`, `layers/*`) | parameters, residual stream | construction, registration, forward | communicator, context | all ranks compute what one would |
| Sampler (`layers/sampler.cpp`, `kernels/sampling.cu`) | shared memory of a block | `forward` | reads logits and parameters of each row | a row is sampled with its own parameters, all threads with one threshold |
| CUDA kernels (`kernels/*`) | device memory | launches on one stream | inputs by address | reads and writes only the rows, slots and columns it is meant to |

Hard behaviours: prefix sharing with blocks revived after release; a hash index
that only grows; preemption in the middle of a decode loop that holds part of
the running queue; recomputation of preempted requests; prompts that are cached
as a whole; requests that cannot fit; exceptions between `schedule` and
`postprocess`; chunked prefill's second watermark; a host that runs ahead of
its device and reuses memory the device has yet to read; graphs that replay
addresses; ranks that meet in a collective, or throw before it; reductions that
share an array between barriers. `PROJECT.json` lists each hazard at its line with the properties that
cover it, or the reason none does yet.

## 2. Modules

| Module | Models | How |
|---|---|---|
| `Sequence` | `Sequence`'s block arithmetic | constant operators on token sequences |
| `BlockManager` | `BlockManager` and the `Sequence` fields it touches | variables named as the members; each iteration of the loops of `allocate` and `deallocate` is an action, `call` holds the loop's locals |
| `BlockClient` | every client that keeps to the block manager's calling discipline | most general client: `NewRequest`, `Allocate`, `append_token`, `MayAppend`, `Release` in any order; block manager properties are stated here |
| `Scheduler` | `Scheduler` (default path, `preempt`, `postprocess`) and `LLMEngine::step` | `pc` steps through `schedule_default`, `run`, `postprocess`; `BlockManager` is extended, so its loops run in between |
| `ChunkedScheduler` | `schedule_chunked` | admission and its loop as actions; the two loops that pick candidates and spend the budget as recursive functions (`gathered`, `spent`) in one action; shares the decode loop and `postprocess` |
| `ModelRunner` | `prepare_prefill`, `prepare_decode`, `run`, the reads and writes of `Attention::forward` | composes either scheduler with a ghost of the KV cache: `kv` maps a slot to the token prefixes it may hold. One `run` is one action, or an exception that leaves the step |
| `Generation` | what a request is promised | abstract: submit a prompt, emit one token at a time, stop at EOS or `max_tokens` |
| `ParallelLayers` | weight loaders and forwards of the linear layers, embedding and head | operators on matrices of named elements; a product is a term, a sum a bag of terms |
| `Loader` | `ParameterRegistry::load`, name resolution, constructors' shapes | one action per checkpoint entry, in any order; `param`, `unread` and `loading` per rank |
| `Communicator` | the in-process and the NCCL communicator | `pending` groups and `enqueued` calls; one operator per method |
| `TensorParallel` | `TransformerForCausalLM` on all ranks | passes through four stages, each of which ends in a collective; ranks throw, and passes are tried again |
| `CudaAllocator` | `CudaAllocator`, pinned staging, the stream | `heap`, `staged` and `pinned` are the host's, `memory` and `stream` the device's |
| `DeviceKernels` | `Context` and the kernels of a decoder layer and the sampler | one action per kind of operation at the head of the stream |
| `CudaGraphRunner` | `ScratchAllocator`, `CudaGraphRunner` | a graph is the list of operations captured, with their addresses |
| `RunnerMemory` | `ModelRunner`: construction and `run` | a host program `runner.pc`; the stream executes in between; the caller starts batches |
| `Sampling` | the top-k search of `sample_tokens_topk_topp_kernel` | warps as processes that meet in `syncthreads` |
| `QueueProofs` | | lemmas about duplicate-free sequences, division, recursive functions, sums and concatenation |
| `SequenceProofs` | | lemmas about block arithmetic and chains of blocks |
| `BlockClientProofs` | | TLAPS proofs about `BlockClient`: counts and lists; tables, contents and chains of hashes |
| `SchedulerProofs` | | TLAPS proofs about `Scheduler`, on top of an instance of `BlockClientProofs` |
| `ModelRunnerProofs` | | TLAPS proofs about `ModelRunner` over either scheduling path, on top of `SchedulerProofs` |
| `KVCacheProofs` | | TLAPS proofs about the contents of the KV cache in `ModelRunner`, on top of `ModelRunnerProofs` |
| `RunnerMemoryProofs` | | TLAPS proofs about `RunnerMemory` and the allocator, staging buffer and graphs below it |
| `TensorParallelProofs` | | TLAPS proofs about `TensorParallel`, the loaders, layers and communicators below it: groups, then shards, then what the ranks compute |
| `MC...` | | prompts, requests, configurations and symmetry for TLC |

Composition: `BlockClient` and `Scheduler` both extend `BlockManager`, which
extends `Sequence`. `Scheduler` instantiates `BlockClient` (`KeepsProtocol`) and
`Generation` (`ImplementsGeneration`) under refinement mappings, so that
whatever holds of the general client is inherited by the real scheduler.

A second family is about one forward pass and its memory. `CudaAllocator`,
`DeviceKernels`, `CudaGraphRunner` and `RunnerMemory` extend one another in this
order; `ParallelLayers`, `Loader`, `Communicator` and `TensorParallel` do too
(the two middle ones side by side). `ModelRunner` takes a run as one step, with
the sequences of the real scheduler; `RunnerMemory` opens that step up and
replaces the scheduler by a caller that starts any prefill or decode.

Correspondence and abstractions:

- Variables have the members' names without the trailing underscore. A
  `Sequence` is a member of `SeqId`; its object is reused after it finished,
  while the program creates a new one (no property depends on an old one).
- `num_tokens` is `Len(token_ids)`; `seq_id`, temperature and the other sampling
  parameters are left out, as no control decision reads them.
- The 64-bit chain hash is the sequence of block contents itself: XXH64 is taken
  to be collision free, and a chain to differ from `kNoHash`.
- `BLOCK_SIZE` (a constant of `Sequence`) and `kvcache_block_size` (of the
  configuration) are one constant, as in every configuration the code supports.
- Asserts are compiled out by the Makefile's Release build. They are properties
  (`MayAppendAsserts`, `BatchNotEmpty`, parts of `FreeUsedPartition`), never
  guards.
- The model's token is any member of `Sampled`. In `Scheduler` a run always
  succeeds; in `ModelRunner` it throws when `prepare_prefill` or
  `prepare_decode` refuses the batch. Nothing rolls the scheduler back.
- K and V are named by the prefix they were computed for. In each layer
  `store_kvcache` writes the whole batch before the attention reads, so a run
  is one step, and a slot written twice in a batch may hold either content.
- `LLMEngine` never sets `enable_chunked_prefill`; the chunked runs model the
  loop of `schedule`, `run`, `postprocess` that the tests drive.
- A loop that has nothing to do is not called: `BeginAllocate` requires a token
  and `BeginDeallocate` a table entry, which every caller in the scheduler has.
- `RunnerMemory`: a tensor is a name for a block; the stream finds in a block
  what is there when the operation is executed. K and V are named by their token
  and position; a result is the tree of everything it was computed from, so that
  one wrong read anywhere makes it unequal to `Expected`. One decoder layer
  stands for all, as the layers run one after the other on the same tensors.
  Captures are single actions, as they synchronise on either side. The KV cache
  has a given number of blocks: the code sizes it from the memory that is free
  before the 512 MB scratch probe, an arithmetic left out.
- `RunnerMemory`: `cudaMalloc` fails only while inputs are prepared. The caller,
  which is not part of the repository's engine (that one lets the exception
  pass), then gives a prefill up and tries a decode again.
- `TensorParallel`: head_dim is 1, a pass has one token, RoPE and the KV cache
  are left out, and the order of floating-point summation is not told apart.
  `LLMEngine` builds rank 0 only; the ranks run as the tests run them, in lockstep in
  one thread (`tests/test_models.cpp:286`) or each in a thread with NCCL.
- `Sampling`: a warp's shuffles keep its threads in step, so that a warp is one
  process; logits are integers spread wider than the width at which the search
  stops.
- Operators preceded by a comment "Fault" are deliberately wrong variants of the
  next definition, used to test that the properties notice such a mistake. No
  specification uses them.

## 3. Runs

| Run | Question | Bounds |
|---|---|---|
| `block_client` | do counts, free list, tables and sealed contents survive sharing, revival and reuse in any order? | 3 sequences, 2 blocks of 3 tokens, lengths to 6, prompts that share a first block or nothing |
| `prefix_sharing` | do sequences that share a block share the prefix? **Violated** | 2 sequences, 4 blocks of 2 tokens |
| `scheduler_contention` | are queues, statuses, tables and batches consistent and fair? | 3 requests of 2 blocks, 3 blocks, batches of 2 |
| `scheduler_service` | does the scheduler keep the block manager's protocol, generate what is promised and finish every request? | 2 requests, one ignoring EOS, one cached as a whole when it comes again; 3 blocks; fairness |
| `scheduler_oversized` | is a batch ever empty? **Violated** for a request larger than the pool | 1 kind of request, 4 blocks needed, 3 there |
| `runner_default` | does every attention read the K and V of its own prefix? | 2 sequences, 3 blocks, prompts that share a block or not, preemption |
| `runner_chunked` | do queues, tables, counts, budgets and outputs stay right with chunks and failing runs? | 3 sequences, 3 blocks, 3 tokens of prefill a step |
| `chunked_tables` | has a prefill all its blocks? **Violated** | one sequence, chunked prefill |
| `int8_prefix` | the question of `runner_default`, for an int8 cache. **Violated** | two equal prompts |
| `tensor_parallel` | do sharded models compute what one does, whatever the layout and order of the checkpoint, the communicator and the passes before? | 11 configurations of 1 to 3 ranks, one layer, 4 heads on 2 KV heads, 3 passes |
| `runner_memory` | does a host that is ahead of its device change a result or a KV row? | 8 configurations (eager, int8, fused kernels), prompts of 3, 1 and 3 tokens, 3 runs, one failed allocation, one departure |
| `sampling_threshold` | do all warps filter a row by one right threshold? **Violated** | 2 warps, 4 columns, top_k 2 |

Why the bounds are enough for the cases that matter: blocks of two tokens make
both boundaries of `may_append` (remainder 1 and 0) occur at every second token,
blocks of three (`block_client`) add the case in between. Pools of two or three blocks for up
to three sequences of two blocks each force sharing, revival of a freed block by
a hit, its reuse by somebody else first, preemption of the back of the queue and
of the sequence itself. A chunk budget of three tokens puts chunk boundaries
inside blocks and leaves single tokens over. The prompts of `runner_default` are
such that a block's tokens tell all the tokens before it: otherwise finding 1
strikes, and the attention reads another prefix's K and V. `Lengths` is the only
bound on a counter in `BlockClient` (`Nat` under the scheduler, any set in the
theorems); in `Scheduler` `max_tokens` and the one-object-per-`SeqId` reuse bound everything. Symmetry is
used only where no liveness or refinement property is checked; no constant
distinguishes the sequences. `CHECK_DEADLOCK FALSE` throughout: an engine
without requests, a client whose pool is exhausted, a driver that has made its
last pass really stop.

`RunnerMemory.cfg`: a staging buffer of 64 bytes holds a few inputs only, so
that it grows in the middle of a prefill with copies in flight; graphs of 1, 2
and 4 rows and batches of up to 3 make padding rows; blocks of 2 tokens, a
`max_model_len` of 4 and a `MaxLen` of 5 make tables narrower, as wide and
wider than the graphs' buffer. Three runs are a prefill, a decode, and one more
that meets what both have left behind. `TensorParallel.cfg`: two query heads to a
KV head, two ranks, so that every shard begins at another offset than its rank;
three passes leave room for one that throws, one that finds its rests, and one
behind it. The configurations include those the code must refuse: three
ranks for sizes not divisible by three, a stacked QKV tensor on two ranks (whose
loader copies it whole, and finds that the shapes differ), an entry that belongs
to no parameter, two ranks without a communicator. Stacked layers are tried on a
single rank, both and gate and up alone. Not among the configurations is the one
layout that several ranks load wrongly (gate and up stacked alone, section 4).

What the passing runs show, property by property:

- `RefCountExact`: `ref_count` is the number of table entries that hold a block,
  including those `deallocate` has not reached yet.
- `FreeUsedPartition`: the free deque has each unreferenced block once, the used
  set is the rest.
- `AllocateNeverStarves`: `can_allocate` before the loop is enough.
- `SealedMatchesTokens`, `TableCovers`: a settled table has one block per
  logical block; the full ones are sealed with exactly its tokens, the partial
  one with none.
- `PartialBlockPrivate`: the block decode writes to has one holder.
- `MayAppendAsserts`: the asserts of `may_append` hold.
- `CachedWithinTable`: cached tokens are whole leading blocks.
- `SharedBlockFrozen`: a referenced sealed block never changes its tokens.
- `QueuesMatchStatus`, `TablesMatchStatus`: each unfinished request is in
  exactly one queue, the one of its status; exactly the running ones hold blocks.
- `BatchIsRunnable`, `BatchNotEmpty`, `SingleChunk`: a batch is non-empty (for
  requests that fit), within `max_num_seqs`, of running sequences with full
  tables, each once; a prefill covers the sequence in one chunk of at least one
  token.
- `FirstComeFirstServed`, `PreemptYoungest`: the service order only changes by
  arrival at its back and by completion; a preempted sequence is younger than
  every one that keeps running.
- `KeepsProtocol`, `ImplementsGeneration`: the refinements. `Generation` speaks of
  the prompt, of the number of tokens and of where they stop; a token is any of
  `Sampled`. With chunked prefill it is met although the attention may read the
  wrong rows (section 4).
- `AttendsToItsPrefix`, `ComputedIsMaterialized`: every slot an attention reads
  holds exactly the token and prefix it stands for, also in a block that was
  cached, shared, revived or recomputed; a watermark never runs ahead of the
  cache.
- `HitsKnowTheirPrefix`: every cache hit finds the block as it was indexed, with
  the chain hash of all the tokens before it; this is where finding 1 would
  enter, and what the theorems about the cache assume.
- `ChunksWithinBudget`, `CountsExact`, `KeepsTokensOfWholeSequences`: chunks
  stay within the budgets and are handed out in queue order, counts and free
  list stay exact even when runs throw, and a token is kept exactly when the
  run computed the sequence to its end.
- `EveryRequestFinishes`: see fairness.
- `RanksMatchReference`: after each stage every rank's tensor is, as a term, the
  one a single rank with the unsharded checkpoint computes.
- `NoStaleReduction`: a completed group holds tensors of the current pass only.
  It relies on lockstep: the first rank of a pass finds its own old tensor and
  is turned away (`duplicate rank`), before anyone could complete the old group.
- `PassesComplete`: a pass over a communicator that no aborted pass has used
  completes, unless a rank throws. Once an aborted pass has left a tensor in a
  group, the in-process communicator rejects every pass that comes to it: no
  operation clears a group.
- `ResultsOfOwnBatch`: the tokens a run returns depend exactly on the tokens,
  prefix and parameters of their own rows.
- `KVOnlyByBatch`: outside construction KV rows change only in the slots of the
  batch, to its own K and V.
- `RMTypeOK`: also that no block has two owners and no run leaves a tensor.
- `RunsEnd`: the constructor and every run come to an end; a probe of
  anything but the largest batch would leave a capture without room.

Fairness. `RMSpec` has weak fairness of the thread in `run` (`Host`) and of the
device, which executes what is enqueued (`Stream`); `TPSpec` of the ranks'
stages and of NCCL once all ranks have called. Nothing is assumed of callers,
exceptions and failures. `FairSpec` adds weak fairness of the engine's own steps and nothing
about arrivals or sampled tokens: `generate_stream` (`engine/llm_engine.cpp`
151-181) calls `step` as long as `is_finished` is false, and every action of
`EngineStep` is a piece of that call. The property assumes that every request
fits alone in the pool and the budget (`Fits`; otherwise see
`scheduler_oversized`), and that arrivals eventually stop: `schedule_default`
prefers a prefill over decoding at every step, so that a stream of requests
that finish in their prefill postpones all decoding for ever.

## 4. Disagreements between code and documentation

Each is the counterexample of a run:

1. `SharedOnlySamePrefix` (`engine/block_manager.cpp:84`). A hit compares only
   the tokens of the block, not its hash, with the index entry; entries are
   never erased. After block 0 was sealed as "B behind A" and later reused and
   sealed as "B behind C", a request "A B" whose first block hits finds the old
   entry, sees B's tokens and shares a block whose KV was computed behind C. The
   documents say that sharing means a common prefix (`ARCHITECTURE.md:347`,
   `docs/block_manager.html:273`).
2. `BatchNotEmpty` (`engine/scheduler.cpp:96`). A request admitted while short
   may outgrow the pool. It preempts itself, fails `can_allocate` from then on,
   and `schedule` returns empty batches for ever (or aborts, with asserts).
   `docs/interview_star.html:803` says `can_allocate` intercepts this.
3. `PrefillHasItsBlocks` (`engine/scheduler.cpp:144`). A decode step appends a
   token and leaves `num_computed_tokens` alone, so the next step takes the
   sequence for one that is still prefilling and sends it to `prepare_prefill`
   without `may_append`; at a length of 1 modulo the block size the table is too
   short and `model_runner.cpp:505` throws, in every later step too.
4. `AttendsToItsPrefix`, int8 cache (`layers/attention.cpp:142`). A prefill
   behind a cached prefix has keys for its new tokens only, while
   `cu_seqlens_k` counts the prefix. `docs/interview_star.html:748` promises
   prefill at the original precision.
5. `MasksAllButTopK` (`kernels/sampling.cu:262`). The maximum is read from
   `s_vals[0]`, and the next statement that touches the array, with no barrier
   in between, is the write of the first warp's minimum to the same entry. A
   warp that reads late starts the search from another bound. The counts of
   consecutive iterations share `s_count[0]` in the same way (lines 294 and
   304). With one more barrier after each read the property holds.
   `kernels/sampling.cu:283` says the search finds the k-th largest value.

Seen while modelling, without a run of their own (set the constants of
`MCModelRunner` accordingly to reproduce the first two):

- `AttendsToItsPrefix` with chunked prefill (`engine/scheduler.cpp:196`). A
  sequence with one token left to compute, such as a one-token prompt, is
  decoded at once. `may_append` opens a block for a token that `allocate` has
  already placed; the run writes to the new block and reads the old one.
  `docs/interview_star.html:425` promises bit-exact output.
- `ComputedIsMaterialized` with chunked prefill (`engine/scheduler.cpp:130`).
  Blocks are indexed at admission but computed over several steps; a second
  request that continues the first one's prompt takes them as cached and
  computed. `sequence.h:39`.
- A fully cached prompt is charged 0 tokens of the step's budget and processes
  1 (`engine/scheduler.cpp:51`, against `ARCHITECTURE.md:166`), and its
  `num_computed_tokens` is one less than its `num_cached_tokens`
  (`scheduler.cpp:56`, against `sequence.h:40`).
- `RanksMatchReference` for a checkpoint that stacks gate and up but not QKV, on
  several ranks (`layers/linear.cpp:494`). The loader slices the stacked tensor by
  rows as if it were one output: the first ranks get gates only, the last ones
  ups only, without an error, and each multiplies halves of the same kind.
  `docs/inference_dataflow.html:689` says that the two must be loaded by
  `shard_id`; nothing refuses the other way, as the loader of a stacked QKV tensor
  does. Add `Configuration(2, "gate_up", FALSE, FALSE, "in_process")` to
  `AllConfigurations` to see it.
- The prefill attention kernels reuse shared memory in the same way as finding 5:
  all warps read `s_reduce[0]` (`kernels/attention.cu:182` and 282), and with no
  barrier in between the next key's `block_reduce_sum` writes it (line 90). With more than one warp (a `head_dim` above 32)
  a warp may take another key's score. The decode kernel has a warp per head and
  is not affected. `DeviceKernels` takes a kernel as one step and does not show it.
- The penalty inputs repeat a token as often as it occurs; the comment at
  `engine/model_runner.cpp:684` calls the kernel idempotent, which multiplies or
  divides once per occurrence.
- The next run overwrites the staging buffer from its start
  (`engine/model_runner.cpp:833`). A run that returns has synchronised; one that
  throws has not, and its copies may fetch the inputs of the next.
  `docs/interview_star.md:121` ties the cursor to the lifetime of a run.

## 5. Proofs

Theorems hold for all values of the constants that satisfy the assumptions;
the property is the one the runs check, by the same name.

| Module | Theorem | States |
|---|---|---|
| `BlockClientProofs` | `InvariantHolds` | `Spec => []IInv`, the invariant the next four follow from |
| | `TypeCorrect`, `RefCountsExact`, `FreeListExact`, `NeverStarves` | `TypeOK`, `RefCountExact`, `FreeUsedPartition`, `AllocateNeverStarves` |
| | `ContentHolds` | `Spec => []ContentInv`, the invariant of tables and contents |
| | `TablesCover`, `SealedExact`, `PartialPrivate`, `MayAppendAssertsHold`, `CachedWithin` | `TableCovers`, `SealedMatchesTokens`, `PartialBlockPrivate`, `MayAppendAsserts`, `CachedWithinTable` |
| | `SharedFrozen` | the action property `SharedBlockFrozen` |
| | `ChainsHold` | `Spec /\ []HitsKnowTheirChain => []ChainInv`: sealed blocks carry the chain of their users |
| | `SharingIsByPrefix` | then `SharedOnlySamePrefix` holds, so that finding 1 has no other cause |
| `SchedulerProofs` | `SchedulerInvariant` | `Spec => []SInv`, the invariant of the default path |
| | `TypeCorrect`, `QueuesExact`, `TablesExact`, `BatchRunnable`, `SingleChunks` | `TypeOK`, `QueuesMatchStatus`, `TablesMatchStatus`, `BatchIsRunnable`, `SingleChunk` |
| | `ServesInOrder`, `PreemptsYoungest` | the action properties `FirstComeFirstServed`, `PreemptYoungest` |
| | `ProtocolKept` | `KeepsProtocol`: the scheduler refines the block manager's client |
| | `BlocksSafe` | so every invariant of `BlockClientProofs` holds under the scheduler |
| | `GenerationImplemented` | `ImplementsGeneration`: the scheduler refines `Generation` |
| | `BatchesNotEmpty` | `BatchNotEmpty`, if every request `Fits` |
| `ModelRunnerProofs` | `EngineInvariant` | `RunnerSpec => []EngineInv`, whichever path is taken |
| | `DefaultNeverThrows` | without chunked prefill `RunnerSpec` implements `Spec` of the scheduler and never takes `RunThrows` |
| | `EngineQueuesExact`, `EngineTablesExact`, `EngineCountsExact` | `QueuesMatchStatus`, `TablesMatchStatus`, `CountsExact` |
| | `ChunksWithin` | `ChunksWithinBudget`, for chunked prefill |
| | `EngineServesInOrder`, `EnginePreemptsYoungest`, `KeepsExactly` | the action properties `FirstComeFirstServed`, `PreemptYoungest`, `KeepsTokensOfWholeSequences` |
| | `EngineGenerates` | `ImplementsGeneration`: chunks, preemption and thrown runs lose, repeat and add no token (of their values it says nothing) |
| | `EngineTypeCorrect` | `KVTypeOK` |
| `KVCacheProofs` | `CacheHolds` | without chunked prefill, `RunnerSpec /\ []HitsKnowTheirPrefix => []KVInv` |
| | `ComputedMaterialized` | then `ComputedIsMaterialized` |
| | `AttendsRight` | and, for a cache that is not int8, `AttendsToItsPrefix` |
| | `HitsOfPositionalTexts` | for a `Positional` workload, `HitsKnowTheirPrefix` |
| | `PositionalTextsAttendRight` | so for these `AttendsToItsPrefix` and `ComputedIsMaterialized`, with no condition on the behaviour |
| | `ShortTextsArePositional` | a workload whose texts stay below two blocks is `Positional` |
| `RunnerMemoryProofs` | `RunnerMemoryTypeOK` | `RMSpec => []RMTypeOK`: one owner per block, staging within its buffer, no tensor left by a run |
| `TensorParallelProofs` | `GroupsConsistent` | `TPSpec => []TPInv`, for any number of ranks |
| | `TypeCorrect`, `ReductionsFresh` | `TPTypeOK` and the action property `NoStaleReduction` |
| | `ReferenceInvariant` | `TPSpec => []ReferenceIInv`, the invariant of loading and of what the stages compute |
| | `RanksHoldShards` | a rank that has loaded its checkpoint has its shard of every parameter |
| | `RanksComputeReference` | `RanksMatchReference`, for any number of ranks, sizes of the model and order of the checkpoint, and every layout but that of `SlicesPartsOnly` |

`QueueProofs` has the lemmas the others share: `RemoveFirst`, `Append`, `Head`,
`Tail`, `Last`, `Front` and concatenation of duplicate-free sequences, as the
free deque, the queues and the allocator's lists use them. `SequenceProofs`
adds the arithmetic of `num_blocks`, `block` and of multiples of the block size.

`QueueProofs` also has what stands in for induction over data, whose theorems in the
library take an operator as parameter and cannot be used. `LoopInduction` is
stated for a set: if `T` contains 0 and with `k - 1` also `k`, up to `n`, it
contains `0 .. n`. `LoopFunction` gives a recursive function over `0 .. n` from
a step function, and `SumInsert` the sum over a set with one member more; `FlattenPicked` describes what a concatenation of picked elements
contains. With them what the loops `gathered` and `spent` compute is proved for every queue,
`Chain` is shown to be the hash the loop of `allocate` builds up (`ChainAppend`,
`ChainPrefix`, in `SequenceProofs`), and `FlattenElement` says where a row of a sequence is in the
concatenation that `cu_seqlens` index.

### Assumptions

`BlockSizeAssumption` (`BLOCK_SIZE >= 2`: with one-token blocks `len % 1 == 1`
never holds), `NumBlocksAssumption` (the constructor's caller guarantees a
block), `SeqIdAssumption` (finitely many sequence objects), prompts are
non-empty token sequences (`add_request` rejects an empty one), samples are
tokens, limits are positive. `ConfigurationsAssumption` and
`GroupKeysAssumption`: at least one rank (`tensor_parallel.cpp:51`), and a
group for each of the four collectives of a pass. `SizesAssumption`: positive
sizes, and query heads in equal groups per KV head, as `layers/attention.cpp:53`
requires; that the ranks divide the sizes is no assumption but what
`Divisible` tests, as the layers' constructors do. `AllocatorAssumption`,
`KernelsAssumption`, `GraphAssumption` and `RunnerAssumption`: sizes that
`Config` and the model's shape make positive, and prompts of 1 to `MaxLen`
tokens.

Some theorems have a hypothesis beyond these. `BatchesNotEmpty`: every request `Fits`,
with its completion, into the pool and the budget of a step. The code does not
check it, and `scheduler_oversized` shows what happens without it; the theorem
says that nothing else can empty a batch.

The theorems of `KVCacheProofs`, and `ChainsHold` and `SharingIsByPrefix`, have
one: that every cache hit finds the block as it was indexed
(`HitsKnowTheirChain`, of the block manager's client; `HitsKnowTheirPrefix` is the
same of the engine). It is a property of the behaviour, not of a constant, since
the code compares the tokens of one block and trusts the index for those before
it. `prefix_sharing` shows a behaviour that breaks it, and
the theorems say that this one comparison is all there is to finding 1.

The last three theorems of `KVCacheProofs` put a condition on the requests in
its place. `Texts` are the token sequences an unfinished request may come to
have: its prompt and what may have been sampled after it, at most
`max_tokens - 1` tokens of which none ends it. A workload is `Positional` if equal
full blocks of any two of these texts have equal chains, that is, if the tokens
of a block tell all those before it. Where a block is as long as a paragraph and
nobody repeats one, this is so; prompts that concatenate the same documents in
different orders are what breaks it. The requests of `runner_default` are
`Positional`: a second block of theirs has the same tokens as another one only
behind the same first block. So is every workload whose texts stay below two
blocks (`ShortTextsArePositional`): with a first block only, there is no prefix
to mistake.

`ReferenceInvariant`, `RanksHoldShards` and `RanksComputeReference` have
`SlicesPartsOnly`, about the layouts of checkpoints (see below).

All theorems about the cache are
about the default path, because a second prompt that hits a block of an
unfinished chunk reads what is not there yet (section 4), and `AttendsRight` leaves the
int8 cache out because of finding 4.

### The block manager

The counts, the free list and the types are inductive only together: a type
argument needs counts that stay natural, which needs them to be exact, which
needs that a block taken from the free list has no references, which is
`FreeUsedPartition`; taking one needs a non-empty list, `AllocateNeverStarves`,
which must know that the loop has not overrun the table. `IInv` adds to them
`CallOK` (the loop indices of `allocate` and `deallocate` are in range),
`ClientOK` (a sequence due for `may_append` has a table and tokens) and
`RefsFinite` (so that cardinalities may be computed). The proof is in layers:
operators on the free list; references, and how they change when an entry is
added or dropped (`RefsAppend`, `RefsDrop`); accounts, the conjunction of
counts and lists (`AccountsShared`, `AccountsTaken`, `AccountsDropped`,
`AccountsKept`); one lemma per action; the theorems.

What blocks contain rests on `IInv` and five facts more, `ContentInv`:
`EntriesOK` is `SealedMatchesTokens` extended to the table that a running
`allocate` has built so far, which is what the loop preserves; `TableSize` is
`TableCovers` without division; `UnsealedPrivate` says that a block in use and
not sealed has one holder, so that filling or resetting it disturbs nobody;
`IndexHashed` says that "no hash" is never indexed, so that a partial block
cannot be hit; `CachedWithinTable` is its own strengthening. `SealedMatchesTokens`
needs them all: sealing a block changes what every holder sees, and only
`UnsealedPrivate` makes that the one sequence whose tokens are sealed.

`ChainInv` is about the prefix behind a block. `ChainsOK`: a full entry of a
table is sealed under `Chain`, the hash of all the tokens up to its end;
`LoopOK`: the hash `allocate` carries from block to block is the chain of what it has
put into the table, and all of that came from the cache as long as nothing
missed. Every hash is produced by the loop or by `may_append` from the entry before,
so only a hit can put a block sealed under another chain into a table. That is
what `HitsKnowTheirChain` excludes. As equal chains have equal blocks
(`ChainPrefix`), a shared sealed block has one prefix, and an unsealed one is not
shared at all (`UnsealedPrivate`).

### The scheduler

`SInv` is `QInv`, which either path keeps, with three facts that only the default
path does. `QInv` is `TypeOK`, `QueuesMatchStatus` and

- `CallAtPc`: a call is at work only where the scheduler made one;
- `CurOK`: `cur` is a sequence exactly while the loop has taken one out;
- `TablesOK`: a table is non-empty for running sequences and for those a call
  has yet to reach, and for no others;
- `BatchOK`: the batch has each sequence once, and what is left of it runs.

The default path adds

- `WorkOK`: what the sequences of a batch are to compute fits its kind;
- `CountOK`: `num_seqs` counts the batch;
- the two invariants of the block manager, for the client mapping `Pending`.

Neither side can be proved first. Each step of the scheduler is shown to be a
step of the client or to leave its variables alone (`NextClient`); this uses
`TablesOK`, `BatchOK` and `CurOK` for the client's guards. In return the types
of the scheduler's counters need `num_cached_tokens <= len`, and `may_append` a
table that covers the tokens, which are the client's. The queue properties are
proved in two stages: each action moves at most one sequence in one of four ways
(`Arrives`, `Starts`, `Yields`, `Leaves`, or `Stays`), and each of these ways
preserves `QueuesMatchStatus` and satisfies `FirstComeFirstServed` and
`PreemptYoungest`. `ProtocolKept` and `GenerationImplemented` combine the step
lemmas under the two refinement mappings.

`BatchesNotEmpty` adds `LengthOK` (the length of a live sequence stays below
what `Fits` allows) and `WorkLeft` (while a batch is being built and empty,
somebody can still be put into it). The decode loop could end without a
batch only by preempting everybody; the last one alone finds a free block, as
its table does not fill the pool (`TableHoldsAll` counts: with an empty free list
and one table, that table holds every block).

### The engine, with chunks and runs that throw

`EngineInv` is `SInv` without chunked prefill and `CInv` with it. In the first
case `prepare_prefill` and `prepare_decode` refuse nothing (`DefaultStep`: a
batch of `SInv` has tables of the size they test), so `RunThrows` is never
taken, and every theorem of `SchedulerProofs` carries over.

In the second case the client's discipline is broken: finding 3 appends a token
and then prefills, so that `ContentInv` fails and a run may throw. What survives
is `CInv`: `QInv`, the references and lists of the block manager
(`Manager!IInv`, which a client that forgets `may_append` does not disturb),
`ChunksWithinBudget`, and `ChunkWork`: while a batch is on its way to
`postprocess` each of its sequences is to compute a non-empty piece that stays
within its tokens if the step is a prefill, and nothing if it is a decode.
`ChunkWork` is what `postprocess` needs to keep `num_computed_tokens` below the
length, and what says of `KeepsTokensOfWholeSequences` that the end of a chunk
tells the end of its sequence.

`ChunksWithin` is about `Chunks`, made by a loop over a queue of any length. Its
argument: `gathered` are the running sequences still prefilling, each once
(`Candidates`); `spent` grows strictly (`SpentGrows`); so those who get any
budget are the first ones (`ServedFirst`), all but the last get what they have
left (`ChunkSizes`), and the sum is what is spent, at most the budget
(`ChunkSums`). If nobody gets any, the one token that is forced is the bound.

Both paths move sequences between the queues in the four ways of the
scheduler; a run that throws moves none. `EngineGenerates` needs of a
postprocessed token only that it is one of `Sampled` and that a finished
sequence was running, so it does not depend on what the KV cache holds.

### What the cache holds

`AttendsToItsPrefix` is about the moment before a run, `ComputedIsMaterialized`
about the time between steps. What connects them (`KVInv`) has to say of every
slot, at every `pc`, that it holds its token and prefix *or is owed*: a batch that
is being made up has allocated blocks, and perhaps indexed them for others to
hit, that only its run fills. `Owed` names the slots the run will write: from
`num_cached_tokens` on for a prefill, the last position for a decode.

- `SealedFilled`: a block sealed under a chain is filled for that prefix,
  whether or not anyone uses it; this is what a later hit relies on, also after
  the block was freed.
- `PartialFilled`: a block that is not full is filled as far as its sequence
  goes.
- `ComputedOK`: a running sequence counts no more as computed than its table
  covers.

The steps of the block manager seal and reset blocks without writing to the
cache. `ScheduleDecodeKept`, `AllocateKept` and `DeallocateKept` show that what was
filled stays filled or owed: the sequence at work joins the batch, its missed
blocks are owed, its hits were filled before (`HitsKnowTheirPrefix`), and a block
that is sealed when its last token comes was filled all but for that token, which is
owed. `RunModelKept` shows that the run pays: `StoreOne` bounds what
`store_kvcache` may leave in a slot that several rows write to, and as every
writer of a sealed block writes the same prefix (`SealedWrites`) and an unsealed
one has a single writer (`PartialWrites`), one content remains
(`StoreFills`). `AttendsRight` reads it back: through the tables a position's slot
is the one `StoreFills` is about (`BatchSlot`); without tables its row is the one
`cu_seqlens_k` points to (`RowsOfBatch`).

For `Positional` workloads `TextInv` adds two facts to `KVInv`, with which the
premise is an invariant too. `TextsOK`: an unfinished sequence has a text of one
of the requests, also between preemption and its next admission. `SealsOK`:
whatever a block contains, in use or free, is a full block of one of the texts,
and its hash is the chain of that text so far. Only `allocate` and `may_append`
seal a block, with a full block and the chain of a sequence's own tokens
(`IterationSeals`, `MayAppendSeals`: `LoopOK` and `ChainsOK` supply the chain);
everything else keeps or resets what is there. An old index entry leads to a block that
was sealed for another text, perhaps much later; if the comparison of
`block_manager.cpp:84` finds the same tokens, then by `SealsOK` the two are
full blocks of two texts, and by `Positional` they have one chain
(`PositionalHits`). Nothing is said of the index itself, which is as stale as the
code leaves it.

### The runner's memory

`RMTypeOK` is about the host: the allocator hands blocks on while the stream is
behind, and a run lets go of tensors at a dozen places, some of them behind an
exception. `RMInv` is

- `SoundHeap`: the free lists have each block that no tensor holds, once, in the
  list of its own bucket, and no two tensors have the same block;
- `StagedOK`: the cursor and all that is staged lie within the pinned buffer;
- `SeqsTypeOK`: the caller's sequences have less cached than tokens;
- `RunnerOK`: the phases of construction are those of the warm-up, and a run has a
  batch;
- `HeldOK`: at every phase the tensors held are among those that may be alive
  there (`MayHold`), and the graphs' buffers;
- `TodoOK`: the inputs yet to be uploaded have distinct names, a positive size, and
  none of them has a block yet.

`TodoOK` is what makes the partition inductive: `allocate` under a name that
still held a block would lose that block from both sides. It needs
that the inputs of a phase are named once (`PreparePrefillSound`,
`PrepareDecodeSound`, `PrepareSampleSound`, `ZeroInputsSound`) and, by `HeldOK`, that the
tensors of the last run are gone before the next begins. Positive sizes need
a batch whose sequences have something to compute, which is `SeqsTypeOK`: a
preempted sequence is admitted with its whole blocks cached, but never with all its
tokens (`CachedPrefix`). `AllocateSound` and `ReturnSound` keep `SoundHeap`,
the second for any list of names, whether or not they hold a block, as an
exception may come before any of them was allocated. `PinnedAllocSound` is about
the loop that doubles the buffer (`Doubling`): the new size holds the request,
and what was staged in the old buffer is forgotten. The stream changes none of
this (`StreamInv`). What it finds in the blocks is the subject of
`ResultsOfOwnBatch`, which stays with TLC.

### Collectives

`NoStaleReduction` is about groups that an aborted pass has left half full.
`TPInv` says that the ranks in a group are always the first ones, never all
(`GroupsOK`), and that when it is the turn of a rank other than the first, the
group it comes to holds exactly the ranks before it with tensors of this pass
(`TurnOK`). A stale group contains rank 0, so that rank 0 of the next pass is
rejected there: the last rank, the only one to complete a group, never comes to
it.

### Shards and the reference

`RanksMatchReference` compares a tensor that went through loaders, slices,
products and collectives on every rank with the result of the same operators
on the whole checkpoint. Three things have to be right together, and
`ReferenceIInv` has a part for each, on top of `TPInv`.

Loading (`LoadInv`). `ShardTensor(name, t, r)` says which part of the whole
tensor rank `r` of `t` must end up with: rows of the embedding and head, rows
of Q, K and V behind one another, of the gate and up projections likewise,
columns of the output and down projections, the norms whole. `RowsOf` says which
rows of it an entry of the checkpoint fills. The invariant is that the rows of
all entries read so far are right, and that no tensor changes its number of rows
(`SameRows`). It is inductive because the rows of different
entries of a parameter do not overlap (`EntryLoaded`, from a lemma per loader:
`VocabLoaded`, `ColumnsLoaded`, `QkvLoaded`, `GateUpLoaded`, `WholeLoaded`), and it
ends in `LoadedShards` because together they cover it (`AllRowsHaveEntries`). An
entry finds its parameter through `resolve_packed_parameter_name`, a search for
a segment of the name that is proved to hit once (`PackedEntries`) or
not at all (`PlainEntries`). A checkpoint that cannot be loaded (foreign
entries; a stacked QKV tensor with several ranks) keeps the entry at which loading
fails among the unread, so that no rank gets past it. `SlicesPartsOnly` is a
hypothesis of the three theorems: no configuration has gate and up stacked alone
on several ranks, the layout that is loaded wrongly (section 4). It is needed
in one place, where `EntryLoaded` concludes that a stacked tensor is loaded whole.

What a stage makes of the shards. The value of a tensor is a bag of terms per
row, so that a sum does not depend on its order. The share of a rank is what
the columns of its shard contribute (`RankShares`): the tokens of its part of the
vocabulary, its heads, its slice of the intermediate size. `SliceRanges` of all
ranks partition the whole (`ColumnsPartition`), and `Summed` of disjoint parts is
the bag of their union (`SummedParts`), which the reference computes in one go
(`StageSum`). A query head finds its KV head on the same rank because the shares
divide the groups evenly. The gather puts slices of the logits behind one
another (`GatheredShards`, `StageGather`); with one rank there is nothing to do
(`StageAlone`). `SummedBySolution` and `GatheredBySolution` are about the folds
by which the communicators' operators are written: the prover does not expand a
fold, but a function that solves its recursion equation is the fold.

The order of events (`ValuesOK`, `ArrivedOK`). With NCCL a rank that has
enqueued its call holds its share until the call completes. With the in-process
communicator the first ranks go on with their own shares, which are *not* the
reference, until the last one has been there; the property is about
a stage that all have been through, so the invariant must know of the ranks ahead
that their shares wait in the group in the very tensors they are using
(`ArrivedOK`). Only then does the last rank write the sum back into all of them
(`RankCompletes`). Its group holds exactly those ranks by `TPInv`: this is where
`NoStaleReduction` is needed. The residual stream has to be right at every rank's own
stage, as the next norm adds to it.

### Only model-checked

- `EveryRequestFinishes`, `PassesComplete`, `RunsEnd`: liveness under fairness
  is out of the prover's reach.
- `HitsKnowTheirPrefix` outside `Positional` workloads is false (finding 1).
- `ResultsOfOwnBatch`, `KVOnlyByBatch`: a host and a stream some
  hundred operations apart. Their invariant has to say of each operation still
  enqueued that the blocks it reads will hold, when it is executed, what they
  were allocated for, although the host has given some of them to later tensors
  by then.
- The five violated properties, of course.

## 6. Not modelled, and why

- `Tokenizer`: text conversion, sequential and without state that another
  component reads. `Config`: JSON and range checks before anything runs; its
  values are constants here. `Tensor`: a value type. cuBLAS and CUDA wrappers:
  error codes turned into exceptions.
- Parsing of SafeTensors headers and conversion of element types in the loader.
- Arithmetic of the kernels: tiling, vector loads, softmax, rotary tables,
  top-p and Gumbel noise, the penalty. What they address is in `DeviceKernels`.
  `layers/kernel_ops.cu` is a former copy of the kernels that `CMakeLists.txt`
  does not build.
- The number of KV blocks (`allocate_kv_cache`'s use of free memory), throughput
  and ordering of outputs, the EOS fallback of `LLMEngine`'s constructor (it
  comes after the scheduler has copied the id, so that it has no effect).
- Rank threads that share the allocator: its mutex is never locked, and the
  models have one host thread, as the engine has.
- An exception after a run has enqueued kernels (see section 4), and an int8
  cache behind a cached prefix in `RunnerMemory` (`int8_prefix` shows it broken).
- Biases that are stacked in the checkpoint.
- The CPU paths of the wrappers and the tests' helpers.

## 7. Plan

1. Done: scheduler, block manager and their first proofs; `ModelRunner`; the
   communicators, layers and loader; the runner's memory, graphs and kernels; the
   top-k search.
2. Done: proofs of the safety properties of the block manager and of the
   scheduler, of its refinements, of the engine step on both paths, of the
   contents of the KV cache on the default path, of the owners of device blocks,
   of the collectives' groups, and of what sharded ranks load and compute.
3. Proofs next: what the stream finds in the blocks (`ResultsOfOwnBatch`, on top of
   `RMInv`).
4. Models next: an atomic collective as the abstract specification of
   `Communicator`; exceptions of a run beyond the refusals of section 2
   (`cudaMalloc`, a graph's buffer) in `ModelRunner`, and behind enqueued kernels in
   `RunnerMemory`; the barriers of the prefill attention kernels.
