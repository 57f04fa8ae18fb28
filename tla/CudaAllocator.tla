--------------------------- MODULE CudaAllocator ---------------------------
(***************************************************************************)
(* The memory a ModelRunner works with: the caching CudaAllocator, the     *)
(* pinned staging buffer of the host, and the one stream on which every    *)
(* copy and kernel of a run is enqueued.  The host goes on while the       *)
(* stream is behind; a block that is returned goes to the next tensor of   *)
(* its bucket at once, whatever is still enqueued for it.                  *)
(***************************************************************************)
EXTENDS Integers, FiniteSets, SequencesExt

CONSTANT StagingBytes    \* the first size of the staging buffer

ASSUME AllocatorAssumption == StagingBytes \in Nat \ {0}

VARIABLES
    heap,       \* the CudaAllocator, and the tensors the host holds
    memory,     \* memory[block]: what the stream has put there so far
    stream,     \* operations enqueued and not executed, in order
    pinned,     \* pinned_staging_ and pinned_offset_
    staged      \* staged[offset]: what the host has written there

memoryVars == <<heap, memory, stream, pinned, staged>>

Undefined == << >>

-----------------------------------------------------------------------------
(* CudaAllocator *)

CeilTo(n, granularity) == ((n + granularity - 1) \div granularity) * granularity

kSmallThreshold == 2^20
kLargeGranularity == 2^21

round_size(bytes) ==
    IF bytes > kSmallThreshold THEN CeilTo(bytes, kLargeGranularity)
    ELSE CHOOSE s \in {2^i : i \in 9 .. 20} :
            s >= bytes /\ (s = 512 \/ s \div 2 < bytes)

\* Blocks are numbered in the order of their cudaMalloc; a bucket has no list
\* before the first block of its size is returned.
NewHeap == [free_blocks |-> << >>, bucket |-> << >>, held |-> << >>]

Holds(h, name) == name \in DOMAIN h.held

FreeList(h, bucket) ==
    IF bucket \in DOMAIN h.free_blocks THEN h.free_blocks[bucket] ELSE << >>

WithFreeList(h, bucket, list) ==
    [b \in DOMAIN h.free_blocks \union {bucket} |->
        IF b = bucket THEN list ELSE h.free_blocks[b]]

\* The tensors held, and this one with its block.
WithBlock(h, name, block) ==
    [n \in DOMAIN h.held \union {name} |-> IF n = name THEN block ELSE h.held[n]]

\* Fault: the block is handed out and stays in its free list.
allocateKeepingFree(h, name, bytes) ==
    LET list == FreeList(h, round_size(bytes))
        block == IF list # << >> THEN Last(list) ELSE Len(h.bucket) + 1
    IN  [free_blocks |-> h.free_blocks,
         bucket |-> IF list # << >> THEN h.bucket ELSE Append(h.bucket, round_size(bytes)),
         held |-> WithBlock(h, name, block)]

\* The block last returned to the bucket, or a new one.
allocate(h, name, bytes) ==
    LET bucket == round_size(bytes)
        list == FreeList(h, bucket)
    IN  IF list # << >>
        THEN [free_blocks |-> WithFreeList(h, bucket, Front(list)),
              bucket |-> h.bucket,
              held |-> WithBlock(h, name, Last(list))]
        ELSE [free_blocks |-> h.free_blocks,
              bucket |-> Append(h.bucket, bucket),
              held |-> WithBlock(h, name, Len(h.bucket) + 1)]

\* Nothing is cached: only then can an allocation fail.
NeedsMalloc(h, bytes) == FreeList(h, round_size(bytes)) = << >>

\* Of these tensors the blocks that go back to a bucket, the last one first.
Returned(h, names, bucket) ==
    FlattenSeq([i \in DOMAIN names |->
        LET name == names[Len(names) + 1 - i]
        IN  IF Holds(h, name) /\ h.bucket[h.held[name]] = bucket
            THEN <<h.held[name]>> ELSE << >>])

\* The deleters of tensors that leave scope: each block is pushed on the list
\* of its bucket.
return_blocks(h, names) ==
    LET gone == ToSet(names) \cap DOMAIN h.held
    IN  [free_blocks |->
            [b \in DOMAIN h.free_blocks \union { h.bucket[h.held[n]] : n \in gone } |->
                FreeList(h, b) \o Returned(h, names, b)],
         bucket |-> h.bucket,
         held |-> [n \in DOMAIN h.held \ gone |-> h.held[n]]]

Read(block) == IF block \in DOMAIN memory THEN memory[block] ELSE Undefined

-----------------------------------------------------------------------------
(* Pinned staging *)

\* No buffer exists before the first pinned_alloc.
NoStaging == [bytes |-> 0, offset |-> 0, generation |-> 0]

Aligned(bytes) == CeilTo(bytes, 16)

Grows(p, bytes) == p.generation = 0 \/ p.offset + Aligned(bytes) > p.bytes

\* Fault: a copy may still be reading the buffer that is freed.
MustDrainNever(p, bytes) == FALSE

\* cudaDeviceSynchronize before the old buffer is freed.
MustDrain(p, bytes) == Grows(p, bytes) /\ p.generation > 0

\* The size of the next buffer: doubled until the request fits behind the
\* present offset.
GrownBytes(p, bytes) ==
    LET first == IF p.generation = 0 THEN StagingBytes ELSE 2 * p.bytes
        needed == p.offset + Aligned(bytes)
        doubled[i \in 0 .. needed] == IF i = 0 THEN first ELSE 2 * doubled[i - 1]
    IN  doubled[CHOOSE i \in 0 .. needed :
                    /\ doubled[i] >= needed
                    /\ \A j \in 0 .. i - 1 : doubled[j] < needed]

\* Where the next region starts, and the buffer behind it.
pinned_alloc(p, bytes) ==
    LET q == IF Grows(p, bytes)
             THEN [bytes |-> GrownBytes(p, bytes), offset |-> 0,
                   generation |-> p.generation + 1]
             ELSE p
    IN  [at |-> q.offset, staging |-> [q EXCEPT !.offset = @ + Aligned(bytes)]]

reset_pinned_staging(p) == [p EXCEPT !.offset = 0]

-----------------------------------------------------------------------------
(* What the host enqueues. *)

\* make_device_int_tensor, make_device_float_tensor: a new tensor, its values
\* staged, and the copy of the staged bytes.
make_device_tensor(h, name, bytes, value) ==
    LET region == pinned_alloc(pinned, bytes)
        fresh == Grows(pinned, bytes)
        new == allocate(h, name, bytes)
        kept == IF fresh THEN << >> ELSE staged
    IN  /\ MustDrain(pinned, bytes) => stream = << >>
        /\ heap' = new
        /\ pinned' = region.staging
        /\ staged' = [o \in DOMAIN kept \union {region.at} |->
                        IF o = region.at THEN value ELSE kept[o]]
        /\ stream' = Append(stream, [kind |-> "h2d", to |-> new.held[name],
                                     from |-> region.at,
                                     generation |-> region.staging.generation])

\* Tensor::zeros: a new tensor, and the memset of it.
zeros(h, name, bytes, value) ==
    LET new == allocate(h, name, bytes)
    IN  /\ heap' = new
        /\ stream' = Append(stream, [kind |-> "zeros", to |-> new.held[name], value |-> value])

\* The bytes a copy finds when the stream comes to it: those staged last, or
\* nothing any more if the buffer has been freed.
Fetched(op) ==
    IF op.generation = pinned.generation /\ op.from \in DOMAIN staged
    THEN staged[op.from] ELSE Undefined

Put(block, value) ==
    [b \in DOMAIN memory \union {block} |-> IF b = block THEN value ELSE memory[b]]

Synchronized == stream = << >>

-----------------------------------------------------------------------------
\* A block belongs to one tensor or to one free list, the one of its size.
BlocksPartitioned ==
    LET held == {heap.held[n] : n \in DOMAIN heap.held}
        free(b) == ToSet(heap.free_blocks[b])
    IN  /\ \A m, n \in DOMAIN heap.held : heap.held[m] = heap.held[n] => m = n
        /\ \A b \in DOMAIN heap.free_blocks : IsInjective(heap.free_blocks[b])
        /\ \A block \in DOMAIN heap.bucket :
               block \in held <=> block \notin ToSet(FreeList(heap, heap.bucket[block]))
        /\ held \subseteq DOMAIN heap.bucket
        /\ \A b \in DOMAIN heap.free_blocks : \A block \in free(b) :
               block \in DOMAIN heap.bucket /\ heap.bucket[block] = b
=============================================================================
