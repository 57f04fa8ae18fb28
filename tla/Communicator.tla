---------------------------- MODULE Communicator ----------------------------
(***************************************************************************)
(* The tensor-parallel communicators.  The in-process one keeps a table of *)
(* pending groups and never blocks: a rank that arrives early goes on with *)
(* its own part, and the last to arrive writes the result into the tensors *)
(* of all of them.  The NCCL one enqueues the collective on the rank's     *)
(* stream, where it holds up whatever comes after it.                      *)
(*                                                                         *)
(* A tensor is [pass, stage, value]; the first two tell one allocation     *)
(* from another.  The elements of a summand are bags of terms.             *)
(***************************************************************************)
EXTENDS ParallelLayers

CONSTANT GroupKeys

NoCommunicator == "none"

VARIABLES
    tensor,     \* tensor[rank]: what the rank last passed to a collective
    pending,    \* pending[key]: the tensors of the ranks that have arrived
    enqueued    \* ranks whose NCCL collective has not completed

commVars == <<tensor, pending, enqueued>>

CommInit(ranks, nothing) ==
    /\ tensor = [r \in ranks |-> nothing]
    /\ pending = [key \in GroupKeys |-> << >>]
    /\ enqueued = {}

Members(key) == DOMAIN pending[key]

\* Two descriptors of one allocation.
SameTensor(t, u) == t.pass = u.pass /\ t.stage = u.stage

-----------------------------------------------------------------------------
(* What a completed collective leaves. *)

add_inplace(sum, shard) == [i \in DOMAIN sum |-> sum[i] (+) shard[i]]

\* Every shard is added into that of rank 0.
Summed(shards) ==
    FoldLeft(LAMBDA sum, r : add_inplace(sum, shards[r].value), shards[0].value,
             SetToSeq(DOMAIN shards \ {0}))

\* copy_last_dim_shard: the shard of a rank goes to the columns from
\* rank * source_last_dim.
copy_last_dim_shard(source, destination, rank) ==
    [i \in DOMAIN destination |->
        IF i - 1 \in rank * Len(source) .. (rank + 1) * Len(source) - 1
        THEN source[i - rank * Len(source)]
        ELSE destination[i]]

Gathered(shards, full_last_dim) ==
    LET copy(destination, r) == copy_last_dim_shard(shards[r].value, destination, r)
    IN  FoldLeft(copy, [i \in 1 .. full_last_dim |-> Zero],
                 [i \in 1 .. Cardinality(DOMAIN shards) |-> i - 1])

-----------------------------------------------------------------------------
(* InProcessTensorParallelCommunicator *)

\* Its checks: of a call for a rank that the pending group already has.
Rejects(key, rank) == rank \in Members(key)

\* Fault: the slots of the ranks are counted from one.
ArrivedFromOne(key, rank, t) == [r \in Members(key) \union {rank - 1} |->
                                    IF r = rank - 1 THEN t ELSE pending[key][r]]

Arrived(key, rank, t) == [r \in Members(key) \union {rank} |->
                            IF r = rank THEN t ELSE pending[key][r]]

LastToArrive(key, tp_size, rank) == Cardinality(Members(key) \union {rank}) = tp_size

\* The group holds on to the storage of its tensors: the sum reaches a rank
\* only if that is still the tensor it is using.
WrittenBack(own, shards) ==
    [q \in DOMAIN own |->
        IF q \in DOMAIN shards /\ SameTensor(own[q], shards[q])
        THEN [own[q] EXCEPT !.value = Summed(shards)]
        ELSE own[q]]

\* Fault: a completed group is not erased.
KeepsGroup(key, shards) == [pending EXCEPT ![key] = shards]

Erased(key, shards) == [pending EXCEPT ![key] = << >>]

all_reduce_sum(key, tp_size, rank, t) ==
    LET shards == Arrived(key, rank, t)
        own == [tensor EXCEPT ![rank] = t]
    IN  /\ ~ Rejects(key, rank)
        /\ IF LastToArrive(key, tp_size, rank)
           THEN /\ pending' = Erased(key, shards)
                /\ tensor' = WrittenBack(own, shards)
           ELSE /\ pending' = [pending EXCEPT ![key] = shards]
                /\ tensor' = own
        /\ UNCHANGED enqueued

\* gather_last_dim_to_rank0.  Rank 0 gets a tensor of zeros when it arrives,
\* filled by the last rank; the others get nothing.
gather_last_dim_to_rank0(key, tp_size, rank, t, full_last_dim) ==
    LET shards == Arrived(key, rank, t)
        zeroed == [t EXCEPT !.value = [i \in 1 .. full_last_dim |-> Zero]]
        nothing == [t EXCEPT !.value = << >>]
        own == [tensor EXCEPT ![rank] = IF rank = 0 THEN zeroed ELSE nothing]
        rank0_output == [shards[0] EXCEPT !.value = Gathered(shards, full_last_dim)]
    IN  /\ ~ Rejects(key, rank)
        /\ IF LastToArrive(key, tp_size, rank)
           THEN /\ pending' = Erased(key, shards)
                /\ tensor' = IF SameTensor(own[0], rank0_output)
                             THEN [own EXCEPT ![0] = rank0_output] ELSE own
           ELSE /\ pending' = [pending EXCEPT ![key] = shards]
                /\ tensor' = own
        /\ UNCHANGED enqueued

-----------------------------------------------------------------------------
(* NcclTensorParallelCommunicator *)

\* The call enqueues the collective; NCCL matches the calls of the ranks by
\* their order.
NcclEnqueue(rank, t) ==
    /\ rank \notin enqueued
    /\ tensor' = [tensor EXCEPT ![rank] = t]
    /\ enqueued' = enqueued \union {rank}
    /\ UNCHANGED pending

NcclAllReduceCompletes(ranks) ==
    /\ enqueued = ranks
    /\ tensor' = [r \in ranks |-> [tensor[r] EXCEPT !.value = Summed(tensor)]]
    /\ enqueued' = {}
    /\ UNCHANGED pending

\* Rank 0 has received a shard from every other rank.
NcclGatherCompletes(ranks, full_last_dim) ==
    /\ enqueued = ranks
    /\ tensor' = [r \in ranks |->
                    [tensor[r] EXCEPT !.value =
                        IF r = 0 THEN Gathered(tensor, full_last_dim) ELSE << >>]]
    /\ enqueued' = {}
    /\ UNCHANGED pending

=============================================================================
