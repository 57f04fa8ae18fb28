--------------------------- MODULE ParallelLayers ---------------------------
(***************************************************************************)
(* Shard arithmetic of the tensor-parallel layers: which part of a         *)
(* checkpoint tensor each rank copies, where it lands in the rank's        *)
(* parameter, and what the layer computes from it.                         *)
(*                                                                         *)
(* A matrix is the sequence of its rows, a bias the sequence of its        *)
(* elements; an element is a name, since no decision reads its value.      *)
(* Offsets count from 0, as in the code.  Products and sums are terms:     *)
(* two results are equal exactly when they are built in the same way.      *)
(***************************************************************************)
EXTENDS Integers, SequencesExt

\* The result of an operation that throws: no tensor here has zero rows.
Throws == << >>

\* An element of a parameter that Tensor::zeros made and nothing has written.
Zero == << >>

zeros(rows, cols) == [i \in 1 .. rows |-> [j \in 1 .. cols |-> Zero]]

-----------------------------------------------------------------------------
(* Slices and copies. *)

\* utils/loader.cpp: a view of `size' rows or columns from `offset'.
select_tensor_shard(source, dim, offset, size) ==
    LET extent == IF dim = 0 THEN Len(source) ELSE Len(source[1])
        inside == offset >= 0 /\ size >= 0 /\ offset + size <= extent
    IN  IF ~ inside THEN Throws
        ELSE IF dim = 0 THEN SubSeq(source, offset + 1, offset + size)
        ELSE [i \in DOMAIN source |-> SubSeq(source[i], offset + 1, offset + size)]

\* A tensor that is already local is taken as it is, a full one is sliced.
select_output_partition(source, full_size, local_size, rank) ==
    CASE Len(source) = local_size -> source
      [] Len(source) # local_size /\ Len(source) = full_size ->
            select_tensor_shard(source, 0, rank * local_size, local_size)
      [] OTHER -> Throws

select_input_partition(source, full_size, local_size, rank) ==
    LET cols == Len(source[1])
    IN  CASE cols = local_size -> source
          [] cols # local_size /\ cols = full_size ->
                select_tensor_shard(source, 1, rank * local_size, local_size)
          [] OTHER -> Throws

\* copy_tensor_to_parameter into rows start .. start + size - 1 of `weight'
\* (a slice of rows is contiguous); the shapes must agree.
copy_tensor_to_rows(shard, weight, start, size) ==
    IF shard = Throws \/ Len(shard) # size \/ start + size > Len(weight)
    THEN Throws
    ELSE [i \in DOMAIN weight |->
            IF i - 1 \in start .. start + size - 1 THEN shard[i - start] ELSE weight[i]]

copy_tensor_to_parameter(source, weight) ==
    IF source # Throws /\ DOMAIN source[1] = DOMAIN weight[1]
    THEN copy_tensor_to_rows(source, weight, 0, Len(weight))
    ELSE Throws

-----------------------------------------------------------------------------
(* Weight loaders, one per layer class: the new value of the parameter. *)

ColumnWeightLoader(weight, source, output_size, tp_size, rank) ==
    copy_tensor_to_parameter(
        select_output_partition(source, output_size, output_size \div tp_size, rank),
        weight)

RowWeightLoader(weight, source, input_size, tp_size, rank) ==
    LET local == input_size \div tp_size
    IN  IF Len(source) # Len(weight) THEN Throws
        ELSE copy_tensor_to_parameter(
                select_input_partition(source, local * tp_size, local, rank), weight)

\* Fault: K and V trade places in the stacked parameter.
SwappedQkvDestination(shard_id, q, kv) ==
    CASE shard_id = 0 -> [start |-> 0, size |-> q]
      [] shard_id = 1 -> [start |-> q + kv, size |-> kv]
      [] shard_id = 2 -> [start |-> q, size |-> kv]

\* Where q (0), k (1) and v (2) are stacked in the rank's parameter.
QkvDestination(shard_id, q, kv) ==
    CASE shard_id = 0 -> [start |-> 0, size |-> q]
      [] shard_id = 1 -> [start |-> q, size |-> kv]
      [] shard_id = 2 -> [start |-> q + kv, size |-> kv]

QkvWeightLoader(weight, source, shard_id, q_size, kv_size, tp_size, rank) ==
    LET q == q_size \div tp_size
        kv == kv_size \div tp_size
        full == IF shard_id = 0 THEN q_size ELSE kv_size
        dest == QkvDestination(shard_id, q, kv)
    IN  copy_tensor_to_rows(
            select_output_partition(source, full, full \div tp_size, rank),
            weight, dest.start, dest.size)

QkvBiasLoader(bias, source, shard_id, q_size, kv_size, tp_size, rank) ==
    QkvWeightLoader(bias, source, shard_id, q_size, kv_size, tp_size, rank)

\* Shard `shard_id' of several stacked ones lands behind the local parts of
\* those before it.
MergedWeightLoader(weight, source, shard_id, output_sizes, tp_size, rank) ==
    LET local(i) == output_sizes[i + 1] \div tp_size
        shard_offset == FoldSeq(+, 0, [i \in 1 .. shard_id |-> local(i - 1)])
    IN  copy_tensor_to_rows(
            select_output_partition(source, output_sizes[shard_id + 1], local(shard_id), rank),
            weight, shard_offset, local(shard_id))

\* VocabParallelEmbedding and ParallelLMHead: rows vocab_start .. vocab_end - 1.
VocabWeightLoader(weight, source, vocab_size, tp_size, rank) ==
    LET local == vocab_size \div tp_size
        shard == CASE Len(source) = vocab_size ->
                        select_tensor_shard(source, 0, rank * local, local)
                   [] Len(source) # vocab_size /\ Len(source) = local -> source
                   [] OTHER -> Throws
    IN  copy_tensor_to_parameter(shard, weight)

-----------------------------------------------------------------------------
(* Forward. *)

\* A bias joins the sum of each output.
add_bias(output, bias) == [i \in DOMAIN output |-> output[i] (+) SetToBag({<<bias[i]>>})]

\* linear_forward where only one rank holds the whole product: a term per
\* output, with its bias (<< >> without one).
linear_forward(input, weight, bias) ==
    [i \in DOMAIN weight |->
        <<"dot", weight[i], input, IF bias = << >> THEN << >> ELSE bias[i]>>]

\* linear_forward of a slice of the input columns: the bag of the products
\* that are summed, so that partial results add up.
PartialProducts(input, weight) ==
    [i \in DOMAIN weight |->
        LET term(c) == <<weight[i][c], input[c]>>
            terms == {term(c) : c \in DOMAIN input}
        IN  [t \in terms |-> Cardinality({c \in DOMAIN input : term(c) = t})]]

\* RowParallelLinear::forward before the all-reduce.
RowForward(input, weight, bias, tp_size, rank) ==
    LET apply_bias == bias # << >> /\ (tp_size = 1 \/ rank = 0)
        products == PartialProducts(input, weight)
    IN  IF apply_bias THEN add_bias(products, bias) ELSE products

\* VocabParallelEmbedding::forward before the all-reduce: a token outside the
\* rank's rows contributes zeros.
EmbeddingForward(weight, token, vocab_size, tp_size, rank) ==
    LET local == vocab_size \div tp_size
        vocab_start == local * rank
        owned == token \in vocab_start .. vocab_start + local - 1
    IN  [j \in DOMAIN weight[1] |->
            IF owned THEN SetToBag({weight[token - vocab_start + 1][j]}) ELSE EmptyBag]

\* ParallelLMHead::forward before the gather, for the row of a last token.
LMHeadForward(hidden, weight) == linear_forward(hidden, weight, << >>)
=============================================================================
