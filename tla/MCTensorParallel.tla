-------------------------- MODULE MCTensorParallel --------------------------
EXTENDS TensorParallel

Configuration(tp, style, qkv_bias, tie, backend) ==
    [tp |-> tp, style |-> style, qkv_bias |-> qkv_bias, tie |-> tie, backend |-> backend]

\* Both communicators on a split checkpoint, with and without biases and tied
\* embeddings; a single rank, also from checkpoints with stacked layers; what is
\* refused: a stacked QKV tensor on two ranks, sizes that three ranks cannot
\* share, an entry that belongs to no parameter, and two ranks without a
\* communicator.  Left out is a stacked gate_up tensor alone on several ranks,
\* with which RanksMatchReference is false (README section 4).
AllConfigurations ==
    { Configuration(2, "split", FALSE, FALSE, "in_process"),
      Configuration(2, "split", TRUE, TRUE, "in_process"),
      Configuration(2, "split", FALSE, TRUE, "nccl"),
      Configuration(1, "split", TRUE, FALSE, "none"),
      Configuration(1, "fused", FALSE, FALSE, "none"),
      Configuration(1, "gate_up", TRUE, TRUE, "none"),
      Configuration(2, "fused", FALSE, TRUE, "in_process"),
      Configuration(2, "qkv", FALSE, TRUE, "nccl"),
      Configuration(1, "foreign", FALSE, TRUE, "none"),
      Configuration(3, "split", FALSE, TRUE, "in_process"),
      Configuration(2, "split", FALSE, TRUE, "none") }

AllGroupKeys == {EmbedName, OName, DownName, LMHeadName}
=============================================================================
