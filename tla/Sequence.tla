------------------------------ MODULE Sequence ------------------------------
(***************************************************************************)
(* The block arithmetic of a request (class Sequence): its tokens are cut  *)
(* into logical blocks of BLOCK_SIZE tokens, the last of which may be      *)
(* partial.  num_tokens is Len(tokens).                                    *)
(***************************************************************************)
EXTENDS Integers, Sequences

CONSTANTS BLOCK_SIZE,   \* tokens per KV-cache block (256 in the code)
          Token         \* the vocabulary

\* With one-token blocks `len % block_size == 1` is never true and
\* may_append would never allocate: the code needs at least two.
ASSUME BlockSizeAssumption == BLOCK_SIZE \in Nat /\ BLOCK_SIZE >= 2

num_blocks(tokens) == (Len(tokens) + BLOCK_SIZE - 1) \div BLOCK_SIZE

\* The tokens of logical block i, counted from 0.
block(tokens, i) ==
    LET start == i * BLOCK_SIZE
        end   == IF start + BLOCK_SIZE <= Len(tokens)
                 THEN start + BLOCK_SIZE ELSE Len(tokens)
    IN  SubSeq(tokens, start + 1, end)

last_block_num_tokens(tokens) ==
    IF tokens = <<>> THEN 0
    ELSE Len(tokens) - (num_blocks(tokens) - 1) * BLOCK_SIZE
=============================================================================
