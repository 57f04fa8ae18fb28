---------------------------- MODULE MCModelRunner ----------------------------
EXTENDS ModelRunner

CONSTANTS s1, s2, s3, ta, tb, te

Symmetry == Permutations(SeqId)

Request(prompt, n) ==
    [prompt |-> prompt, max_tokens |-> n, ignore_eos |-> FALSE]

\* Prompts that share their first block, and one that does not.  The tokens
\* of a block tell its position and all the tokens before it.
PositionalRequests ==
    { Request(<<ta, tb>>, 3), Request(<<ta, tb, ta>>, 2), Request(<<tb>>, 3) }

\* Prompts of one token, of one block, and of two.
ChunkedRequests ==
    { Request(<<ta>>, 3), Request(<<ta, tb>>, 4), Request(<<ta, tb, tb, tb>>, 1) }

\* A block-sized prompt, and one that continues it.
CachedRequests == { Request(<<ta, tb>>, 1), Request(<<ta, tb, tb>>, 1) }

SinglePrompt == { Request(<<ta, tb, tb>>, 4) }
=============================================================================
