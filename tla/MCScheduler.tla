----------------------------- MODULE MCScheduler -----------------------------
EXTENDS Scheduler

CONSTANTS s1, s2, s3, a, e

Symmetry == Permutations(SeqId)

Request(prompt, n, ignore) ==
    [prompt |-> prompt, max_tokens |-> n, ignore_eos |-> ignore]

\* One kind of request, of which three contend for the blocks.
SameRequests == { Request(<<a>>, 4, FALSE) }

\* One that ignores the end token, and one whose prompt fills a block and may
\* be found cached as a whole.
MixedRequests == { Request(<<a>>, 3, TRUE), Request(<<a, a>>, 2, FALSE) }

\* Needs one block more than the pool has when it generates all its tokens.
OversizedRequests == { Request(<<a>>, 8, FALSE) }
=============================================================================
