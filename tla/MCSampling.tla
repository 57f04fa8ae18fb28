----------------------------- MODULE MCSampling -----------------------------
EXTENDS Sampling

\* A row of four columns in any order of their values.
FourColumns == 0 .. 3
DistinctLogits ==
    { f \in [FourColumns -> {0, 4, 8, 12}] : \A c, d \in FourColumns : f[c] = f[d] => c = d }
=============================================================================
