------------------------------ MODULE Sampling ------------------------------
(***************************************************************************)
(* The top-k threshold of sample_tokens_topk_topp_kernel: the block of one *)
(* row, its warps as processes that meet only in __syncthreads.  A warp    *)
(* reduces its own columns by shuffles, in step, so it is one process; the *)
(* block reduces over the warps through arrays in shared memory whose      *)
(* first entry also takes the result.  Scaled logits are integers, spread  *)
(* wider than the width at which the search stops.                         *)
(***************************************************************************)
EXTENDS Integers, FiniteSets, FiniteSetsExt

CONSTANTS
    NumWarps,   \* warps of the block, at least one
    Cols,       \* columns of the row
    top_k,      \* the row's top_k, less than the number of columns
    Logits      \* the rows that may be given

Warps == 0 .. NumWarps - 1

VARIABLES
    logit,      \* the row, divided by the temperature
    phase,      \* phase[w]: which reduction the warp is in
    stage,      \* stage[w]: how far it is in it
    hi, lo,     \* hi[w], lo[w]: the warp's registers
    shared      \* the arrays in shared memory

vars == <<logit, phase, stage, hi, lo, shared>>

\* What the arrays hold before anything is written to them.
Garbage == 0

\* Maximum and minimum go through one array.
Array == [max |-> "s_vals", min |-> "s_vals", count |-> "s_count", filter |-> "s_mx"]

\* The threads of a block take every column of their own residue.
Columns(w) == { c \in Cols : c % NumWarps = w }

SamplingInit ==
    /\ logit \in Logits
    /\ phase = [w \in Warps |-> "max"]
    /\ stage = [w \in Warps |-> "put"]
    /\ hi = [w \in Warps |-> Garbage]
    /\ lo = [w \in Warps |-> Garbage]
    /\ shared = [a \in {"s_vals", "s_count", "s_mx"} |-> [w \in Warps |-> Garbage]]

-----------------------------------------------------------------------------
mid(w) == (hi[w] + lo[w]) \div 2

Values(w) == { logit[c] : c \in Columns(w) }

Kept(w, threshold) == { v \in Values(w) : v >= threshold }

\* -FLT_MAX
Lowest == -1000

\* What a warp puts into its entry.
Contribution(w) ==
    CASE phase[w] = "max" -> Max(Values(w))
      [] phase[w] = "min" -> Min(Values(w))
      [] phase[w] = "count" -> Cardinality({ c \in Columns(w) : logit[c] > mid(w) })
      [] phase[w] = "filter" -> Max(Kept(w, lo[w]) \union {Lowest})

\* What the first warp makes of the entries.
Combined(p) ==
    LET entries == shared[Array[p]] IN
    CASE p \in {"max", "filter"} -> Max({ entries[w] : w \in Warps })
      [] p = "min" -> Min({ entries[w] : w \in Warps })
      [] p = "count" -> MapThenSumSet(LAMBDA w : entries[w], Warps)

Put(w) ==
    /\ stage[w] = "put"
    /\ shared' = [shared EXCEPT ![Array[phase[w]]][w] = Contribution(w)]
    /\ stage' = [stage EXCEPT ![w] = "put_sync"]
    /\ UNCHANGED <<logit, phase, hi, lo>>

\* Only the first warp has anything to do here.
Combine(w) ==
    /\ stage[w] = "combine"
    /\ shared' = IF w = 0 THEN [shared EXCEPT ![Array[phase[w]]][0] = Combined(phase[w])]
                 ELSE shared
    /\ stage' = [stage EXCEPT ![w] = "combine_sync"]
    /\ UNCHANGED <<logit, phase, hi, lo>>

\* __syncthreads counts the warps that have arrived, wherever they wait.
syncthreads ==
    /\ \A w \in Warps : stage[w] \in {"put_sync", "combine_sync"}
    /\ stage' = [w \in Warps |-> IF stage[w] = "put_sync" THEN "combine" ELSE "read"]
    /\ UNCHANGED <<logit, phase, hi, lo, shared>>

Next_phase(w, p) ==
    /\ phase' = [phase EXCEPT ![w] = p]
    /\ stage' = [stage EXCEPT ![w] = "put"]
    /\ UNCHANGED <<logit, shared>>

\* Every warp reads the result for itself, and goes on to its next write of
\* shared memory at once.
ReadMax(w) ==
    /\ stage[w] = "read" /\ phase[w] = "max"
    /\ hi' = [hi EXCEPT ![w] = shared["s_vals"][0]]
    /\ Next_phase(w, "min")
    /\ UNCHANGED lo

ReadMin(w) ==
    /\ stage[w] = "read" /\ phase[w] = "min"
    /\ lo' = [lo EXCEPT ![w] = shared["s_vals"][0]]
    /\ Next_phase(w, "count")
    /\ UNCHANGED hi

\* The search stops when the bounds are close.
ReadCount(w) ==
    /\ stage[w] = "read" /\ phase[w] = "count"
    /\ IF shared["s_count"][0] < top_k
       THEN hi' = [hi EXCEPT ![w] = mid(w)] /\ UNCHANGED lo
       ELSE lo' = [lo EXCEPT ![w] = mid(w)] /\ UNCHANGED hi
    /\ Next_phase(w, IF hi'[w] - lo'[w] <= 1 THEN "filter" ELSE "count")

SamplingNext ==
    \/ \E w \in Warps : Put(w) \/ Combine(w) \/ ReadMax(w) \/ ReadMin(w) \/ ReadCount(w)
    \/ syncthreads

SamplingSpec == SamplingInit /\ [][SamplingNext]_vars

-----------------------------------------------------------------------------
\* The columns whose value is among the top_k largest.
TopK == { c \in Cols : Cardinality({ d \in Cols : logit[d] > logit[c] }) < top_k }

\* "Binary search for k-th largest" (sampling.cu:283), "Mask everything below
\* the threshold" (sampling.cu:82): when a warp filters the row, its threshold
\* leaves exactly the top_k columns.
MasksAllButTopK ==
    \A w \in Warps : phase[w] = "filter" => { c \in Cols : logit[c] >= lo[w] } = TopK
=============================================================================
