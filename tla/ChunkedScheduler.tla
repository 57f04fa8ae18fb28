-------------------------- MODULE ChunkedScheduler --------------------------
(***************************************************************************)
(* The chunked-prefill path of class Scheduler (enable_chunked_prefill):   *)
(* admission looks at blocks and batch slots only, a prefill step spreads  *)
(* a token budget over the sequences that still have tokens to compute,    *)
(* and a decode step runs when there is none.  The decode loop and         *)
(* postprocess are those of the default path.                              *)
(***************************************************************************)
EXTENDS Scheduler

CONSTANT max_num_prefill_tokens   \* max_num_prefill_tokens_

ASSUME PrefillBudgetAssumption == max_num_prefill_tokens \in Nat

-----------------------------------------------------------------------------
(* Phase 1: admit newcomers *)

ChunkedCanAdmit ==
    /\ waiting # << >>
    /\ num_seqs + Len(running) < max_num_seqs
    /\ can_allocate(Head(waiting))

ChunkedAdmit ==
    /\ pc = "admit"
    /\ ChunkedCanAdmit
    /\ BeginAllocate(Head(waiting))
    /\ cur' = Head(waiting)
    /\ pc' = "admitted"
    /\ UNCHANGED << seqVars, queueVars, is_prefill, num_seqs,
                    num_batched_tokens, post_i >>

ChunkedAdmitted ==
    /\ pc = "admitted"
    /\ call = NoCall
    /\ num_computed_tokens' =
           [num_computed_tokens EXCEPT ![cur] = ComputedAtAdmission(cur)]
    /\ num_tokens_to_process' = [num_tokens_to_process EXCEPT ![cur] = 0]
    /\ status' = [status EXCEPT ![cur] = "RUNNING"]
    /\ waiting' = Tail(waiting)
    /\ running' = Append(running, cur)
    /\ num_seqs' = num_seqs + 1
    /\ cur' = NoSeq
    /\ pc' = "admit"
    /\ UNCHANGED << bmVars, requestVars, scheduled_seqs, is_prefill,
                    num_batched_tokens, post_i >>

-----------------------------------------------------------------------------
(* Phase 2: spread the budget over the sequences still prefilling *)

\* Fault: the number of tokens a step may compute is not capped.
total_budgetUncapped == max_num_batched_tokens

total_budget == IF max_num_prefill_tokens < max_num_batched_tokens
                THEN max_num_prefill_tokens ELSE max_num_batched_tokens

remaining(s) == len(s) - num_computed_tokens[s]

\* A sequence with one token left to compute is left to a decode step.
StillPrefilling(s) == num_computed_tokens[s] < len(s) - 1

\* What the loop over running_ has gathered after i of them.
gathered[i \in 0 .. Len(running)] ==
    IF i = 0 THEN << >>
    ELSE IF StillPrefilling(running[i]) THEN Append(gathered[i - 1], running[i])
    ELSE gathered[i - 1]

prefill_candidates == gathered[Len(running)]

\* The tokens the first k candidates have left.
spent[k \in 0 .. Len(prefill_candidates)] ==
    IF k = 0 THEN 0 ELSE spent[k - 1] + remaining(prefill_candidates[k])

\* What is left of the budget for the k-th, and how many get any of it.
chunk(k) ==
    IF remaining(prefill_candidates[k]) < total_budget - spent[k - 1]
    THEN remaining(prefill_candidates[k])
    ELSE total_budget - spent[k - 1]

served == { k \in 1 .. Len(prefill_candidates) :
                k <= max_num_seqs /\ spent[k - 1] < total_budget }

\* The chunks in queue order: each candidate takes what it has left, up to
\* what the ones before it left of the budget.  If the budget gives nothing
\* to anybody, the first candidate computes one token.
Chunks == IF served = {} THEN << 1 >>
          ELSE [k \in 1 .. Cardinality(served) |-> chunk(k)]

ChunkedPrefill ==
    /\ pc = "admit"
    /\ ~ChunkedCanAdmit
    /\ prefill_candidates # << >>
    /\ scheduled_seqs' = SubSeq(prefill_candidates, 1, Len(Chunks))
    /\ num_tokens_to_process' =
           [s \in SeqId |->
               IF \E k \in DOMAIN Chunks : prefill_candidates[k] = s
               THEN Chunks[CHOOSE k \in DOMAIN Chunks : prefill_candidates[k] = s]
               ELSE num_tokens_to_process[s]]
    /\ is_prefill' = TRUE
    /\ pc' = "run"
    /\ UNCHANGED << bmVars, status, requestVars, num_computed_tokens, waiting,
                    running, num_seqs, num_batched_tokens, cur, post_i >>

\* Phase 3: nobody is prefilling.
ChunkedDecode ==
    /\ pc = "admit"
    /\ ~ChunkedCanAdmit
    /\ prefill_candidates = << >>
    /\ num_seqs' = 0
    /\ pc' = "decode"
    /\ UNCHANGED << bmVars, seqVars, queueVars, is_prefill,
                    num_batched_tokens, cur, post_i >>

schedule_chunked ==
    \/ ChunkedAdmit \/ ChunkedAdmitted
    \/ ChunkedPrefill \/ ChunkedDecode
    \/ DecodeLoop

-----------------------------------------------------------------------------
(* Safety *)

\* The tokens the prefill step computes.
StepTokens == SumFunctionOnSet(num_tokens_to_process, ToSet(scheduled_seqs))

\* The chunks of a prefill step stay within the smaller of the two budgets
\* (one token if that is zero) and within each sequence, none is empty, and
\* only the last one may leave tokens behind: the budget is spent in queue
\* order (schedule_chunked, phase 2).
ChunksWithinBudget ==
    pc = "run" /\ is_prefill =>
        /\ StepTokens <= max_num_batched_tokens
        /\ StepTokens <= max_num_prefill_tokens \/ StepTokens = 1
        /\ \A i \in DOMAIN scheduled_seqs :
               LET s == scheduled_seqs[i] IN
               /\ num_tokens_to_process[s] \in 1 .. remaining(s)
               /\ i < Len(scheduled_seqs) =>
                      num_tokens_to_process[s] = remaining(s)

\* Chunked prefill or not, the references and the free list are exact.
CountsExact == Client!RefCountExact /\ Client!FreeUsedPartition

\* "prepare_prefill requires allocated block_table entries for each logical
\* block" (model_runner.cpp:505): the scheduler must not send it a sequence
\* of which that is not true.
PrefillHasItsBlocks ==
    pc = "run" /\ is_prefill =>
        \A s \in ToSet(scheduled_seqs) :
            Len(block_table[s]) = num_blocks(token_ids[s])
=============================================================================
