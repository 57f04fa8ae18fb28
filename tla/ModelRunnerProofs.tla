------------------------- MODULE ModelRunnerProofs -------------------------
(***************************************************************************)
(* Proofs about the engine step with its model runner, whichever way       *)
(* batches are made up.  On the default path it is the scheduler's         *)
(* specification and never refuses a batch, so that what SchedulerProofs   *)
(* proves holds of it.  On the chunked path the queues, the tables and the *)
(* references stay exact even when a batch is refused, the chunks of a     *)
(* step stay within its budgets, and a request gets what Generation        *)
(* promises.                                                               *)
(***************************************************************************)
EXTENDS ModelRunner, SchedulerProofs

-----------------------------------------------------------------------------
(* The candidates of a chunked prefill *)

\* `gathered` is what the loop over running_ computes.
LEMMA GatheredLoop ==
    ASSUME TypeOK
    PROVE  /\ gathered[0] = << >>
           /\ \A i \in 1 .. Len(running) :
                  gathered[i] = IF StillPrefilling(running[i])
                                THEN Append(gathered[i - 1], running[i])
                                ELSE gathered[i - 1]
  <1> DEFINE n == Len(running)
             V == Seq(SeqId)
             step == [i \in 1 .. n |-> [q \in V |->
                        IF StillPrefilling(running[i])
                        THEN Append(q, running[i]) ELSE q]]
             Loop(g) == g = [i \in 0 .. n |->
                               IF i = 0 THEN << >>
                               ELSE IF StillPrefilling(running[i])
                                    THEN Append(g[i - 1], running[i])
                                    ELSE g[i - 1]]
  <1>1. n \in Nat /\ running \in V
    BY LenProperties DEF TypeOK
  <1>2. << >> \in V
    BY EmptySeq
  <1>3. step \in [1 .. n -> [V -> V]]
    <2>1. ASSUME NEW q \in V, NEW i \in 1 .. n
          PROVE  Append(q, running[i]) \in V
      BY <1>1, ElementOfSeq, AppendProperties
    <2> QED  BY <2>1
  <1>4. PICK g \in [0 .. n -> V] :
            g[0] = << >> /\ \A i \in 1 .. n : g[i] = step[i][g[i - 1]]
    <2>1. LoopFunctions(V, << >>, n, step) # {}
      <3> HIDE DEF n, V, step
      <3> QED  BY <1>1, <1>2, <1>3, LoopFunction
    <2> HIDE DEF n, V, step
    <2> QED  BY <2>1 DEF LoopFunctions
  <1>5. Loop(g)
    <2>1. ASSUME NEW i \in 1 .. n
          PROVE  g[i] = IF StillPrefilling(running[i])
                        THEN Append(g[i - 1], running[i]) ELSE g[i - 1]
      <3>1. g[i - 1] \in V
        <4>1. i - 1 \in 0 .. n
          BY <1>1
        <4> HIDE DEF n, V, step
        <4> QED  BY <1>4, <4>1
      <3> QED  BY <1>4, <3>1
    <2>2. g = [i \in 0 .. n |-> g[i]]
      BY <1>4
    <2>3. \A i \in 0 .. n : i = 0 \/ i \in 1 .. n
      BY <1>1
    <2>4. g[0] = << >>
      BY <1>4
    <2> HIDE DEF n, V, step
    <2> QED  BY <2>1, <2>2, <2>3, <2>4
  <1>6. gathered = CHOOSE h : Loop(h)
    BY DEF gathered
  <1>7. Loop(gathered)
    <2> HIDE DEF Loop
    <2> QED  BY <1>5, <1>6
  <1>8. 0 \in 0 .. n /\ \A i \in 1 .. n : i \in 0 .. n /\ i # 0
    BY <1>1
  <1>9. /\ gathered[0] = << >>
        /\ \A i \in 1 .. n :
               gathered[i] = IF StillPrefilling(running[i])
                             THEN Append(gathered[i - 1], running[i])
                             ELSE gathered[i - 1]
    <2> HIDE DEF n, V, step
    <2> QED  BY <1>7, <1>8
  <1> QED  BY <1>9

\* The candidates are the running sequences still prefilling, each once.
LEMMA Candidates ==
    ASSUME TypeOK, IsInjective(running)
    PROVE  /\ prefill_candidates \in Seq(SeqId)
           /\ IsInjective(prefill_candidates)
           /\ ToSet(prefill_candidates) =
                  { s \in ToSet(running) : StillPrefilling(s) }
  <1> DEFINE n == Len(running)
             Among(k) == { running[i] : i \in { j \in 1 .. k :
                                                StillPrefilling(running[j]) } }
             Good(k) == /\ gathered[k] \in Seq(SeqId)
                        /\ IsInjective(gathered[k])
                        /\ ToSet(gathered[k]) = Among(k)
             T == { k \in 0 .. n : Good(k) }
  <1>1. n \in Nat /\ running \in Seq(SeqId)
    BY LenProperties DEF TypeOK
  <1>2. \A i \in 1 .. n : running[i] \in SeqId
    BY <1>1, ElementOfSeq
  <1>3. \A i, j \in 1 .. n : running[i] = running[j] => i = j
    BY <1>1, ElementPositions
  <1>4. 0 \in T
    <2>1. Among(0) = {}
      OBVIOUS
    <2>2. gathered[0] = << >>
      BY GatheredLoop
    <2>3. Good(0)
      <3> HIDE DEF Among
      <3> QED  BY <2>1, <2>2, EmptyElements, EmptySeq
    <2>4. 0 \in 0 .. n
      BY <1>1
    <2> HIDE DEF Good
    <2> QED  BY <2>3, <2>4
  <1>5. ASSUME NEW k \in 1 .. n, k - 1 \in T
        PROVE  k \in T
    <2>1. Good(k - 1)
      BY <1>5
    <2>2. CASE StillPrefilling(running[k])
      <3>1. gathered[k] = Append(gathered[k - 1], running[k])
        BY <2>2, GatheredLoop
      <3>2. running[k] \notin Among(k - 1)
        BY <1>1, <1>3
      <3>3. Among(k) = Among(k - 1) \cup {running[k]}
        <4>1. \A i : i \in 1 .. k <=> i \in 1 .. k - 1 \/ i = k
          OBVIOUS
        <4> QED  BY <2>2, <4>1
      <3> HIDE DEF Among
      <3>4. Good(k)
        BY <1>2, <2>1, <3>1, <3>2, <3>3, AppendElements
      <3> HIDE DEF Good
      <3> QED  BY <3>4
    <2>3. CASE ~StillPrefilling(running[k])
      <3>1. gathered[k] = gathered[k - 1]
        BY <2>3, GatheredLoop
      <3>2. Among(k) = Among(k - 1)
        <4>1. \A i : i \in 1 .. k <=> i \in 1 .. k - 1 \/ i = k
          OBVIOUS
        <4> QED  BY <2>3, <4>1
      <3> HIDE DEF Among
      <3>3. Good(k)
        BY <2>1, <3>1, <3>2
      <3> HIDE DEF Good
      <3> QED  BY <3>3
    <2> QED  BY <2>2, <2>3
  <1>6. n \in T
    <2>1. n \in Nat /\ n \in 0 .. n
      BY <1>1
    <2> HIDE DEF n, T
    <2>2. 0 .. n \subseteq T
      BY <2>1, <1>4, <1>5, LoopInduction
    <2> QED  BY <2>1, <2>2
  <1>7. Good(n)
    BY <1>6
  <1>8. Among(n) = { s \in ToSet(running) : StillPrefilling(s) }
    <2>1. ToSet(running) = { running[i] : i \in 1 .. n }
      BY <1>1 DEF ToSet
    <2> QED  BY <2>1
  <1> QED  BY <1>7, <1>8 DEF prefill_candidates

\* A candidate has at least two tokens left.
LEMMA CandidateWork ==
    ASSUME TypeOK, IsInjective(running), NEW k \in 1 .. Len(prefill_candidates)
    PROVE  /\ prefill_candidates[k] \in SeqId
           /\ prefill_candidates[k] \in ToSet(running)
           /\ remaining(prefill_candidates[k]) \in Nat
           /\ remaining(prefill_candidates[k]) >= 2
  <1> DEFINE s == prefill_candidates[k]
  <1>1. s \in ToSet(prefill_candidates) /\ s \in SeqId
    BY Candidates, ElementPositions, ElementOfSeq
  <1>2. s \in ToSet(running) /\ StillPrefilling(s)
    BY <1>1, Candidates
  <1>3. len(s) \in Nat /\ num_computed_tokens[s] \in Nat
    BY <1>1, LenProperties DEF TypeOK, BMTypeOK, len
  <1> HIDE DEF s
  <1>4. remaining(s) \in Nat /\ remaining(s) >= 2
    BY <1>2, <1>3 DEF StillPrefilling, remaining
  <1> QED  BY <1>1, <1>2, <1>4 DEF s

\* `spent` adds up what the candidates have left.
LEMMA SpentLoop ==
    ASSUME TypeOK, IsInjective(running)
    PROVE  /\ spent[0] = 0
           /\ \A k \in 0 .. Len(prefill_candidates) : spent[k] \in Nat
           /\ \A k \in 1 .. Len(prefill_candidates) :
                  spent[k] = spent[k - 1] + remaining(prefill_candidates[k])
  <1> DEFINE c == prefill_candidates
             n == Len(c)
             step == [k \in 1 .. n |-> [v \in Nat |-> v + remaining(c[k])]]
             Loop(g) == g = [k \in 0 .. n |->
                               IF k = 0 THEN 0 ELSE g[k - 1] + remaining(c[k])]
  <1>1. n \in Nat
    BY Candidates, LenProperties
  <1>2. \A k \in 1 .. n : remaining(c[k]) \in Nat
    BY CandidateWork
  <1>3. step \in [1 .. n -> [Nat -> Nat]]
    <2> HIDE DEF n, c
    <2> QED  BY <1>2
  <1>4. PICK g \in [0 .. n -> Nat] :
            g[0] = 0 /\ \A k \in 1 .. n : g[k] = step[k][g[k - 1]]
    <2>1. 0 \in Nat
      OBVIOUS
    <2>2. LoopFunctions(Nat, 0, n, step) # {}
      <3> HIDE DEF n, step
      <3> QED  BY <1>1, <1>3, <2>1, LoopFunction
    <2> HIDE DEF n, step
    <2> QED  BY <2>2 DEF LoopFunctions
  <1>5. Loop(g)
    <2> HIDE DEF n, c
    <2>1. ASSUME NEW k \in 1 .. n
          PROVE  g[k] = g[k - 1] + remaining(c[k])
      <3>1. g[k - 1] \in Nat
        BY <1>1, <1>4
      <3> QED  BY <1>4, <3>1
    <2>2. g = [k \in 0 .. n |-> g[k]] /\ g[0] = 0
      BY <1>4
    <2>3. \A k \in 0 .. n : k = 0 \/ k \in 1 .. n
      BY <1>1
    <2> HIDE DEF step
    <2> QED  BY <2>1, <2>2, <2>3
  <1>6. spent = CHOOSE h : Loop(h)
    BY DEF spent
  <1>7. Loop(spent)
    <2> HIDE DEF Loop
    <2> QED  BY <1>5, <1>6
  <1>8. /\ spent[0] = 0
        /\ \A k \in 1 .. n : spent[k] = spent[k - 1] + remaining(c[k])
    <2>1. 0 \in 0 .. n /\ \A k \in 1 .. n : k \in 0 .. n /\ k # 0
      BY <1>1
    <2> HIDE DEF n, c
    <2> QED  BY <1>7, <2>1
  <1>9. \A k \in 0 .. n : spent[k] \in Nat
    <2> DEFINE T == { k \in 0 .. n : spent[k] \in Nat }
    <2> HIDE DEF n, c
    <2>1. 0 \in T
      BY <1>1, <1>8
    <2>2. ASSUME NEW k \in 1 .. n, k - 1 \in T
          PROVE  k \in T
      BY <1>1, <1>2, <1>8, <2>2
    <2>3. 0 .. n \subseteq T
      <3> HIDE DEF T
      <3> QED  BY <1>1, <2>1, <2>2, LoopInduction
    <2> QED  BY <2>3
  <1> QED  BY <1>8, <1>9

\* So that it grows from one candidate to the next.
LEMMA SpentGrows ==
    ASSUME TypeOK, IsInjective(running), NEW j \in 0 .. Len(prefill_candidates)
    PROVE  \A k \in 0 .. Len(prefill_candidates) : j <= k => spent[j] <= spent[k]
  <1> DEFINE n == Len(prefill_candidates)
             T == { k \in 0 .. n : j <= k => spent[j] <= spent[k] }
  <1>1. n \in Nat
    BY Candidates, LenProperties
  <1>2. \A k \in 0 .. n : spent[k] \in Nat
    BY SpentLoop
  <1>3. \A k \in 1 .. n : spent[k - 1] <= spent[k]
    <2> TAKE k \in 1 .. n
    <2>1. /\ spent[k] = spent[k - 1] + remaining(prefill_candidates[k])
          /\ remaining(prefill_candidates[k]) \in Nat
      BY SpentLoop, CandidateWork
    <2>2. k - 1 \in 0 .. n
      BY <1>1
    <2>3. spent[k - 1] \in Nat
      BY <1>2, <2>2
    <2> QED  BY <2>1, <2>3
  <1> HIDE DEF n
  <1>4. 0 \in T
    BY <1>1, <1>2
  <1>5. ASSUME NEW k \in 1 .. n, k - 1 \in T
        PROVE  k \in T
    <2>1. k - 1 \in 0 .. n /\ k \in 0 .. n /\ j \in 0 .. n
      BY <1>1 DEF n
    <2>2. spent[k - 1] \in Nat /\ spent[k] \in Nat /\ spent[j] \in Nat
      BY <1>2, <2>1
    <2>3. spent[k - 1] <= spent[k]
      BY <1>3
    <2>4. CASE j <= k - 1
      BY <1>5, <2>1, <2>2, <2>3, <2>4
    <2>5. CASE ~(j <= k - 1)
      <3>1. j <= k => j = k
        BY <2>1, <2>5
      <3> QED  BY <2>1, <2>2, <3>1
    <2> QED  BY <2>4, <2>5
  <1>6. 0 .. n \subseteq T
    <2> HIDE DEF T
    <2> QED  BY <1>1, <1>4, <1>5, LoopInduction
  <1> QED  BY <1>6 DEF n

\* The candidates that get any of the budget are the first ones.
LEMMA ServedFirst ==
    ASSUME TypeOK, IsInjective(running)
    PROVE  \E m \in 0 .. Len(prefill_candidates) :
               served = 1 .. m /\ Cardinality(served) = m
  <1> DEFINE n == Len(prefill_candidates)
             Left == { k \in 1 .. n + 1 : k \notin served }
  <1>1. n \in Nat
    BY Candidates, LenProperties
  <1>2. ASSUME NEW j \in 1 .. n, NEW k \in served, j <= k
        PROVE  j \in served
    <2>1. /\ k \in 1 .. n /\ k <= max_num_seqs /\ spent[k - 1] < total_budget
      BY DEF served
    <2>2. j - 1 \in 0 .. n /\ k - 1 \in 0 .. n /\ j - 1 <= k - 1
      BY <1>1, <1>2, <2>1
    <2>3. spent[j - 1] <= spent[k - 1] /\ spent[j - 1] \in Nat /\ spent[k - 1] \in Nat
      BY <2>2, SpentGrows, SpentLoop
    <2>4. max_num_seqs \in Nat /\ total_budget \in Nat
      BY BudgetAssumption, PrefillBudgetAssumption DEF total_budget
    <2> QED  BY <1>2, <2>1, <2>3, <2>4 DEF served
  <1>3. PICK u \in Left : \A k \in Left : u <= k
    <2>1. Left \subseteq Nat
      BY <1>1
    <2>2. n + 1 \in Left
      BY <1>1 DEF served
    <2> HIDE DEF Left
    <2> QED  BY <2>1, <2>2, LeastNatural
  <1>4. u \in 1 .. n + 1 /\ u \notin served
    OBVIOUS
  <1>5. served \subseteq 1 .. n
    BY DEF served
  <1>6. served = 1 .. u - 1
    <2>1. ASSUME NEW k \in served
          PROVE  k \in 1 .. u - 1
      <3>1. k \in 1 .. n
        BY <1>5
      <3>2. ~(u <= k)
        <4>1. u <= k => u \in 1 .. n
          BY <1>1, <1>4, <3>1
        <4> QED  BY <1>2, <1>4, <4>1
      <3> QED  BY <1>1, <1>4, <3>1, <3>2
    <2>2. ASSUME NEW k \in 1 .. u - 1
          PROVE  k \in served
      <3>1. k \in 1 .. n + 1 /\ ~(u <= k)
        BY <1>1, <1>4
      <3> QED  BY <1>3, <3>1
    <2> QED  BY <2>1, <2>2
  <1>7. u - 1 \in 0 .. n /\ Cardinality(1 .. u - 1) = u - 1
    <2>1. u - 1 \in 0 .. n
      BY <1>1, <1>4
    <2> QED  BY <1>1, <2>1, FS_Interval
  <1> QED  BY <1>6, <1>7

\* The number of candidates that get a chunk: one at least.
NumChunks == IF served = {} THEN 1 ELSE Cardinality(served)

\* What each of them gets is not empty and within what it has left, and all
\* of that but for the last.
LEMMA ChunkSizes ==
    ASSUME TypeOK, IsInjective(running), prefill_candidates # << >>
    PROVE  /\ NumChunks \in 1 .. Len(prefill_candidates)
           /\ Len(Chunks) = NumChunks /\ DOMAIN Chunks = 1 .. NumChunks
           /\ \A k \in 1 .. NumChunks :
                  /\ Chunks[k] \in 1 .. remaining(prefill_candidates[k])
                  /\ k < NumChunks =>
                         Chunks[k] = remaining(prefill_candidates[k])
  <1> DEFINE c == prefill_candidates
             n == Len(c)
  <1>1. n \in Nat /\ n >= 1
    BY Candidates, LenProperties, EmptySeq
  <1>2. PICK m \in 0 .. n : served = 1 .. m /\ Cardinality(served) = m
    BY ServedFirst
  <1>3. \A k \in 1 .. n : remaining(c[k]) \in Nat /\ remaining(c[k]) >= 2
    BY CandidateWork
  <1>4. CASE served = {}
    <2>1. NumChunks = 1 /\ Chunks = << 1 >>
      BY <1>4 DEF NumChunks, Chunks
    <2>2. Len(Chunks) = 1 /\ DOMAIN Chunks = 1 .. 1 /\ Chunks[1] = 1
      BY <2>1
    <2>3. 1 \in 1 .. n /\ 1 \in 1 .. remaining(c[1])
      BY <1>1, <1>3
    <2> QED  BY <2>1, <2>2, <2>3
  <1>5. CASE served # {}
    <2>1. m >= 1 /\ m \in Nat /\ m <= n
      BY <1>1, <1>2, <1>5
    <2>2. NumChunks = m /\ Chunks = [k \in 1 .. m |-> chunk(k)]
      BY <1>2, <1>5 DEF NumChunks, Chunks
    <2>3. Len(Chunks) = m /\ DOMAIN Chunks = 1 .. m
      BY <2>1, <2>2
    <2>4. total_budget \in Nat
      BY BudgetAssumption, PrefillBudgetAssumption DEF total_budget
    <2>5. ASSUME NEW k \in 1 .. m
          PROVE  /\ Chunks[k] \in 1 .. remaining(c[k])
                 /\ k < m => Chunks[k] = remaining(c[k])
      <3>1. k \in 1 .. n /\ k - 1 \in 0 .. n /\ k \in 0 .. n /\ k \in served
        BY <1>1, <1>2, <2>1
      <3>2. spent[k - 1] < total_budget
        BY <3>1 DEF served
      <3>3. /\ spent[k - 1] \in Nat /\ remaining(c[k]) \in Nat
            /\ remaining(c[k]) >= 2
            /\ spent[k] = spent[k - 1] + remaining(c[k])
        BY <1>3, <3>1, SpentLoop
      <3>4. Chunks[k] = IF remaining(c[k]) < total_budget - spent[k - 1]
                        THEN remaining(c[k]) ELSE total_budget - spent[k - 1]
        BY <2>2 DEF chunk
      <3>5. ASSUME k < m
            PROVE  spent[k] < total_budget
        <4>1. k + 1 \in served
          BY <1>2, <2>1, <3>5
        <4>2. (k + 1) - 1 = k
          BY <3>1
        <4> QED  BY <4>1, <4>2 DEF served
      <3> HIDE DEF c
      <3> QED  BY <2>4, <3>2, <3>3, <3>4, <3>5
    <2>6. m \in 1 .. n
      BY <2>1
    <2> QED  BY <2>2, <2>3, <2>5, <2>6
  <1> QED  BY <1>4, <1>5

\* And the first k chunks add up to what the first k have left, or to the
\* whole budget.
LEMMA ChunkSums ==
    ASSUME TypeOK, IsInjective(running), prefill_candidates # << >>,
           served # {}, NEW k \in 1 .. NumChunks
    PROVE  /\ total_budget \in Nat
           /\ spent[k - 1] \in Nat /\ spent[k - 1] < total_budget
           /\ Chunks[k] = chunk(k)
           /\ spent[k - 1] + Chunks[k] <= total_budget
           /\ k < NumChunks => spent[k - 1] + Chunks[k] = spent[k]
  <1> DEFINE n == Len(prefill_candidates)
  <1>1. n \in Nat /\ NumChunks \in 1 .. n /\ DOMAIN Chunks = 1 .. NumChunks
    BY Candidates, ChunkSizes, LenProperties
  <1>2. PICK m \in 0 .. n : served = 1 .. m /\ Cardinality(served) = m
    BY ServedFirst
  <1>3. NumChunks = m /\ Chunks = [j \in 1 .. m |-> chunk(j)]
    BY <1>2 DEF NumChunks, Chunks
  <1>4. k \in served /\ k \in 1 .. n /\ k - 1 \in 0 .. n
    BY <1>1, <1>2, <1>3
  <1>5. total_budget \in Nat
    BY BudgetAssumption, PrefillBudgetAssumption DEF total_budget
  <1>6. spent[k - 1] < total_budget /\ spent[k - 1] \in Nat
    BY <1>4, SpentLoop DEF served
  <1>7. Chunks[k] = chunk(k)
    BY <1>3
  <1>8. /\ remaining(prefill_candidates[k]) \in Nat
        /\ spent[k] = spent[k - 1] + remaining(prefill_candidates[k])
    BY <1>4, CandidateWork, SpentLoop
  <1>9. spent[k - 1] + Chunks[k] <= total_budget
    BY <1>5, <1>6, <1>7, <1>8 DEF chunk
  <1>10. k < NumChunks => Chunks[k] = remaining(prefill_candidates[k])
    BY ChunkSizes
  <1> QED  BY <1>5, <1>6, <1>7, <1>8, <1>9, <1>10

-----------------------------------------------------------------------------
(* The inductive invariant of the chunked path *)

\* A chunk is not empty and within what its sequence has left.
Chunked(s) == num_tokens_to_process[s] \in 1 .. remaining(s)

\* What the sequences of a batch compute.  Nothing is scheduled while the
\* step admits, and a refused batch is forgotten.
ChunkWork ==
    /\ pc \in {"idle", "admit", "admitted"} => scheduled_seqs = << >>
    /\ pc \in {"decode", "append"} =>
           \A s \in ToSet(scheduled_seqs) : Decoding(s)
    /\ pc = "run" =>
           \A s \in ToSet(scheduled_seqs) :
               IF is_prefill THEN Chunked(s) ELSE Decoding(s)
    /\ pc \in {"post", "finish"} =>
           \A i \in post_i .. Len(scheduled_seqs) :
               \/ Decoding(scheduled_seqs[i])
               \/ is_prefill /\ Chunked(scheduled_seqs[i])

CInv ==
    /\ QInv
    /\ ChunkWork
    /\ ChunksWithinBudget
    /\ Manager!IInv

\* A step that leaves the block manager alone keeps what the manager
\* guarantees, whatever it makes of the batch.
LEMMA ManagerLeftAlone ==
    ASSUME Manager!IInv, UNCHANGED bmVars
    PROVE  Manager!IInv'
  <1>1. UNCHANGED << blocks, free_block_ids, used_block_ids, hash_to_block_id,
                     token_ids, block_table, num_cached_tokens, call >>
    BY DEF bmVars
  <1>2. \A s \in SeqId : Manager!Held(s)' = Manager!Held(s)
    BY <1>1 DEF Manager!Held
  <1>3. Manager!Accounts'
    BY <1>1, <1>2, ManagerAssumptions, Manager!QuietAccounts
  <1>4. Manager!TypeOK'
    <2>1. Manager!BMTypeOK'
      BY <1>1 DEF Manager!IInv, Manager!TypeOK, Manager!BMTypeOK
    <2>2. Pending' \in [SeqId -> BOOLEAN]
      BY DEF Pending
    <2> QED  BY <2>1, <2>2 DEF Manager!TypeOK
  <1>5. Manager!CallOK' /\ Manager!AllocateNeverStarves'
    BY <1>1 DEF Manager!IInv, Manager!CallOK, Manager!AllocateNeverStarves
  <1>6. Manager!ClientOK'
    <2>1. \A s \in SeqId : Pending'[s] => block_table'[s] # << >> /\ call'.seq # s
      BY DEF Pending
    <2>2. \A s \in SeqId : block_table'[s] # << >> => token_ids'[s] # << >>
      BY <1>1 DEF Manager!IInv, Manager!ClientOK
    <2> QED  BY <2>1, <2>2 DEF Manager!ClientOK
  <1> QED  BY <1>3, <1>4, <1>5, <1>6 DEF Manager!IInv, Manager!Accounts

\* Admission allocates for a sequence that has no table.
LEMMA ChunkedAdmitClient ==
    ASSUME QInv, ChunkedAdmit
    PROVE  Manager!Next
  <1> DEFINE s == Head(waiting)
  <1>1. s \in SeqId
    BY HeadBeforeTail DEF QInv, TypeOK, ChunkedAdmit, ChunkedCanAdmit
  <1>2. s \in ToSet(waiting)
    BY EndElements DEF QInv, TypeOK, ChunkedAdmit, ChunkedCanAdmit
  <1>3. call = NoCall /\ block_table[s] = << >>
    BY <1>1, <1>2, QuietCall, QuietTables
       DEF QInv, QueuesMatchStatus, ChunkedAdmit
  <1>4. Pending' = Pending
    <2>1. call'.seq = s /\ call.seq = NoSeq
      BY <1>3 DEF ChunkedAdmit, BeginAllocate, NoCall
    <2>2. Unrun' = Unrun \cup {s}
      BY DEF ChunkedAdmit, queueVars, Unrun
    <2>3. block_table' = block_table
      BY DEF ChunkedAdmit, BeginAllocate
    <2>4. NoSeq \notin SeqId
      BY SeqIdAssumption
    <2> QED  BY <1>3, <2>1, <2>2, <2>3, <2>4 DEF Pending
  <1>5. Manager!Allocate(s)
    BY <1>3, <1>4, SameOperators, SameBegins
       DEF ChunkedAdmit, ChunkedCanAdmit, Manager!Allocate
  <1> QED  BY <1>1, <1>5 DEF Manager!Next

\* In the middle of a prefill the sampled token is dropped and nothing is due
\* to the manager; that apart, it sees the same calls as on the other path.
Dropped(s) == num_tokens_to_process[s] > 0 /\ ~finished_prefill(s)

LEMMA PostprocessManager ==
    ASSUME QInv, Manager!IInv, NEW t \in Sampled, postprocess(t)
    PROVE  Manager!IInv'
  <1> DEFINE s == scheduled_seqs[post_i]
  <1>1. CASE Dropped(s)
    <2>1. UNCHANGED bmVars
      BY <1>1 DEF postprocess, Dropped, bmVars
    <2> QED  BY <2>1, ManagerLeftAlone
  <1>2. CASE ~Dropped(s)
    <2>1. num_tokens_to_process[s] > 0 => finished_prefill(s)
      BY <1>2 DEF Dropped
    <2>2. Manager!Next
      BY <2>1, postprocessClient
    <2> QED  BY <2>2, ManagerAssumptions, Manager!NextInv
  <1> QED  BY <1>1, <1>2

LEMMA ChunkedManager ==
    ASSUME CInv, enable_chunked_prefill, [RunnerNext]_runnerVars
    PROVE  Manager!IInv'
  <1>q. QInv /\ Manager!IInv
    BY DEF CInv
  <1>1. CASE \E s \in SeqId, r \in Requests : add(s, r)
    <2>1. Manager!Next
      BY <1>q, <1>1, addClient
    <2> QED  BY <1>q, <2>1, ManagerAssumptions, Manager!NextInv
  <1>2. CASE \E t \in Sampled : postprocess(t)
    BY <1>q, <1>2, PostprocessManager
  <1>3. CASE \/ PreemptVictim \/ PreemptSelf \/ ScheduleDecode \/ Finish
             \/ BlockManagerStep \/ ChunkedAdmit
    <2>1. Manager!Next
      BY <1>q, <1>3, PreemptVictimClient, PreemptSelfClient,
         ScheduleDecodeClient, FinishClient, BlockManagerClient,
         ChunkedAdmitClient
    <2> QED  BY <1>q, <2>1, ManagerAssumptions, Manager!NextInv
  <1>4. CASE \/ schedule \/ TakeFront \/ EndDecode \/ run \/ EndStep
             \/ ChunkedAdmitted \/ ChunkedPrefill \/ ChunkedDecode \/ RunThrows
             \/ UNCHANGED runnerVars
    <2>1. UNCHANGED bmVars
      BY <1>4 DEF schedule, TakeFront, EndDecode, run, EndStep, ChunkedAdmitted,
                  ChunkedPrefill, ChunkedDecode, RunThrows, runnerVars, vars
    <2> QED  BY <1>q, <2>1, ManagerLeftAlone
  <1> QED  BY <1>1, <1>2, <1>3, <1>4
           DEF RunnerNext, OutsideRun, SchedulePath, schedule_chunked,
               DecodeLoop, PostProcess, RunModel

-----------------------------------------------------------------------------
(* The steps of the chunked path keep queues, loops and tables *)

\* The batch a prefill step makes of the candidates.
LEMMA ChunkedBatch ==
    ASSUME QInv, ChunkedPrefill
    PROVE  LET c == prefill_candidates IN
           /\ NumChunks \in 1 .. Len(c) /\ c \in Seq(SeqId)
           /\ scheduled_seqs' \in Seq(SeqId) /\ IsInjective(scheduled_seqs')
           /\ Len(scheduled_seqs') = NumChunks
           /\ \A k \in 1 .. NumChunks :
                  /\ scheduled_seqs'[k] = c[k]
                  /\ c[k] \in SeqId /\ c[k] \in ToSet(running)
                  /\ num_tokens_to_process'[c[k]] = Chunks[k]
                  /\ Chunks[k] \in 1 .. remaining(c[k])
                  /\ remaining(c[k]) \in Nat
           /\ num_tokens_to_process' \in [SeqId -> Nat]
           /\ \A s \in ToSet(scheduled_seqs') :
                  \E k \in 1 .. NumChunks : s = c[k]
  <1> DEFINE c == prefill_candidates
             n == Len(c)
             m == NumChunks
             At(s) == CHOOSE k \in DOMAIN Chunks : c[k] = s
  <1>0. TypeOK /\ IsInjective(running) /\ c # << >>
    <2>1. pc = "admit" /\ c # << >>
      BY DEF ChunkedPrefill
    <2>2. IsInjective(running)
      <3>1. Hand = running
        BY <2>1, QueueTypes DEF QInv
      <3> QED  BY <3>1, OrderParts
    <2> QED  BY <2>1, <2>2 DEF QInv
  <1>1. c \in Seq(SeqId) /\ n \in Nat
        /\ \A j, k \in 1 .. n : c[j] = c[k] => j = k
    BY <1>0, Candidates, ElementPositions, LenProperties
  <1>2. /\ m \in 1 .. n /\ DOMAIN Chunks = 1 .. m /\ Len(Chunks) = m
        /\ \A k \in 1 .. m : Chunks[k] \in 1 .. remaining(c[k])
    BY <1>0, ChunkSizes
  <1>3. \A k \in 1 .. m : /\ k \in 1 .. n /\ c[k] \in SeqId
                          /\ c[k] \in ToSet(running)
                          /\ remaining(c[k]) \in Nat
    <2>1. \A k \in 1 .. m : k \in 1 .. n
      BY <1>1, <1>2
    <2> QED  BY <1>0, <2>1, CandidateWork
  <1>4. scheduled_seqs' = SubSeq(c, 1, m)
    BY <1>2 DEF ChunkedPrefill
  <1>5. /\ scheduled_seqs' \in Seq(SeqId) /\ Len(scheduled_seqs') = m
        /\ \A k \in 1 .. m : scheduled_seqs'[k] = c[k]
    <2> HIDE DEF c, m
    <2>1. 1 \in 1 .. n + 1 /\ m \in 0 .. n /\ m \in 1 - 1 .. n /\ m - 1 + 1 = m
      BY <1>1, <1>2
    <2>2. \A k \in 1 .. m : 1 + k - 1 = k
      OBVIOUS
    <2> QED  BY <1>1, <1>4, <2>1, <2>2, SubSeqProperties
  <1>6. IsInjective(scheduled_seqs')
        /\ \A s \in ToSet(scheduled_seqs') : \E k \in 1 .. m : s = c[k]
    <2>1. \A j, k \in 1 .. Len(scheduled_seqs') :
              scheduled_seqs'[j] = scheduled_seqs'[k] => j = k
      BY <1>1, <1>3, <1>5
    <2> QED  BY <1>5, <2>1, ElementPositions
  <1>7. num_tokens_to_process' =
            [s \in SeqId |-> IF \E k \in 1 .. m : c[k] = s
                             THEN Chunks[At(s)] ELSE num_tokens_to_process[s]]
    BY <1>2 DEF ChunkedPrefill
  <1>8. \A s \in SeqId : (\E k \in 1 .. m : c[k] = s) =>
            At(s) \in 1 .. m /\ c[At(s)] = s
    BY <1>2
  <1>9. ASSUME NEW k \in 1 .. m
        PROVE  num_tokens_to_process'[c[k]] = Chunks[k]
    <2>1. At(c[k]) = k
      BY <1>1, <1>3, <1>8
    <2> HIDE DEF At
    <2> QED  BY <1>3, <1>7, <2>1
  <1>10. num_tokens_to_process' \in [SeqId -> Nat]
    <2>1. \A k \in 1 .. m : Chunks[k] \in Nat
      BY <1>2, <1>3
    <2>2. num_tokens_to_process \in [SeqId -> Nat]
      BY <1>0 DEF TypeOK
    <2> HIDE DEF At
    <2> QED  BY <1>7, <1>8, <2>1, <2>2
  <1> QED  BY <1>1, <1>2, <1>3, <1>5, <1>6, <1>9, <1>10

\* What is known of a newcomer when allocate has returned.
LEMMA ChunkedAdmittedWork ==
    ASSUME QInv, Manager!IInv, pc = "admitted", call = NoCall
    PROVE  /\ cur \in SeqId /\ status[cur] = "WAITING"
           /\ ComputedAtAdmission(cur) \in Nat
  <1>1. cur \in SeqId /\ status[cur] = "WAITING"
    BY AdmittedSequence
  <1>2. token_ids[cur] # << >>
    <2>1. block_table[cur] # << >>
      BY <1>1, QuietTables DEF QInv
    <2> QED  BY <1>1, <2>1 DEF Manager!IInv, Manager!ClientOK
  <1>3. token_ids[cur] \in Seq(Token) /\ num_cached_tokens[cur] \in Nat
    BY <1>1 DEF QInv, TypeOK, BMTypeOK
  <1>4. len(cur) \in Nat /\ len(cur) >= 1
    BY <1>2, <1>3, EmptySeq DEF len
  <1> QED  BY <1>1, <1>3, <1>4 DEF ComputedAtAdmission

LEMMA ChunkedTypes ==
    ASSUME QInv, Manager!IInv, BMTypeOK',
           \/ ChunkedAdmit \/ ChunkedAdmitted \/ ChunkedPrefill \/ ChunkedDecode
           \/ RunThrows
    PROVE  TypeOK'
  <1>b. BMTypeOK'
    OBVIOUS
  <1>t. TypeOK
    BY DEF QInv
  <1>1. CASE ChunkedAdmit
    <2>1. Head(waiting) \in SeqId
      BY <1>t, <1>1, HeadBeforeTail DEF ChunkedAdmit, ChunkedCanAdmit, TypeOK
    <2> QED  BY <1>b, <1>t, <1>1, <2>1
             DEF ChunkedAdmit, seqVars, queueVars, TypeOK, PC
  <1>2. CASE ChunkedAdmitted
    <2>1. /\ cur \in SeqId /\ ComputedAtAdmission(cur) \in Nat
          /\ waiting # << >>
      BY <1>2, ChunkedAdmittedWork, AdmittedSequence DEF ChunkedAdmitted
    <2>2. /\ Tail(waiting) \in Seq(SeqId)
          /\ Append(running, cur) \in Seq(SeqId)
      BY <1>t, <2>1, HeadBeforeTail, AppendProperties DEF TypeOK
    <2>3. /\ num_computed_tokens' \in [SeqId -> Nat]
          /\ num_tokens_to_process' \in [SeqId -> Nat]
          /\ status' \in [SeqId -> Status]
      BY <1>t, <1>2, <2>1 DEF ChunkedAdmitted, TypeOK, Status
    <2>4. /\ cur' = NoSeq /\ pc' \in PC /\ num_seqs' \in Nat
          /\ waiting' = Tail(waiting) /\ running' = Append(running, cur)
          /\ UNCHANGED << num_prompt_tokens, max_tokens, ignore_eos,
                          scheduled_seqs, is_prefill, num_batched_tokens,
                          post_i >>
      BY <1>t, <1>2 DEF ChunkedAdmitted, requestVars, TypeOK, PC
    <2> QED  BY <1>b, <1>t, <2>2, <2>3, <2>4 DEF TypeOK
  <1>3. CASE ChunkedPrefill
    <2>1. /\ scheduled_seqs' \in Seq(SeqId)
          /\ num_tokens_to_process' \in [SeqId -> Nat]
      BY <1>3, ChunkedBatch
    <2> QED  BY <1>b, <1>t, <1>3, <2>1
             DEF ChunkedPrefill, requestVars, TypeOK, PC
  <1>4. CASE ChunkedDecode
    BY <1>b, <1>t, <1>4 DEF ChunkedDecode, seqVars, queueVars, TypeOK, PC
  <1>5. CASE RunThrows
    BY <1>b, <1>t, <1>5, EmptySeq DEF RunThrows, seqVars, TypeOK, PC
  <1> QED  BY <1>1, <1>2, <1>3, <1>4, <1>5

LEMMA ChunkedMoves ==
    ASSUME QInv, ChunkWork,
           \/ ChunkedAdmit \/ ChunkedAdmitted \/ ChunkedPrefill \/ ChunkedDecode
           \/ RunThrows
    PROVE  Moves
  <1>0. TypeOK /\ running \in Seq(SeqId)
    BY DEF QInv, TypeOK
  <1>1. CASE ChunkedAdmit \/ RunThrows
    <2>1. /\ UNCHANGED << waiting, running, status >>
          /\ pc \notin {"decode", "append", "finish"}
          /\ pc' \notin {"decode", "append", "finish"}
      BY <1>1 DEF ChunkedAdmit, RunThrows, seqVars, queueVars
    <2> QED  BY <2>1 DEF Moves, Stays, Hand, InHand, Busy, Waits
  <1>2. CASE ChunkedAdmitted
    <2>1. /\ pc = "admitted" /\ pc' = "admit"
          /\ status' = [status EXCEPT ![cur] = "RUNNING"]
          /\ waiting' = Tail(waiting) /\ running' = Append(running, cur)
      BY <1>2 DEF ChunkedAdmitted
    <2>2. cur \in SeqId /\ waiting # << >> /\ cur = Head(waiting)
      BY <2>1 DEF QInv, CurOK
    <2>3. Hand' = Append(Hand, cur)
      <3>1. Append(running, cur) \in Seq(SeqId)
        BY <1>0, <2>2, AppendProperties
      <3>2. Hand = running
        BY <2>1, QueueTypes DEF QInv
      <3>3. Hand' = << >> \o Append(running, cur)
        BY <2>1 DEF Hand, InHand
      <3> QED  BY <3>1, <3>2, <3>3, ConcatEmptySeq
    <2>4. Busy' = Busy \cup {cur} /\ Waits' = Waits \ {cur}
      BY <2>1, <2>2 DEF Busy, Waits, QInv, TypeOK
    <2>5. Starts(cur)
      BY <2>1, <2>2, <2>3, <2>4 DEF Starts
    <2> QED  BY <2>2, <2>5 DEF Moves
  <1>3. CASE ChunkedPrefill
    <2>1. /\ UNCHANGED << waiting, running, status >>
          /\ pc = "admit" /\ pc' = "run"
      BY <1>3 DEF ChunkedPrefill
    <2> QED  BY <2>1 DEF Moves, Stays, Hand, InHand, Busy, Waits
  <1>4. CASE ChunkedDecode
    <2>1. /\ UNCHANGED << waiting, running, status, scheduled_seqs >>
          /\ pc = "admit" /\ pc' = "decode" /\ scheduled_seqs = << >>
      BY <1>4 DEF ChunkedDecode, ChunkWork, seqVars, queueVars
    <2> QED  BY <2>1 DEF Moves, Stays, Hand, InHand, Busy, Waits
  <1> QED  BY <1>1, <1>2, <1>3, <1>4

LEMMA ChunkedLoops ==
    ASSUME QInv,
           \/ ChunkedAdmit \/ ChunkedAdmitted \/ ChunkedPrefill \/ ChunkedDecode
           \/ RunThrows
    PROVE  CallAtPc' /\ CurOK' /\ TablesOK'
  <1>0. TypeOK /\ CurOK /\ CallAtPc /\ TablesOK /\ NoSeq \notin SeqId
    BY SeqIdAssumption DEF QInv
  <1>1. CASE ChunkedAdmit
    <2>1. /\ call = NoCall /\ call'.op = "allocate" /\ call'.seq = cur'
          /\ pc = "admit" /\ pc' = "admitted"
          /\ UNCHANGED << block_table, status >>
      BY <1>1 DEF ChunkedAdmit, BeginAllocate, NoCall, seqVars
    <2>2. call.op = "none" /\ call' # NoCall
      BY <2>1 DEF NoCall
    <2>3. ASSUME NEW u \in SeqId
          PROVE  HasTable(u)' <=> HasTable(u)
      BY <2>1, <2>2 DEF HasTable
    <2>4. TablesOK'
      BY <1>0, <2>1, <2>2, <2>3 DEF TablesOK
    <2>5. waiting # << >> /\ Head(waiting) \in SeqId
      BY <1>0, <1>1, HeadBeforeTail DEF ChunkedAdmit, ChunkedCanAdmit, TypeOK
    <2>6. CurOK'
      BY <1>1, <2>5 DEF ChunkedAdmit, queueVars, CurOK
    <2> QED  BY <2>1, <2>4, <2>6 DEF CallAtPc
  <1>2. CASE ChunkedAdmitted
    <2>1. /\ call = NoCall /\ call' = NoCall /\ UNCHANGED block_table
          /\ cur \in SeqId /\ cur' = NoSeq
          /\ pc = "admitted" /\ pc' = "admit"
          /\ status' = [status EXCEPT ![cur] = "RUNNING"]
      BY <1>0, <1>2 DEF ChunkedAdmitted, bmVars, CurOK
    <2>2. \A u \in SeqId : HasTable(u)' <=> HasTable(u)
      BY <1>0, <2>1 DEF HasTable, TypeOK
    <2>3. TablesOK'
      BY <1>0, <2>1, <2>2, SameTables
    <2> QED  BY <1>0, <2>1, <2>3, QuietCallAtPc DEF CurOK
  <1>3. CASE ChunkedPrefill \/ ChunkedDecode \/ RunThrows
    <2>1. /\ UNCHANGED << block_table, call, status, cur >>
          /\ pc \in {"admit", "run"}
          /\ pc' \in {"idle", "decode", "run"}
      BY <1>3 DEF ChunkedPrefill, ChunkedDecode, RunThrows, bmVars, seqVars
    <2>2. call = NoCall
      BY <1>0, <2>1, QuietCall
    <2>3. \A u \in SeqId : HasTable(u)' <=> HasTable(u)
      BY <2>1 DEF HasTable
    <2>4. TablesOK'
      BY <1>0, <2>1, <2>2, <2>3, SameTables
    <2> QED  BY <1>0, <2>1, <2>2, <2>4, QuietCallAtPc DEF CurOK
  <1> QED  BY <1>1, <1>2, <1>3

LEMMA ChunkedBatchRuns ==
    ASSUME QInv, ChunkWork,
           \/ ChunkedAdmit \/ ChunkedAdmitted \/ ChunkedPrefill \/ ChunkedDecode
           \/ RunThrows
    PROVE  BatchOK'
  <1>1. CASE \/ ChunkedAdmit \/ ChunkedAdmitted \/ ChunkedDecode \/ RunThrows
    <2>1. scheduled_seqs' = << >> /\ pc' \notin {"post", "finish"}
      BY <1>1 DEF ChunkedAdmit, ChunkedAdmitted, ChunkedDecode, RunThrows,
                  ChunkWork, queueVars
    <2>2. UnrunFrom' = 1 /\ Len(scheduled_seqs') = 0
      BY <2>1 DEF UnrunFrom
    <2> QED  BY <2>1, <2>2, EmptyElements DEF BatchOK
  <1>2. CASE ChunkedPrefill
    <2>1. pc = "admit" /\ pc' = "run" /\ status' = status
      BY <1>2 DEF ChunkedPrefill
    <2>2. \A s \in ToSet(running) : status[s] = "RUNNING"
      <3>1. Hand = running /\ Busy = { s \in SeqId : status[s] = "RUNNING" }
        BY <2>1, QueueTypes DEF QInv, Busy
      <3> QED  BY <3>1, OrderParts
    <2>3. /\ scheduled_seqs' \in Seq(SeqId) /\ IsInjective(scheduled_seqs')
          /\ \A s \in ToSet(scheduled_seqs') : s \in ToSet(running)
      BY <1>2, ChunkedBatch
    <2> QED  BY <2>1, <2>2, <2>3, BatchOwed
  <1> QED  BY <1>1, <1>2

-----------------------------------------------------------------------------
(* What the batch of the chunked path has to compute *)

\* What Chunked and Decoding say of u stays.
SameChunk(u) ==
    /\ token_ids'[u] = token_ids[u]
    /\ num_computed_tokens'[u] = num_computed_tokens[u]
    /\ num_tokens_to_process'[u] = num_tokens_to_process[u]

LEMMA ChunkStays ==
    ASSUME NEW u, SameChunk(u)
    PROVE  /\ Chunked(u)' <=> Chunked(u)
           /\ Decoding(u)' <=> Decoding(u)
  BY DEF SameChunk, Chunked, Decoding, remaining, len

LEMMA ChunkWorkKept ==
    ASSUME CInv, enable_chunked_prefill, [RunnerNext]_runnerVars
    PROVE  ChunkWork'
  <1>0. /\ QInv /\ TypeOK /\ ChunkWork /\ BatchOK
        /\ scheduled_seqs \in Seq(SeqId)
    BY DEF CInv, QInv, TypeOK
  <1>1. CASE \/ \E s \in SeqId, r \in Requests : add(s, r)
             \/ schedule \/ ChunkedAdmit \/ ChunkedAdmitted \/ ChunkedDecode
             \/ EndStep \/ RunThrows
    <2>1. /\ scheduled_seqs' = << >>
          /\ pc' \in {"idle", "admit", "admitted", "decode"}
      BY <1>0, <1>1 DEF add, schedule, ChunkedAdmit, ChunkedAdmitted,
                        ChunkedDecode, EndStep, RunThrows, ChunkWork,
                        queueVars, localVars
    <2> QED  BY <2>1, EmptyElements DEF ChunkWork
  <1>2. CASE TakeFront \/ PreemptVictim \/ PreemptSelf \/ EndDecode
    <2>1. /\ UNCHANGED scheduled_seqs
          /\ \A u \in ToSet(scheduled_seqs) : SameChunk(u)
      BY <1>2 DEF TakeFront, PreemptVictim, PreemptSelf, EndDecode, preempt,
                  BeginDeallocate, bmVars, seqVars, SameChunk
    <2>2. \/ pc = "decode" /\ pc' = "run" /\ ~is_prefill'
          \/ pc \in {"decode", "append"} /\ pc' \in {"decode", "append"}
      BY <1>2 DEF TakeFront, PreemptVictim, PreemptSelf, EndDecode, localVars
    <2>3. ASSUME NEW u \in ToSet(scheduled_seqs)
          PROVE  Decoding(u)'
      BY <1>0, <2>1, <2>2, ChunkStays DEF ChunkWork
    <2> QED  BY <2>1, <2>2, <2>3 DEF ChunkWork
  <1>3. CASE ScheduleDecode
    <2>1. /\ pc = "append" /\ pc' = "decode" /\ cur \in SeqId
          /\ num_tokens_to_process' = [num_tokens_to_process EXCEPT ![cur] = 0]
          /\ scheduled_seqs' = Append(scheduled_seqs, cur)
      BY <1>0, <1>3 DEF ScheduleDecode, QInv, CurOK
    <2>2. ToSet(scheduled_seqs') = ToSet(scheduled_seqs) \cup {cur}
      BY <1>0, <2>1, AppendElements
    <2>3. ASSUME NEW u \in ToSet(scheduled_seqs')
          PROVE  Decoding(u)'
      <3>1. u \in ToSet(scheduled_seqs) => num_tokens_to_process[u] = 0 /\ u \in SeqId
        BY <1>0, <2>1, BatchRuns DEF ChunkWork, Decoding
      <3>2. num_tokens_to_process'[u] = 0
        BY <1>0, <2>1, <2>2, <3>1 DEF TypeOK
      <3> QED  BY <3>2 DEF Decoding
    <2> QED  BY <2>1, <2>3 DEF ChunkWork
  <1>4. CASE run
    <2>1. /\ pc = "run" /\ pc' = "post" /\ post_i' = 1
          /\ UNCHANGED << scheduled_seqs, is_prefill >>
          /\ \A u \in ToSet(scheduled_seqs) : SameChunk(u)
      BY <1>4 DEF run, bmVars, seqVars, queueVars, SameChunk
    <2>2. ASSUME NEW u \in ToSet(scheduled_seqs)
          PROVE  Decoding(u)' \/ (is_prefill' /\ Chunked(u)')
      <3>1. Decoding(u) \/ (is_prefill /\ Chunked(u))
        BY <1>0, <2>1 DEF ChunkWork
      <3> QED  BY <2>1, <3>1, ChunkStays
    <2>3. ASSUME NEW i \in post_i' .. Len(scheduled_seqs')
          PROVE  scheduled_seqs[i] \in ToSet(scheduled_seqs)
      BY <1>0, <2>1, ElementPositions
    <2> QED  BY <2>1, <2>2, <2>3
             DEF ChunkWork, Decoding, Chunked, remaining, len
  <1>5. ASSUME NEW t \in Sampled, postprocess(t)
        PROVE  ChunkWork'
    <2> DEFINE s == scheduled_seqs[post_i]
    <2>1. /\ pc = "post" /\ pc' \in {"post", "finish"} /\ post_i' = post_i + 1
          /\ num_computed_tokens' =
                 [num_computed_tokens EXCEPT ![s] = new_computed(s)]
          /\ num_tokens_to_process' = [num_tokens_to_process EXCEPT ![s] = 0]
          /\ \/ token_ids' = token_ids
             \/ token_ids' = [token_ids EXCEPT ![s] = Append(@, t)]
          /\ UNCHANGED << scheduled_seqs, is_prefill >>
      BY <1>5 DEF postprocess, queueVars
    <2>2. \A i \in post_i + 1 .. Len(scheduled_seqs) :
              /\ i \in post_i .. Len(scheduled_seqs)
              /\ scheduled_seqs[i] \in SeqId /\ scheduled_seqs[i] # s
      BY <1>0, <1>5, PostprocessedSequence
    <2>3. \A u \in SeqId : u # s => SameChunk(u)
      BY <1>0, <2>1 DEF SameChunk, TypeOK, BMTypeOK
    <2>4. ASSUME NEW i \in post_i + 1 .. Len(scheduled_seqs),
                 NEW u \in SeqId, u = scheduled_seqs[i]
          PROVE  Decoding(u)' \/ (is_prefill' /\ Chunked(u)')
      <3>1. Decoding(u) \/ (is_prefill /\ Chunked(u))
        BY <1>0, <2>1, <2>2, <2>4 DEF ChunkWork
      <3> QED  BY <2>1, <2>2, <2>3, <2>4, <3>1, ChunkStays
    <2> QED  BY <2>1, <2>2, <2>4
             DEF ChunkWork, Decoding, Chunked, remaining, len
  <1>6. CASE Finish
    <2>1. /\ pc = "finish" /\ pc' = "post"
          /\ UNCHANGED << scheduled_seqs, post_i, is_prefill, token_ids,
                          num_computed_tokens, num_tokens_to_process >>
      BY <1>6 DEF Finish, BeginDeallocate, seqVars
    <2> QED  BY <1>0, <2>1
             DEF ChunkWork, Decoding, Chunked, remaining, len
  <1>7. CASE BlockManagerStep \/ UNCHANGED runnerVars
    <2>1. /\ UNCHANGED << scheduled_seqs, post_i, pc, is_prefill,
                          num_computed_tokens, num_tokens_to_process >>
          /\ UNCHANGED token_ids
      BY <1>0, <1>7, BMStepCall
         DEF BlockManagerStep, runnerVars, vars, bmVars, seqVars, queueVars,
             localVars
    <2> QED  BY <1>0, <2>1
             DEF ChunkWork, Decoding, Chunked, remaining, len
  <1>8. CASE ChunkedPrefill
    <2>1. /\ pc' = "run" /\ is_prefill'
          /\ UNCHANGED << token_ids, num_computed_tokens >>
      BY <1>8 DEF ChunkedPrefill, bmVars
    <2>2. ASSUME NEW u \in ToSet(scheduled_seqs')
          PROVE  Chunked(u)'
      <3>1. num_tokens_to_process'[u] \in 1 .. remaining(u)
        BY <1>0, <1>8, ChunkedBatch, ZenonT(60)
      <3> QED  BY <2>1, <3>1 DEF Chunked, remaining, len
    <2> QED  BY <2>1, <2>2 DEF ChunkWork
  <1> QED  BY <1>1, <1>2, <1>3, <1>4, <1>5, <1>6, <1>7, <1>8
           DEF RunnerNext, OutsideRun, SchedulePath, schedule_chunked,
               DecodeLoop, PostProcess, RunModel

\* The tokens of a prefill step: one chunk after the other, they never exceed
\* the budget, unless that gives nothing to anybody.
LEMMA ChunkedTokens ==
    ASSUME QInv, ChunkedPrefill
    PROVE  LET sum == SumFunctionOnSet(num_tokens_to_process',
                                       ToSet(scheduled_seqs')) IN
           IF served = {} THEN sum = 1 ELSE sum \in Int /\ sum <= total_budget
  <1> DEFINE c == prefill_candidates
             m == NumChunks
             f == num_tokens_to_process'
             Firsts(k) == { c[j] : j \in 1 .. k }
             Sum(k) == SumFunctionOnSet(f, Firsts(k))
  <1>0. TypeOK /\ IsInjective(running) /\ c # << >>
    <2>1. pc = "admit" /\ c # << >>
      BY DEF ChunkedPrefill
    <2>2. IsInjective(running)
      <3>1. Hand = running
        BY <2>1, QueueTypes DEF QInv
      <3> QED  BY <3>1, OrderParts
    <2> QED  BY <2>1, <2>2 DEF QInv
  <1>1. /\ m \in 1 .. Len(c) /\ Len(c) \in Nat /\ c \in Seq(SeqId)
        /\ \A k \in 1 .. m : c[k] \in SeqId /\ f[c[k]] = Chunks[k]
        /\ f \in [SeqId -> Nat]
        /\ \A j, k \in 1 .. Len(c) : c[j] = c[k] => j = k
    BY <1>0, ChunkedBatch, Candidates, ElementPositions, LenProperties
  <1>2. m \in Nat /\ m >= 1
    BY <1>1
  <1>3. ToSet(scheduled_seqs') = Firsts(m)
    <2>1. /\ scheduled_seqs' \in Seq(SeqId) /\ Len(scheduled_seqs') = m
          /\ \A k \in 1 .. m : scheduled_seqs'[k] = c[k]
      BY ChunkedBatch
    <2>2. /\ \A k \in 1 .. m : c[k] \in ToSet(scheduled_seqs')
          /\ \A x \in ToSet(scheduled_seqs') : \E k \in 1 .. m : c[k] = x
      BY <2>1, ElementPositions
    <2> QED  BY <2>2
  <1>4. ASSUME NEW k \in 1 .. m
        PROVE  /\ Sum(k - 1) \in Int
               /\ Sum(k) = Sum(k - 1) + Chunks[k]
    <2>1. IsFiniteSet(Firsts(k - 1))
      <3>1. IsFiniteSet(1 .. k - 1)
        BY <1>1, FS_Interval
      <3> HIDE DEF c
      <3>2. [j \in 1 .. k - 1 |-> c[j]] \in Surjection(1 .. k - 1, Firsts(k - 1))
        BY DEF Surjection
      <3> HIDE DEF Firsts
      <3> QED  BY <3>1, <3>2, FS_Surjection
    <2>2. c[k] \notin Firsts(k - 1)
      BY <1>1
    <2>3. Firsts(k) = Firsts(k - 1) \cup {c[k]}
      <3>1. \A i : i \in 1 .. k <=> i \in 1 .. k - 1 \/ i = k
        OBVIOUS
      <3> HIDE DEF c
      <3> QED  BY <3>1
    <2>4. \A y \in Firsts(k - 1) \cup {c[k]} : f[y] \in Int
      <3>1. Firsts(k - 1) \cup {c[k]} \subseteq SeqId
        BY <1>1
      <3> QED  BY <1>1, <3>1
    <2>5. f[c[k]] = Chunks[k]
      BY <1>1
    <2> DEFINE F == Firsts(k - 1)
               x == c[k]
    <2>6. IsFiniteSet(F) /\ x \notin F /\ \A y \in F \cup {x} : f[y] \in Int
      BY <2>1, <2>2, <2>4
    <2>7. /\ SumFunctionOnSet(f, F) \in Int
          /\ SumFunctionOnSet(f, F \cup {x}) = SumFunctionOnSet(f, F) + f[x]
      <3> HIDE DEF F, x, f
      <3> QED  BY <2>6, SumInsert
    <2> QED  BY <2>3, <2>5, <2>7
  <1>5. Sum(0) = 0
    <2>1. Firsts(0) = {}
      OBVIOUS
    <2> HIDE DEF Firsts, f
    <2> QED  BY <2>1, SumEmpty
  <1>6. CASE served = {}
    <2>1. m = 1 /\ Chunks[1] = 1
      BY <1>6 DEF NumChunks, Chunks
    <2>2. Sum(1) = Sum(0) + 1
      <3>1. 1 \in 1 .. m /\ 1 - 1 = 0
        BY <2>1
      <3> HIDE DEF Sum, m
      <3> QED  BY <1>4, <2>1, <3>1
    <2> QED  BY <1>3, <1>5, <1>6, <2>1, <2>2
  <1>7. CASE served # {}
    <2> DEFINE Good(k) == /\ Sum(k) \in Int /\ Sum(k) <= total_budget
                          /\ k < m => Sum(k) = spent[k]
               T == { k \in 0 .. m : Good(k) }
    <2> HIDE DEF Sum, c, m, f
    <2>1. 0 \in T
      <3>1. spent[0] = 0 /\ total_budget \in Nat
        BY <1>0, SpentLoop, BudgetAssumption, PrefillBudgetAssumption
           DEF total_budget
      <3> QED  BY <1>2, <1>5, <3>1
    <2>2. ASSUME NEW k \in 1 .. m, k - 1 \in T
          PROVE  k \in T
      <3>1. /\ Sum(k) = Sum(k - 1) + Chunks[k]
            /\ Sum(k - 1) = spent[k - 1] /\ Sum(k - 1) \in Int
        BY <1>2, <1>4, <2>2
      <3>2. /\ total_budget \in Nat
            /\ spent[k - 1] + Chunks[k] <= total_budget
            /\ k < m => spent[k - 1] + Chunks[k] = spent[k]
        BY <1>0, <1>7, ChunkSums DEF m, c
      <3>3. Chunks[k] \in Int
        <4>1. f \in [SeqId -> Nat] /\ c[k] \in SeqId /\ f[c[k]] = Chunks[k]
          BY <1>1
        <4> QED  BY <4>1
      <3>4. k \in 0 .. m
        BY <1>2
      <3> QED  BY <3>1, <3>2, <3>3, <3>4
    <2>3. m \in T
      <3>1. 0 .. m \subseteq T
        <4> HIDE DEF T
        <4> QED  BY <1>2, <2>1, <2>2, LoopInduction
      <3> HIDE DEF T
      <3> QED  BY <1>2, <3>1
    <2> QED  BY <1>3, <1>7, <2>3 DEF Sum, f
  <1> QED  BY <1>6, <1>7

LEMMA ChunksKept ==
    ASSUME CInv, enable_chunked_prefill, [RunnerNext]_runnerVars
    PROVE  ChunksWithinBudget'
  <1>0. QInv /\ ChunksWithinBudget
    BY DEF CInv
  <1>1. CASE ChunkedPrefill
    <2>1. /\ NumChunks \in 1 .. Len(prefill_candidates)
          /\ scheduled_seqs' \in Seq(SeqId)
          /\ Len(scheduled_seqs') = NumChunks
          /\ \A k \in 1 .. NumChunks :
                 /\ scheduled_seqs'[k] = prefill_candidates[k]
                 /\ num_tokens_to_process'[prefill_candidates[k]] = Chunks[k]
                 /\ Chunks[k] \in 1 .. remaining(prefill_candidates[k])
      BY <1>0, <1>1, ChunkedBatch
    <2>2. \A k \in 1 .. NumChunks : k < NumChunks =>
              Chunks[k] = remaining(prefill_candidates[k])
      <3>1. pc = "admit" /\ prefill_candidates # << >>
        BY <1>1 DEF ChunkedPrefill
      <3>2. TypeOK /\ IsInjective(running)
        <4>1. Hand = running
          BY <1>0, <3>1, QueueTypes DEF QInv
        <4> QED  BY <1>0, <4>1, OrderParts DEF QInv
      <3> QED  BY <3>1, <3>2, ChunkSizes
    <2>3. DOMAIN scheduled_seqs' = 1 .. NumChunks
      BY <2>1, LenProperties
    <2>4. UNCHANGED << token_ids, num_computed_tokens >>
      BY <1>1 DEF ChunkedPrefill, bmVars
    <2>5. ASSUME NEW i \in DOMAIN scheduled_seqs', NEW s, s = scheduled_seqs'[i]
          PROVE  LET left == Len(token_ids'[s]) - num_computed_tokens'[s] IN
                 /\ num_tokens_to_process'[s] \in 1 .. left
                 /\ i < Len(scheduled_seqs') =>
                        num_tokens_to_process'[s] = left
      <3>1. i \in 1 .. NumChunks /\ s = prefill_candidates[i]
        BY <2>1, <2>3, <2>5
      <3>2. remaining(s) = Len(token_ids'[s]) - num_computed_tokens'[s]
        BY <2>4 DEF remaining, len
      <3> QED  BY <2>1, <2>2, <3>1, <3>2
    <2>6. /\ StepTokens' <= max_num_batched_tokens
          /\ StepTokens' <= max_num_prefill_tokens \/ StepTokens' = 1
      <3>1. /\ max_num_batched_tokens \in Nat /\ max_num_batched_tokens >= 1
            /\ max_num_prefill_tokens \in Nat
            /\ total_budget <= max_num_batched_tokens
            /\ total_budget <= max_num_prefill_tokens
            /\ total_budget \in Nat
        BY BudgetAssumption, PrefillBudgetAssumption DEF total_budget
      <3>2. StepTokens' = 1 \/ (StepTokens' \in Int /\ StepTokens' <= total_budget)
        BY <1>0, <1>1, ChunkedTokens DEF StepTokens
      <3> HIDE DEF StepTokens
      <3> QED  BY <3>1, <3>2
    <2> HIDE DEF StepTokens
    <2> QED  BY <2>5, <2>6 DEF ChunksWithinBudget, remaining, len
  <1>2. CASE UNCHANGED runnerVars
    BY <1>0, <1>2
       DEF runnerVars, vars, bmVars, seqVars, queueVars, localVars,
           ChunksWithinBudget, StepTokens, remaining, len
  <1>3. CASE ~ChunkedPrefill /\ ~UNCHANGED runnerVars
    <2>1. ~(pc' = "run" /\ is_prefill')
      <3>1. CASE BlockManagerStep
        <4>1. pc' = pc /\ call.op # "none"
          BY <1>0, <3>1, BMStepCall DEF BlockManagerStep, localVars, QInv
        <4>2. pc # "run"
          BY <1>0, <4>1, QuietCall DEF QInv, NoCall
        <4> QED  BY <4>1, <4>2
      <3>2. CASE \/ \E s \in SeqId, r \in Requests : add(s, r)
                 \/ \E t \in Sampled : postprocess(t)
        BY <3>2 DEF add, localVars, postprocess
      <3>3. CASE \/ schedule \/ ChunkedAdmit \/ ChunkedAdmitted \/ ChunkedDecode
                 \/ TakeFront \/ PreemptVictim \/ PreemptSelf \/ ScheduleDecode
                 \/ EndDecode \/ run \/ Finish \/ EndStep \/ RunThrows
        BY <3>3 DEF schedule, ChunkedAdmit, ChunkedAdmitted, ChunkedDecode,
                    TakeFront, PreemptVictim, PreemptSelf, ScheduleDecode,
                    EndDecode, run, Finish, EndStep, RunThrows, localVars
      <3> QED  BY <1>3, <3>1, <3>2, <3>3
               DEF RunnerNext, OutsideRun, SchedulePath, schedule_chunked,
                   DecodeLoop, PostProcess, RunModel
    <2> QED  BY <2>1 DEF ChunksWithinBudget
  <1> QED  BY <1>1, <1>2, <1>3

-----------------------------------------------------------------------------
(* The invariant of the engine step, whichever way it is configured *)

LEMMA ChunkedNext ==
    ASSUME CInv, enable_chunked_prefill, [RunnerNext]_runnerVars
    PROVE  CInv'
  <1>0. QInv /\ Manager!IInv /\ ChunkWork
    BY DEF CInv
  <1>1. Manager!IInv' /\ BMTypeOK' /\ ChunkWork' /\ ChunksWithinBudget'
    BY ChunkedManager, ManagerTypes, ChunkWorkKept, ChunksKept
  <1>2. CASE \/ ChunkedAdmit \/ ChunkedAdmitted \/ ChunkedPrefill
             \/ ChunkedDecode \/ RunThrows
    <2>1. TypeOK'
      BY <1>0, <1>1, <1>2, ChunkedTypes
    <2>2. QueuesMatchStatus'
      BY <1>0, <1>2, ChunkedMoves, MovesOrder
    <2>3. CallAtPc' /\ CurOK' /\ TablesOK' /\ BatchOK'
      BY <1>0, <1>2, ChunkedLoops, ChunkedBatchRuns
    <2> QED  BY <1>1, <2>1, <2>2, <2>3 DEF CInv, QInv
  <1>3. CASE ~(\/ ChunkedAdmit \/ ChunkedAdmitted \/ ChunkedPrefill
               \/ ChunkedDecode \/ RunThrows)
    <2>1. [Next]_vars /\ ~Admitted
      <3>1. CASE BlockManagerStep \/ UNCHANGED runnerVars
        <4>1. ~Admitted
          <5>1. UNCHANGED pc
            BY <3>1 DEF BlockManagerStep, runnerVars, vars, localVars
          <5> QED  BY <5>1 DEF Admitted
        <4> QED  BY <3>1, <4>1 DEF Next, EngineStep, runnerVars
      <3>2. CASE \/ \E s \in SeqId, r \in Requests : add(s, r)
                 \/ \E t \in Sampled : postprocess(t)
        BY <3>2 DEF add, postprocess, Admitted, Next, EngineStep, PostProcess
      <3>3. CASE \/ schedule \/ TakeFront \/ PreemptVictim \/ PreemptSelf
                 \/ ScheduleDecode \/ EndDecode \/ run \/ Finish \/ EndStep
        <4>1. ~Admitted
          BY <3>3 DEF schedule, TakeFront, PreemptVictim, PreemptSelf,
                      ScheduleDecode, EndDecode, run, Finish, EndStep, Admitted
        <4> QED  BY <3>3, <4>1
                 DEF Next, EngineStep, schedule_default, DecodeLoop, PostProcess
      <3> QED  BY <1>3, <3>1, <3>2, <3>3
               DEF RunnerNext, OutsideRun, SchedulePath, schedule_chunked,
                   DecodeLoop, PostProcess, RunModel
    <2>2. TypeOK'
      BY <1>0, <1>1, <2>1, CommonTypesKept
    <2>3. QInv'
      BY <1>0, <2>1, <2>2, NextQ
    <2> QED  BY <1>1, <2>3 DEF CInv
  <1> QED  BY <1>2, <1>3

\* The scheduler's default path never sends the model runner a batch that it
\* refuses: every step of the engine is one of the scheduler's.
LEMMA DefaultStep ==
    ASSUME SInv, ~enable_chunked_prefill, [RunnerNext]_runnerVars
    PROVE  [Next]_vars
  <1>1. ~RunThrows
    <2> SUFFICES ASSUME pc = "run", NEW s \in Batch
                 PROVE  ~Refused(s)
      BY DEF RunThrows
    <2>1. /\ status[s] = "RUNNING"
          /\ Len(block_table[s]) = num_blocks(token_ids[s])
      BY RunnableBatch DEF BatchIsRunnable, Batch
    <2>2. s \in SeqId
      BY BatchRuns DEF Batch, SInv, QInv
    <2>3. block_table[s] # << >>
      BY <2>1, <2>2, QuietCall, QuietTables DEF SInv, QInv
    <2> QED  BY <2>1, <2>3 DEF Refused
  <1> QED  BY <1>1 DEF RunnerNext, OutsideRun, SchedulePath, RunModel, Next,
                       EngineStep, runnerVars

EngineInv == IF enable_chunked_prefill THEN CInv ELSE SInv

LEMMA EngineInit ==
    ASSUME RunnerInit
    PROVE  EngineInv
  <1>1. SInv
    BY InitS DEF RunnerInit
  <1>2. pc = "idle" /\ scheduled_seqs = << >>
    BY DEF RunnerInit, Init
  <1> QED  BY <1>1, <1>2 DEF EngineInv, CInv, SInv, ChunkWork, ChunksWithinBudget

LEMMA EngineNext ==
    ASSUME EngineInv, [RunnerNext]_runnerVars
    PROVE  EngineInv'
  <1>1. CASE enable_chunked_prefill
    BY <1>1, ChunkedNext DEF EngineInv
  <1>2. CASE ~enable_chunked_prefill
    BY <1>2, DefaultStep, NextS DEF EngineInv
  <1> QED  BY <1>1, <1>2

\* The queues, loops and tables of the scheduler and the block manager's
\* accounts, whichever way batches are made up and whatever is refused.
THEOREM EngineInvariant == RunnerSpec => []EngineInv
  <1>1. RunnerInit => EngineInv
    BY EngineInit
  <1>2. EngineInv /\ [RunnerNext]_runnerVars => EngineInv'
    BY EngineNext
  <1> QED  BY <1>1, <1>2, PTL DEF RunnerSpec

\* What both ways have in common.
LEMMA EngineQueues == EngineInv => QInv /\ Manager!IInv
  BY DEF EngineInv, CInv, SInv

-----------------------------------------------------------------------------
(* The theorems *)

\* On the default path the engine is the scheduler with its model: what
\* SchedulerProofs proves of Spec holds of it, and prepare_prefill and
\* prepare_decode never throw.
THEOREM DefaultNeverThrows ==
    ASSUME ~enable_chunked_prefill
    PROVE  RunnerSpec => Spec /\ [][~RunThrows]_runnerVars
  <1>1. RunnerInit => Init
    BY DEF RunnerInit
  <1>2. EngineInv /\ [RunnerNext]_runnerVars => [Next]_vars
    BY DefaultStep DEF EngineInv
  <1>3. EngineInv /\ [RunnerNext]_runnerVars => [~RunThrows]_runnerVars
    <2> SUFFICES ASSUME EngineInv, RunThrows
                 PROVE  FALSE
      OBVIOUS
    <2>1. [Next]_vars /\ SInv
      BY <1>2 DEF RunnerNext, EngineInv
    <2>2. pc = "run" /\ pc' = "idle"
      BY DEF RunThrows
    <2>3. CASE BlockManagerStep \/ UNCHANGED vars
      BY <2>2, <2>3 DEF BlockManagerStep, vars, localVars
    <2>4. CASE \/ \E s \in SeqId, r \in Requests : add(s, r)
               \/ \E t \in Sampled : postprocess(t)
      BY <2>2, <2>4 DEF add, postprocess
    <2>5. CASE \/ schedule \/ schedule_default \/ run \/ Finish \/ EndStep
      BY <2>2, <2>5 DEF schedule, schedule_default, Admit, Admitted,
           EndAdmission, DecodeLoop, TakeFront, PreemptVictim, PreemptSelf,
           ScheduleDecode, EndDecode, run, Finish, EndStep
    <2> QED  BY <2>1, <2>3, <2>4, <2>5 DEF Next, EngineStep, PostProcess
  <1> QED  BY <1>1, <1>2, <1>3, EngineInvariant, PTL DEF RunnerSpec, Spec

\* No request is lost, doubled or left behind, by chunks and refused batches
\* either.
THEOREM EngineQueuesExact == RunnerSpec => []QueuesMatchStatus
  <1>1. EngineInv => QueuesMatchStatus
    BY EngineQueues DEF QInv
  <1> QED  BY <1>1, EngineInvariant, PTL

\* No block leaks, through an exception of the model runner either.
THEOREM EngineTablesExact == RunnerSpec => []TablesMatchStatus
  <1>1. EngineInv => TablesMatchStatus
    <2> SUFFICES ASSUME EngineInv, call = NoCall, NEW s \in SeqId
                 PROVE  block_table[s] # << >> <=>
                            \/ status[s] = "RUNNING"
                            \/ pc \in {"admitted", "finish"} /\ s = cur
      BY DEF TablesMatchStatus
    <2>1. TypeOK /\ TablesOK
      BY EngineQueues DEF QInv
    <2> QED  BY <2>1, QuietTables
  <1> QED  BY <1>1, EngineInvariant, PTL

\* The reference counts and the free deque stay exact, although a chunked
\* prefill does not keep to the block manager's protocol.
THEOREM EngineCountsExact == RunnerSpec => []CountsExact
  <1>1. EngineInv => CountsExact
    <2>1. \A b : Manager!Refs(b) = Client!Refs(b)
      BY DEF Manager!Refs, Client!Refs, Manager!Held, Client!Held
    <2>2. \A S : Manager!Cardinality(S) = Client!Cardinality(S)
      BY DEF Manager!Cardinality, Client!Cardinality
    <2>3. Manager!BlockId = Client!BlockId
      BY DEF Manager!BlockId, Client!BlockId
    <2>4. Manager!RefCountExact <=> Client!RefCountExact
      BY <2>1, <2>2, <2>3 DEF Manager!RefCountExact, Client!RefCountExact
    <2>5. Manager!FreeUsedPartition <=> Client!FreeUsedPartition
      BY <2>3 DEF Manager!FreeUsedPartition, Client!FreeUsedPartition,
                  Manager!IsInjective, Client!IsInjective, Manager!ToSet,
                  Client!ToSet
    <2> QED  BY <2>4, <2>5, EngineQueues DEF Manager!IInv, CountsExact
  <1> QED  BY <1>1, EngineInvariant, PTL

\* The chunks of a step stay within both budgets and within each sequence, and
\* only the last may leave tokens behind.
THEOREM ChunksWithin ==
    ASSUME enable_chunked_prefill
    PROVE  RunnerSpec => []ChunksWithinBudget
  <1>1. EngineInv => ChunksWithinBudget
    BY DEF EngineInv, CInv
  <1> QED  BY <1>1, EngineInvariant, PTL

\* Chunks and refused batches leave the service order alone.
LEMMA EngineOrder ==
    ASSUME EngineInv, [RunnerNext]_runnerVars
    PROVE  ServedInOrder /\ YoungestYields
  <1>q. QInv
    BY EngineQueues
  <1>1. CASE [Next]_vars
    BY <1>q, <1>1, NextOrder
  <1>2. CASE ~[Next]_vars
    <2>1. CInv /\ enable_chunked_prefill
      BY <1>2, DefaultStep DEF EngineInv
    <2>2. \/ ChunkedAdmit \/ ChunkedAdmitted \/ ChunkedPrefill \/ ChunkedDecode
          \/ RunThrows
      BY <1>2, <2>1
         DEF RunnerNext, OutsideRun, SchedulePath, schedule_chunked,
             RunModel, Next, EngineStep, schedule_default, runnerVars
    <2>3. Moves
      BY <1>q, <2>1, <2>2, ChunkedMoves DEF CInv
    <2> QED  BY <1>q, <2>3, MovesOrder
  <1> QED  BY <1>1, <1>2

\* First come, first served with chunked prefill too.
THEOREM EngineServesInOrder == RunnerSpec => FirstComeFirstServed
  <1>1. EngineInv /\ [RunnerNext]_runnerVars => [ServedInOrder]_vars
    BY EngineOrder
  <1>2. RunnerSpec => [][ServedInOrder]_vars
    BY <1>1, EngineInvariant, PTL DEF RunnerSpec
  <1> QED  BY <1>2 DEF FirstComeFirstServed, ServedInOrder

\* And only the youngest is ever preempted.
THEOREM EnginePreemptsYoungest == RunnerSpec => PreemptYoungest
  <1>1. EngineInv /\ [RunnerNext]_runnerVars => [YoungestYields]_vars
    BY EngineOrder
  <1>2. RunnerSpec => [][YoungestYields]_vars
    BY <1>1, EngineInvariant, PTL DEF RunnerSpec
  <1> QED  BY <1>2 DEF PreemptYoungest, YoungestYields

-----------------------------------------------------------------------------
(* What the caller and the model see *)

\* What postprocess finds of the sequence it is at, on both paths: its chunk,
\* if it has one, ends within its tokens.
LEMMA WithinSequence ==
    ASSUME EngineInv, NEW t \in Sampled, postprocess(t)
    PROVE  LET s == scheduled_seqs[post_i] IN
           /\ s \in SeqId /\ len(s) \in Nat
           /\ num_tokens_to_process[s] \in Nat /\ num_computed_tokens[s] \in Nat
           /\ num_tokens_to_process[s] > 0 =>
                  /\ ~finished_prefill(s) => is_prefill
                  /\ new_computed(s) <= len(s)
  <1> DEFINE s == scheduled_seqs[post_i]
  <1>q. QInv
    BY EngineQueues
  <1>1. s \in SeqId
    BY <1>q, PostprocessedSequence
  <1>2. /\ len(s) \in Nat /\ num_tokens_to_process[s] \in Nat
        /\ num_computed_tokens[s] \in Nat
    BY <1>q, <1>1, LenProperties DEF QInv, TypeOK, BMTypeOK, len
  <1>3. CASE enable_chunked_prefill
    <2>1. pc = "post" /\ post_i \in post_i .. Len(scheduled_seqs)
      <3>1. post_i \in Nat /\ Len(scheduled_seqs) \in Nat
        BY <1>q, LenProperties DEF QInv, TypeOK
      <3> QED  BY <3>1 DEF postprocess
    <2>2. Decoding(s) \/ (is_prefill /\ Chunked(s))
      BY <1>3, <2>1 DEF EngineInv, CInv, ChunkWork
    <2> HIDE DEF s
    <2>3. Chunked(s) => new_computed(s) <= len(s)
      BY <1>2 DEF Chunked, remaining, new_computed
    <2> QED  BY <1>1, <1>2, <2>2, <2>3 DEF s, Decoding
  <1>4. CASE ~enable_chunked_prefill
    <2>1. SInv
      BY <1>4 DEF EngineInv
    <2>2. num_tokens_to_process[s] > 0 => finished_prefill(s)
      BY <2>1, ComputesWhole
    <2>3. finished_prefill(s) => new_computed(s) <= len(s)
      BY <1>2 DEF finished_prefill
    <2> QED  BY <1>1, <1>2, <2>2, <2>3
  <1> QED  BY <1>3, <1>4

\* The step of KeepsTokensOfWholeSequences.
KeepsWhole ==
    pc = "post" /\ post_i' = post_i + 1 =>
        LET s == scheduled_seqs[post_i] IN
        token_ids'[s] # token_ids[s] <=> query_end(s) = len(s)

\* The end of a chunk in the middle of a prompt, as prepare_prefill and
\* postprocess compute it.
LEMMA EndOfChunk ==
    ASSUME EngineInv, NEW t \in Sampled, postprocess(t)
    PROVE  LET s == scheduled_seqs[post_i]
           IN  query_end(s) = len(s) <=> ~Dropped(s)
  <1> DEFINE s == scheduled_seqs[post_i]
  <1>1. /\ len(s) \in Nat
        /\ num_tokens_to_process[s] \in Nat /\ num_computed_tokens[s] \in Nat
        /\ num_tokens_to_process[s] > 0 =>
               /\ ~finished_prefill(s) => is_prefill
               /\ new_computed(s) <= len(s)
    BY WithinSequence
  <1> HIDE DEF s
  <1>2. CASE num_tokens_to_process[s] > 0
    <2>1. query_begin(s) + num_tokens_to_process[s] = new_computed(s)
      BY <1>2 DEF query_begin, new_computed
    <2>2. new_computed(s) \in Nat
      BY <1>1 DEF new_computed
    <2>3. query_end(s) = IF is_prefill /\ new_computed(s) < len(s)
                         THEN new_computed(s) ELSE len(s)
      BY <1>2, <2>1 DEF query_end
    <2>4. finished_prefill(s) <=> new_computed(s) = len(s)
      BY DEF finished_prefill
    <2> QED  BY <1>1, <1>2, <2>2, <2>3, <2>4 DEF Dropped, s
  <1>3. CASE ~(num_tokens_to_process[s] > 0)
    BY <1>3 DEF query_end, Dropped, s
  <1> QED  BY <1>2, <1>3

\* A sampled token is kept exactly when the step computed its sequence to the
\* last token: postprocess and prepare_prefill agree on what a terminal chunk
\* is, on both paths.
THEOREM KeepsExactly == RunnerSpec => KeepsTokensOfWholeSequences
  <1>1. EngineInv /\ [RunnerNext]_runnerVars => [KeepsWhole]_runnerVars
    <2> SUFFICES ASSUME EngineInv, RunnerNext, pc = "post", post_i' = post_i + 1
                 PROVE  LET s == scheduled_seqs[post_i] IN
                        token_ids'[s] # token_ids[s] <=> query_end(s) = len(s)
      BY DEF KeepsWhole
    <2>0. QInv /\ post_i \in Nat
      BY EngineQueues DEF QInv, TypeOK
    <2>1. CASE \E t \in Sampled : postprocess(t)
      <3>1. PICK t \in Sampled : postprocess(t)
        BY <2>1
      <3> DEFINE s == scheduled_seqs[post_i]
      <3>2. /\ s \in SeqId
            /\ query_end(s) = len(s) <=> ~Dropped(s)
        BY <3>1, WithinSequence, EndOfChunk
      <3>3. token_ids' = IF Dropped(s) THEN token_ids
                         ELSE [token_ids EXCEPT ![s] = Append(@, t)]
        BY <3>1 DEF postprocess, Dropped
      <3>4. token_ids \in [SeqId -> Seq(Token)] /\ t \in Token
        BY <2>0, SampledAssumption DEF QInv, TypeOK, BMTypeOK
      <3>5. Append(token_ids[s], t) # token_ids[s]
        <4>1. token_ids[s] \in Seq(Token)
          BY <3>2, <3>4
        <4>2. /\ Len(Append(token_ids[s], t)) = Len(token_ids[s]) + 1
              /\ Len(token_ids[s]) \in Nat
          BY <3>4, <4>1, AppendProperties, LenProperties
        <4> QED  BY <4>2
      <3> HIDE DEF s
      <3>6. token_ids'[s] # token_ids[s] <=> ~Dropped(s)
        BY <3>2, <3>3, <3>4, <3>5
      <3> QED  BY <3>2, <3>6 DEF s
    <2>2. CASE EndStep \/ BlockManagerStep
      BY <2>0, <2>2 DEF EndStep, BlockManagerStep, localVars
    <2>3. CASE \E s \in SeqId, r \in Requests : add(s, r)
      BY <2>3 DEF add
    <2>4. CASE \/ schedule \/ schedule_default \/ schedule_chunked \/ run
               \/ Finish \/ RunThrows
      BY <2>4 DEF schedule, schedule_default, schedule_chunked, Admit, Admitted,
           EndAdmission, ChunkedAdmit, ChunkedAdmitted, ChunkedPrefill,
           ChunkedDecode, DecodeLoop, TakeFront, PreemptVictim, PreemptSelf,
           ScheduleDecode, EndDecode, run, Finish, RunThrows
    <2> QED  BY <2>1, <2>2, <2>3, <2>4
             DEF RunnerNext, OutsideRun, SchedulePath, PostProcess, RunModel
  <1>2. RunnerSpec => [][KeepsWhole]_runnerVars
    BY <1>1, EngineInvariant, PTL DEF RunnerSpec
  <1> QED  BY <1>2 DEF KeepsTokensOfWholeSequences, KeepsWhole

\* A chunk in the middle of a prompt emits nothing: what a request gets is
\* what Generation promises, chunked or not, and however often the model
\* runner refuses its batch.
THEOREM EngineGenerates == RunnerSpec => ImplementsGeneration
  <1>1. RunnerInit => Generation!Init
    BY DEF RunnerInit, Init, BMInit, Generation!Init
  <1>2. EngineInv /\ [RunnerNext]_runnerVars => [Generation!Next]_(Generation!gVars)
    <2> SUFFICES ASSUME EngineInv, [RunnerNext]_runnerVars
                 PROVE  Generation!Next \/ UNCHANGED Generation!gVars
      OBVIOUS
    <2>q. QInv
      BY EngineQueues
    <2>1. CASE \E s \in SeqId, r \in Requests : add(s, r)
      BY <2>q, <2>1, SubmitStep
    <2>2. CASE \E t \in Sampled : postprocess(t)
      <3>1. PICK t \in Sampled : postprocess(t)
        BY <2>2
      <3> DEFINE s == scheduled_seqs[post_i]
      <3>2. CASE ~Dropped(s)
        <4>1. num_tokens_to_process[s] > 0 => finished_prefill(s)
          BY <3>2 DEF Dropped
        <4> QED  BY <2>q, <3>1, <4>1, EmitStep
      <3>3. CASE Dropped(s)
        <4>1. /\ UNCHANGED << token_ids, num_prompt_tokens, max_tokens,
                              ignore_eos, status >>
          BY <3>1, <3>3 DEF postprocess, Dropped, requestVars
        <4> QED  BY <4>1, Hidden DEF Active
      <3> QED  BY <3>2, <3>3
    <2>3. CASE \/ schedule \/ schedule_default \/ run \/ Finish \/ EndStep
               \/ BlockManagerStep \/ UNCHANGED runnerVars
      BY <2>q, <2>3, HiddenSteps DEF runnerVars
    <2>4. CASE \/ ChunkedAdmit \/ ChunkedPrefill \/ ChunkedDecode \/ RunThrows
      <3>1. UNCHANGED << token_ids, num_prompt_tokens, max_tokens, ignore_eos,
                         status >>
        BY <2>4 DEF ChunkedAdmit, ChunkedPrefill, ChunkedDecode, RunThrows,
                    BeginAllocate, bmVars, seqVars, requestVars
      <3> QED  BY <3>1, Hidden DEF Active
    <2>5. CASE ChunkedAdmitted
      <3>1. /\ UNCHANGED << token_ids, num_prompt_tokens, max_tokens, ignore_eos >>
            /\ status' = [status EXCEPT ![cur] = "RUNNING"]
            /\ pc = "admitted"
        BY <2>5 DEF ChunkedAdmitted, bmVars, requestVars
      <3>2. cur \in SeqId /\ status[cur] = "WAITING"
        BY <2>q, <3>1, AdmittedSequence
      <3>3. Active' = Active
        BY <2>q, <3>1, <3>2 DEF Active, QInv, TypeOK
      <3> QED  BY <3>1, <3>3, Hidden
    <2> QED  BY <2>1, <2>2, <2>3, <2>4, <2>5
             DEF RunnerNext, OutsideRun, SchedulePath, schedule_chunked,
                 schedule_default, PostProcess, RunModel
  <1> QED  BY <1>1, <1>2, EngineInvariant, PTL
           DEF RunnerSpec, ImplementsGeneration, Generation!Spec

-----------------------------------------------------------------------------
(* The cache is written with prefixes of the sequences *)

LEMMA PrefixType ==
    ASSUME QInv, Manager!IInv, pc = "run", NEW s \in Batch, NEW pos \in Queries(s)
    PROVE  Prefix(s, pos) \in Seq(Token)
  <1>1. s \in SeqId /\ status[s] = "RUNNING"
    BY BatchRuns DEF Batch, QInv
  <1>2. /\ token_ids[s] \in Seq(Token) /\ len(s) \in Nat
        /\ num_cached_tokens[s] \in Nat
        /\ num_computed_tokens[s] \in Nat /\ num_tokens_to_process[s] \in Nat
    BY <1>1, LenProperties DEF QInv, TypeOK, BMTypeOK, len
  <1>3. len(s) >= 1
    <2>1. block_table[s] # << >>
      BY <1>1, QuietCall, QuietTables DEF QInv
    <2>2. token_ids[s] # << >>
      BY <1>1, <2>1 DEF Manager!IInv, Manager!ClientOK
    <2> QED  BY <1>2, <2>2, EmptySeq DEF len
  <1>4. query_begin(s) \in Nat
    BY <1>2, <1>3 DEF query_begin, ComputedAtAdmission
  <1>5. query_end(s) \in Nat /\ query_end(s) <= len(s)
    BY <1>2, <1>4 DEF query_end
  <1>6. pos \in Nat /\ pos + 1 <= len(s)
    BY <1>2, <1>3, <1>4, <1>5 DEF Queries
  <1>7. 1 \in 1 .. Len(token_ids[s]) + 1 /\ pos + 1 \in 1 - 1 .. Len(token_ids[s])
    BY <1>2, <1>6 DEF len
  <1> QED  BY <1>2, <1>7, SubSeqProperties DEF Prefix

\* Every variable of the engine keeps its type; in the cache no slot is ever
\* written with anything but a prefix of the tokens of a sequence.
THEOREM EngineTypeCorrect == RunnerSpec => []KVTypeOK
  <1> DEFINE KV == kv \in [Slots -> SUBSET Seq(Token)]
  <1>1. RunnerInit => KV
    BY DEF RunnerInit
  <1>2. EngineInv /\ KV /\ [RunnerNext]_runnerVars => KV'
    <2> SUFFICES ASSUME EngineInv, KV, [RunnerNext]_runnerVars
                 PROVE  KV'
      OBVIOUS
    <2>1. CASE UNCHANGED kv
      BY <2>1
    <2>2. CASE RunModel
      <3>1. QInv /\ Manager!IInv /\ pc = "run"
        BY <2>2, EngineQueues DEF RunModel, run
      <3>2. kv' = store_kvcache
        BY <2>2 DEF RunModel
      <3>3. \A s \in Batch : \A pos \in Queries(s) : Prefix(s, pos) \in Seq(Token)
        BY <3>1, PrefixType
      <3> DEFINE Written(c) == UNION { { Prefix(s, pos) : pos \in
                                  { p \in Queries(s) : slot_mapping(s, p) = c } } :
                              s \in Batch }
      <3>4. kv' = [c \in Slots |-> IF Written(c) = {} THEN kv[c] ELSE Written(c)]
        BY <3>2 DEF store_kvcache
      <3>5. ASSUME NEW c \in Slots
            PROVE  Written(c) \in SUBSET Seq(Token)
        <4> SUFFICES ASSUME NEW x \in Written(c)
                     PROVE  x \in Seq(Token)
          OBVIOUS
        <4>1. PICK s \in Batch :
                x \in { Prefix(s, pos) : pos \in
                           { p \in Queries(s) : slot_mapping(s, p) = c } }
          OBVIOUS
        <4>2. PICK pos \in Queries(s) : x = Prefix(s, pos)
          BY <4>1
        <4> QED  BY <3>3, <4>2
      <3> HIDE DEF Written
      <3> QED  BY <3>4, <3>5
    <2> QED  BY <2>1, <2>2 DEF RunnerNext, RunThrows, runnerVars
  <1>3. EngineInv /\ KV => KVTypeOK
    BY EngineQueues DEF QInv, KVTypeOK
  <1> QED  BY <1>1, <1>2, <1>3, EngineInvariant, PTL DEF RunnerSpec

=============================================================================
