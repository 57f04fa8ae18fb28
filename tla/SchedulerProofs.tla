-------------------------- MODULE SchedulerProofs --------------------------
(***************************************************************************)
(* Proofs about the scheduler on its default path: it keeps to the block   *)
(* manager's protocol, so that what is proved of every client holds under  *)
(* it; its queues, tables and batches agree with the states of the         *)
(* requests; requests are served in the order they came; and what a        *)
(* request gets is what Generation promises.                               *)
(***************************************************************************)
EXTENDS Scheduler, SequenceProofs

\* The theorems about the block manager's client, with the pending tokens
\* the scheduler's state implies.
Manager == INSTANCE BlockClientProofs
             WITH pending <- Pending,
                  Prompts <- { r.prompt : r \in Requests },
                  Lengths <- Nat

-----------------------------------------------------------------------------
(* The inductive invariant *)

\* The block manager works for the scheduler only where the scheduler called
\* it: allocate for the sequence being admitted, deallocate for one that no
\* longer runs.
CallAtPc ==
    /\ call.op = "allocate" => pc = "admitted" /\ call.seq = cur
    /\ call.op = "deallocate" =>
           pc \in {"append", "decode", "post"} /\ status[call.seq] # "RUNNING"

\* The loops' `seq` is the one at work, and nothing is left of it elsewhere.
CurOK ==
    /\ cur \in SeqId <=> pc \in {"admitted", "append", "finish"}
    /\ pc = "admitted" => waiting # << >> /\ cur = Head(waiting)
    /\ pc = "finish" => status[cur] = "FINISHED"

\* The table of s is empty unless s runs or one of the calls made for it has
\* yet to return.
HasTable(s) ==
    \/ status[s] = "RUNNING"
    \/ pc = "finish" /\ s = cur
    \/ pc = "admitted" /\ s = cur /\ call = NoCall
    \/ call.op = "deallocate" /\ call.seq = s

TablesOK ==
    \A s \in SeqId :
        \/ call.op = "allocate" /\ call.seq = s
        \/ block_table[s] # << >> <=> HasTable(s)

\* What is still to be postprocessed of the batch, and all of it before.
UnrunFrom == IF pc \in {"post", "finish"} THEN post_i ELSE 1

BatchOK ==
    /\ IsInjective(scheduled_seqs)
    /\ pc = "idle" => scheduled_seqs = << >>
    /\ pc \in {"post", "finish"} => post_i >= 1
    /\ \A i \in UnrunFrom .. Len(scheduled_seqs) :
           status[scheduled_seqs[i]] = "RUNNING"

\* What a scheduled sequence has to compute.
Prefilling(s) ==
    /\ num_tokens_to_process[s] >= 1
    /\ new_computed(s) = len(s)
    /\ num_computed_tokens[s] <= num_cached_tokens[s]
Decoding(s) == num_tokens_to_process[s] = 0

WorkOK ==
    /\ pc \in {"admit", "admitted"} =>
           \A s \in ToSet(scheduled_seqs) : Prefilling(s)
    /\ pc \in {"decode", "append"} =>
           \A s \in ToSet(scheduled_seqs) : Decoding(s)
    /\ pc = "run" =>
           \A s \in ToSet(scheduled_seqs) :
               IF is_prefill THEN Prefilling(s) ELSE Decoding(s)
    /\ pc \in {"post", "finish"} =>
           \A i \in post_i .. Len(scheduled_seqs) :
               Decoding(scheduled_seqs[i])
                   \/ finished_prefill(scheduled_seqs[i])

\* num_seqs counts the batch, one ahead of it while a sequence is admitted.
CountOK ==
    /\ pc \in {"admit", "decode", "append"} => num_seqs = Len(scheduled_seqs)
    /\ pc = "admitted" => num_seqs = Len(scheduled_seqs) + 1
    /\ pc \in {"admit", "admitted", "decode"} => num_seqs <= max_num_seqs
    /\ pc = "append" => num_seqs < max_num_seqs
    /\ pc = "run" => Len(scheduled_seqs) <= max_num_seqs

\* What does not depend on the way batches are made up.
QInv ==
    /\ TypeOK
    /\ CallAtPc
    /\ CurOK
    /\ TablesOK
    /\ QueuesMatchStatus
    /\ BatchOK

SInv ==
    /\ QInv
    /\ WorkOK
    /\ CountOK
    /\ Manager!IInv
    /\ Manager!ContentInv

-----------------------------------------------------------------------------
(* The block manager of the client is the scheduler's *)

LEMMA ManagerAssumptions ==
    /\ Manager!BlockSizeAssumption
    /\ Manager!NumBlocksAssumption
    /\ Manager!SeqIdAssumption
    /\ Manager!PromptsAssumption
    /\ Manager!SampledAssumption
    /\ Manager!LengthsAssumption
  <1>1. { r.prompt : r \in Requests } \subseteq Seq(Token) \ {<< >>}
    BY RequestsAssumption
  <1>2. Manager!IsFiniteSet(SeqId)
    BY SeqIdAssumption DEF Manager!IsFiniteSet, IsFiniteSet
  <1> QED  BY <1>1, <1>2, BlockSizeAssumption, NumBlocksAssumption,
              SeqIdAssumption, SampledAssumption
           DEF Manager!BlockSizeAssumption, Manager!NumBlocksAssumption,
               Manager!SeqIdAssumption, Manager!PromptsAssumption,
               Manager!SampledAssumption, Manager!LengthsAssumption

LEMMA SameOperators ==
    /\ Manager!BlockId = BlockId
    /\ Manager!NoCall = NoCall
    /\ \A s : Manager!can_allocate(s) <=> can_allocate(s)
    /\ \A s : Manager!can_append(s) <=> can_append(s)
  BY DEF Manager!NoCall, NoCall, Manager!can_allocate, can_allocate,
         Manager!can_append, can_append, Manager!rem, rem, Manager!BlockId,
         BlockId, Manager!num_blocks, num_blocks, Manager!kNoHash, kNoHash

LEMMA SameTyping == Manager!BMTypeOK <=> BMTypeOK
  BY DEF Manager!BMTypeOK, BMTypeOK, Manager!BlockId, BlockId, Manager!Block,
         Block, Manager!Hash, Hash, Manager!Call, Call, Manager!NoCall,
         NoCall, Manager!kNoHash, kNoHash

LEMMA SameQueueOperators ==
    /\ \A q, x : Manager!RemoveFirst(q, x) = RemoveFirst(q, x)
    /\ \A q : Manager!Last(q) = Last(q)
  <1>1. \A q : Manager!Last(q) = Last(q)
    BY DEF Manager!Last, Last
  <1>2. ASSUME NEW q, NEW x
        PROVE  Manager!RemoveFirst(q, x) = RemoveFirst(q, x)
    <2>1. Manager!SelectInSeq(q, LAMBDA v : v = x) = SelectInSeq(q, LAMBDA v : v = x)
      BY DEF Manager!SelectInSeq, SelectInSeq, Manager!Min, Min
    <2> QED  BY <2>1 DEF Manager!RemoveFirst, RemoveFirst, Manager!RemoveAt, RemoveAt
  <1> QED  BY <1>1, <1>2

LEMMA SameBlockOperators ==
    /\ \A q : Manager!num_blocks(q) = num_blocks(q)
    /\ \A q, i : Manager!block(q, i) = block(q, i)
    /\ \A p, h : Manager!compute_hash(p, h) = compute_hash(p, h)
    /\ \A s : Manager!rem(s) = rem(s)
    /\ Manager!reset = reset
    /\ \A b, h, q : Manager!update(b, h, q) = update(b, h, q)
    /\ \A b : Manager!AddRef(b) = AddRef(b)
    /\ \A h, b : Manager!Index(h, b) = Index(h, b)
  BY DEF Manager!num_blocks, num_blocks, Manager!block, block,
         Manager!compute_hash, compute_hash, Manager!rem, rem,
         Manager!reset, reset, Manager!update, update, Manager!AddRef, AddRef,
         Manager!Index, Index, Manager!kNoHash, kNoHash

LEMMA SameQueueSteps ==
    /\ \A b : Manager!TakeFree(b) <=> TakeFree(b)
    /\ \A b : Manager!GiveBack(b) <=> GiveBack(b)
  BY SameQueueOperators
     DEF Manager!TakeFree, TakeFree, Manager!GiveBack, GiveBack

LEMMA SameBegins ==
    /\ \A s : Manager!BeginAllocate(s) <=> BeginAllocate(s)
    /\ \A s : Manager!BeginDeallocate(s) <=> BeginDeallocate(s)
  BY SameOperators, SameBlockOperators
     DEF Manager!BeginAllocate, BeginAllocate, Manager!BeginDeallocate,
         BeginDeallocate

LEMMA SameMayAppend == \A s : Manager!may_append(s) <=> may_append(s)
  <1>1. \A s : Manager!GrowTable(s) <=> GrowTable(s)
    BY SameBlockOperators, SameQueueSteps DEF Manager!GrowTable, GrowTable
  <1>2. \A s : Manager!SealLast(s) <=> SealLast(s)
    BY SameBlockOperators, SameQueueOperators
       DEF Manager!SealLast, SealLast, Manager!kNoHash, kNoHash
  <1>3. \A s : Manager!KeepFilling(s) <=> KeepFilling(s)
    BY SameBlockOperators DEF Manager!KeepFilling, KeepFilling
  <1> QED  BY <1>1, <1>2, <1>3, SameOperators
           DEF Manager!may_append, may_append

LEMMA SameSteps == Manager!BMStep <=> BMStep
  <1>1. /\ Manager!LoopIndex = LoopIndex
        /\ Manager!LoopTokens = LoopTokens
        /\ Manager!LoopHash = LoopHash
    BY SameBlockOperators
       DEF Manager!LoopIndex, LoopIndex, Manager!LoopTokens, LoopTokens,
           Manager!LoopHash, LoopHash, Manager!kNoHash, kNoHash
  <1>2. Manager!CacheHit <=> CacheHit
    BY <1>1 DEF Manager!CacheHit, CacheHit
  <1>3. \A b, blk, miss :
            Manager!EndIteration(b, blk, miss) <=> EndIteration(b, blk, miss)
    BY <1>1, SameBlockOperators, SameOperators
       DEF Manager!EndIteration, EndIteration, Manager!kNoHash, kNoHash
  <1>4. Manager!AllocateHitUsed <=> AllocateHitUsed
    BY <1>1, <1>2, <1>3, SameBlockOperators
       DEF Manager!AllocateHitUsed, AllocateHitUsed
  <1>5. Manager!AllocateHitFree <=> AllocateHitFree
    BY <1>1, <1>2, <1>3, SameBlockOperators, SameQueueSteps
       DEF Manager!AllocateHitFree, AllocateHitFree
  <1>6. Manager!AllocateMiss <=> AllocateMiss
    BY <1>2, <1>3, SameBlockOperators, SameQueueSteps
       DEF Manager!AllocateMiss, AllocateMiss
  <1>7. Manager!DeallocateStep <=> DeallocateStep
    BY SameQueueSteps, SameOperators DEF Manager!DeallocateStep, DeallocateStep
  <1> QED  BY <1>4, <1>5, <1>6, <1>7 DEF Manager!BMStep, BMStep

-----------------------------------------------------------------------------
(* What the invariant says of the moment between two calls *)

LEMMA QuietCall ==
    ASSUME TypeOK, CallAtPc,
           pc \in {"idle", "admit", "run", "finish"} \/ call.op = "none"
    PROVE  call = NoCall
  BY DEF TypeOK, BMTypeOK, CallAtPc, Call

\* Between two calls exactly the running sequences and those in transit have
\* a table.
LEMMA QuietTables ==
    ASSUME TypeOK, TablesOK, call = NoCall, NEW s \in SeqId
    PROVE  block_table[s] # << >> <=>
               \/ status[s] = "RUNNING"
               \/ pc \in {"admitted", "finish"} /\ s = cur
  BY DEF TablesOK, HasTable, NoCall, kNoHash

\* The batch in positions.
LEMMA BatchPositions ==
    ASSUME TypeOK, BatchOK
    PROVE  /\ Len(scheduled_seqs) \in Nat
           /\ UnrunFrom \in Nat /\ UnrunFrom >= 1
           /\ \A i \in UnrunFrom .. Len(scheduled_seqs) :
                  i \in 1 .. Len(scheduled_seqs) /\ scheduled_seqs[i] \in SeqId
           /\ \A i, j \in 1 .. Len(scheduled_seqs) :
                  scheduled_seqs[i] = scheduled_seqs[j] => i = j
  <1>1. Len(scheduled_seqs) \in Nat
    BY LenProperties DEF TypeOK
  <1>2. UnrunFrom \in Nat /\ UnrunFrom >= 1
    BY DEF TypeOK, BatchOK, UnrunFrom
  <1>3. \A i \in UnrunFrom .. Len(scheduled_seqs) :
            i \in 1 .. Len(scheduled_seqs)
    BY <1>1, <1>2
  <1> QED  BY <1>1, <1>2, <1>3, ElementOfSeq, ElementPositions, SMTT(30)
           DEF TypeOK, BatchOK

LEMMA UnrunElements ==
    ASSUME TypeOK
    PROVE  \A s : s \in Unrun <=>
               \/ \E i \in UnrunFrom .. Len(scheduled_seqs) :
                      scheduled_seqs[i] = s
               \/ pc = "admitted" /\ s = cur
  <1>1. ToSet(scheduled_seqs) =
            { scheduled_seqs[i] : i \in 1 .. Len(scheduled_seqs) }
    BY LenProperties DEF TypeOK, ToSet
  <1> QED  BY <1>1 DEF Unrun, UnrunFrom

\* A sequence in the batch that was not postprocessed yet runs.
LEMMA UnrunRuns ==
    ASSUME TypeOK, BatchOK, NEW s, s \in Unrun
    PROVE  status[s] = "RUNNING" \/ (pc = "admitted" /\ s = cur)
  <1>1. CASE pc = "admitted" /\ s = cur
    BY <1>1
  <1>2. CASE \E i \in UnrunFrom .. Len(scheduled_seqs) : scheduled_seqs[i] = s
    <2>1. PICK i \in UnrunFrom .. Len(scheduled_seqs) : scheduled_seqs[i] = s
      BY <1>2
    <2>2. status[scheduled_seqs[i]] = "RUNNING"
      BY DEF BatchOK
    <2> QED  BY <2>1, <2>2
  <1> QED  BY <1>1, <1>2, UnrunElements

-----------------------------------------------------------------------------
(* Every step of the scheduler is a step of the client, or none *)

LEMMA ClientStutter ==
    ASSUME UNCHANGED bmVars, Unrun' = Unrun
    PROVE  UNCHANGED Manager!vars
  BY DEF Manager!vars, Manager!bmVars, bmVars, Pending

\* The sequence the decode loop is at runs and is not in the batch already.
LEMMA CurInHand ==
    ASSUME TypeOK, QueuesMatchStatus, pc = "append", cur \in SeqId
    PROVE  status[cur] = "RUNNING" /\ cur \notin ToSet(scheduled_seqs)
  <1>1. InHand = Append(scheduled_seqs, cur)
    BY DEF InHand
  <1>2. /\ InHand \in Seq(SeqId)
        /\ ToSet(InHand) = ToSet(scheduled_seqs) \cup {cur}
        /\ IsInjective(InHand) => cur \notin ToSet(scheduled_seqs)
    BY <1>1, AppendElements DEF TypeOK
  <1>3. /\ running \in Seq(SeqId) /\ waiting \in Seq(SeqId)
        /\ InHand \o running \in Seq(SeqId)
    BY <1>2, ConcatProperties DEF TypeOK
  <1>4. IsInjective(InHand \o running)
    BY <1>3, ConcatInjective DEF QueuesMatchStatus, ServiceOrder
  <1>5. IsInjective(InHand)
    BY <1>2, <1>3, <1>4, ConcatInjective
  <1>6. cur \in ToSet(InHand \o running)
    BY <1>2, <1>3, ConcatElements
  <1> QED  BY <1>2, <1>5, <1>6 DEF QueuesMatchStatus

\* may_append leaves every table empty or not, as it was, and touches none
\* but its own sequence's.
LEMMA MayAppendTable ==
    ASSUME TypeOK, NEW s \in SeqId, may_append(s), block_table[s] # << >>
    PROVE  /\ \A u \in SeqId : block_table'[u] # << >> <=> block_table[u] # << >>
           /\ \A u \in SeqId : u # s => block_table'[u] = block_table[u]
  <1>1. CASE GrowTable(s)
    <2> DEFINE b == Head(free_block_ids)
    <2>1. block_table' = [block_table EXCEPT ![s] = Append(@, b)]
      BY <1>1 DEF GrowTable
    <2>2. Append(block_table[s], b) # << >>
      BY AppendNonempty DEF TypeOK, BMTypeOK
    <2> QED  BY <2>1, <2>2 DEF TypeOK, BMTypeOK
  <1>2. CASE SealLast(s) \/ KeepFilling(s)
    BY <1>2 DEF SealLast, KeepFilling
  <1> QED  BY <1>1, <1>2 DEF may_append

\* A step of a running allocate or deallocate touches the table of its own
\* sequence only; when it returns, deallocate leaves that table empty and
\* allocate does not.
LEMMA BMStepCall ==
    ASSUME TypeOK, BMStep
    PROVE  /\ call.op \in {"allocate", "deallocate"} /\ call.seq \in SeqId
           /\ call' = NoCall \/ (call'.op = call.op /\ call'.seq = call.seq)
           /\ \A s \in SeqId : s # call.seq => block_table'[s] = block_table[s]
           /\ \A s \in SeqId :
                  s # call.seq => num_cached_tokens'[s] = num_cached_tokens[s]
           /\ call.op = "allocate" => block_table'[call.seq] # << >>
           /\ call.op = "deallocate" =>
                  block_table'[call.seq] =
                      IF call' = NoCall THEN << >> ELSE block_table[call.seq]
           /\ token_ids' = token_ids
  <1>1. ASSUME NEW b, NEW blk, NEW miss, call.op = "allocate",
               EndIteration(b, blk, miss)
        PROVE  /\ call' = NoCall \/ (call'.op = call.op /\ call'.seq = call.seq)
               /\ \A s \in SeqId : s # call.seq => block_table'[s] = block_table[s]
               /\ block_table'[call.seq] # << >>
               /\ token_ids' = token_ids
    <2>1. block_table' = [block_table EXCEPT ![call.seq] = Append(@, b)]
      BY <1>1 DEF EndIteration
    <2>3. call.seq \in SeqId
      BY <1>1 DEF TypeOK, BMTypeOK
    <2>2. Append(block_table[call.seq], b) # << >>
      BY <2>3, AppendNonempty DEF TypeOK, BMTypeOK
    <2>4. ASSUME call' = [call EXCEPT !.h = LoopHash, !.cache_miss = miss]
          PROVE  call'.op = call.op /\ call'.seq = call.seq
      BY <2>4 DEF TypeOK, BMTypeOK, Call
    <2>5. call' = NoCall \/ (call'.op = call.op /\ call'.seq = call.seq)
      BY <1>1, <2>4 DEF EndIteration
    <2>6. token_ids' = token_ids
      BY <1>1 DEF EndIteration
    <2> QED  BY <2>1, <2>2, <2>3, <2>5, <2>6 DEF TypeOK, BMTypeOK
  <1>2. CASE AllocateHitUsed
    <2>1. /\ call.op = "allocate" /\ call.seq \in SeqId
          /\ \E b, blk, miss : EndIteration(b, blk, miss)
      BY <1>2 DEF AllocateHitUsed, TypeOK, BMTypeOK
    <2>2. \A s \in SeqId :
              s # call.seq => num_cached_tokens'[s] = num_cached_tokens[s]
      BY <1>2 DEF AllocateHitUsed, TypeOK, BMTypeOK
    <2> QED  BY <1>1, <2>1, <2>2
  <1>3. CASE AllocateHitFree
    <2>1. /\ call.op = "allocate" /\ call.seq \in SeqId
          /\ \E b, blk, miss : EndIteration(b, blk, miss)
      BY <1>3 DEF AllocateHitFree, TypeOK, BMTypeOK
    <2>2. \A s \in SeqId :
              s # call.seq => num_cached_tokens'[s] = num_cached_tokens[s]
      BY <1>3 DEF AllocateHitFree, TypeOK, BMTypeOK
    <2> QED  BY <1>1, <2>1, <2>2
  <1>4. CASE AllocateMiss
    <2>1. /\ call.op = "allocate" /\ call.seq \in SeqId
          /\ \E b, blk, miss : EndIteration(b, blk, miss)
      BY <1>4 DEF AllocateMiss, TypeOK, BMTypeOK
    <2>2. num_cached_tokens' = num_cached_tokens
      BY <1>4 DEF AllocateMiss
    <2> QED  BY <1>1, <2>1, <2>2
  <1>5. CASE DeallocateStep
    <2>1. call.op = "deallocate" /\ call.seq \in SeqId /\ token_ids' = token_ids
      BY <1>5 DEF DeallocateStep, TypeOK, BMTypeOK
    <2>2. CASE call.it > 1
      <3>1. call' = [call EXCEPT !.it = @ - 1]
        BY <1>5, <2>2 DEF DeallocateStep
      <3>2. block_table' = block_table /\ num_cached_tokens' = num_cached_tokens
        BY <1>5, <2>2 DEF DeallocateStep
      <3>3. call'.op = call.op /\ call'.seq = call.seq
        BY <3>1 DEF TypeOK, BMTypeOK, Call
      <3> QED  BY <2>1, <3>2, <3>3 DEF NoCall
    <2>3. CASE ~(call.it > 1)
      <3>1. /\ call' = NoCall
            /\ block_table' = [block_table EXCEPT ![call.seq] = << >>]
            /\ num_cached_tokens' = [num_cached_tokens EXCEPT ![call.seq] = 0]
        BY <1>5, <2>3 DEF DeallocateStep
      <3>2. /\ block_table'[call.seq] = << >>
            /\ \A s \in SeqId : s # call.seq =>
                   /\ block_table'[s] = block_table[s]
                   /\ num_cached_tokens'[s] = num_cached_tokens[s]
        BY <2>1, <3>1 DEF TypeOK, BMTypeOK
      <3>3. call.op = "deallocate" /\ call.op # "allocate"
        BY <2>1
      <3> QED  BY <2>1, <3>1, <3>2, <3>3
    <2> QED  BY <2>2, <2>3
  <1> QED  BY <1>2, <1>3, <1>4, <1>5 DEF BMStep

LEMMA addClient ==
    ASSUME QInv, NEW s \in SeqId, NEW r \in Requests, add(s, r)
    PROVE  Manager!NewRequest(s, r.prompt) /\ Manager!Next
  <1>1. call = NoCall /\ block_table[s] = << >>
    BY QuietCall, QuietTables DEF QInv, add
  <1>2. Pending' = Pending
    BY DEF add, localVars, Pending, Unrun
  <1>3. Manager!NewRequest(s, r.prompt)
    BY <1>1, <1>2, SameOperators DEF add, Manager!NewRequest
  <1> QED  BY <1>3 DEF Manager!Next

LEMMA AdmitClient ==
    ASSUME QInv, Admit
    PROVE  LET s == Head(waiting) IN
           s \in SeqId /\ Manager!Allocate(s) /\ Manager!Next
  <1> DEFINE s == Head(waiting)
  <1>1. s \in SeqId
    BY HeadBeforeTail DEF QInv, TypeOK, Admit, CanAdmit
  <1>2. s \in ToSet(waiting)
    BY EndElements DEF QInv, TypeOK, Admit, CanAdmit
  <1>3. call = NoCall /\ block_table[s] = << >>
    BY <1>1, <1>2, QuietCall, QuietTables
       DEF QInv, QueuesMatchStatus, Admit
  <1>4. Pending' = Pending
    <2>1. call'.seq = s /\ call.seq = NoSeq
      BY <1>3 DEF Admit, BeginAllocate, NoCall
    <2>2. Unrun' = Unrun \cup {s}
      BY DEF Admit, queueVars, Unrun
    <2>3. block_table' = block_table
      BY DEF Admit, BeginAllocate
    <2>4. NoSeq \notin SeqId
      BY SeqIdAssumption
    <2> QED  BY <1>3, <2>1, <2>2, <2>3, <2>4 DEF Pending
  <1>5. Manager!Allocate(s)
    BY <1>3, <1>4, SameOperators, SameBegins
       DEF Admit, CanAdmit, Manager!Allocate
  <1> QED  BY <1>1, <1>5 DEF Manager!Next

LEMMA PreemptVictimClient ==
    ASSUME QInv, PreemptVictim
    PROVE  LET s == Last(running) IN
           s \in SeqId /\ Manager!Release(s) /\ Manager!Next
  <1> DEFINE s == Last(running)
  <1>1. s \in SeqId
    BY FrontBeforeLast DEF QInv, TypeOK, PreemptVictim
  <1>2. Pending' = [Pending EXCEPT ![s] = FALSE]
    <2>1. call'.seq = s /\ call.seq = NoSeq /\ block_table' = block_table
      BY DEF PreemptVictim, preempt, BeginDeallocate, NoCall
    <2>2. Unrun' = Unrun
      BY DEF PreemptVictim, localVars, Unrun
    <2>3. NoSeq \notin SeqId
      BY SeqIdAssumption
    <2> QED  BY <1>1, <2>1, <2>2, <2>3 DEF Pending
  <1>3. Manager!Release(s)
    BY <1>2, SameBegins DEF PreemptVictim, preempt, Manager!Release
  <1> QED  BY <1>1, <1>3 DEF Manager!Next

LEMMA PreemptSelfClient ==
    ASSUME QInv, PreemptSelf
    PROVE  cur \in SeqId /\ Manager!Release(cur) /\ Manager!Next
  <1>1. cur \in SeqId
    BY DEF QInv, CurOK, PreemptSelf
  <1>2. Pending' = [Pending EXCEPT ![cur] = FALSE]
    <2>1. call'.seq = cur /\ call.seq = NoSeq /\ block_table' = block_table
      BY DEF PreemptSelf, preempt, BeginDeallocate, NoCall
    <2>2. Unrun' = Unrun
      BY DEF PreemptSelf, Unrun
    <2>3. NoSeq \notin SeqId
      BY SeqIdAssumption
    <2> QED  BY <1>1, <2>1, <2>2, <2>3 DEF Pending
  <1>3. Manager!Release(cur)
    BY <1>2, SameBegins DEF PreemptSelf, preempt, Manager!Release
  <1> QED  BY <1>1, <1>3 DEF Manager!Next

LEMMA FinishClient ==
    ASSUME QInv, Finish
    PROVE  cur \in SeqId /\ Manager!Release(cur) /\ Manager!Next
  <1>1. cur \in SeqId
    BY DEF QInv, CurOK, Finish
  <1>2. Pending' = [Pending EXCEPT ![cur] = FALSE]
    <2>1. call'.seq = cur /\ call.seq = NoSeq /\ block_table' = block_table
      BY DEF Finish, BeginDeallocate, NoCall
    <2>2. Unrun' = Unrun
      BY DEF Finish, Unrun
    <2>3. NoSeq \notin SeqId
      BY SeqIdAssumption
    <2> QED  BY <1>1, <2>1, <2>2, <2>3 DEF Pending
  <1>3. Manager!Release(cur)
    BY <1>2, SameBegins DEF Finish, Manager!Release
  <1> QED  BY <1>1, <1>3 DEF Manager!Next

LEMMA ScheduleDecodeClient ==
    ASSUME QInv, ScheduleDecode
    PROVE  cur \in SeqId /\ Manager!MayAppend(cur) /\ Manager!Next
  <1>1. cur \in SeqId /\ call = NoCall
    BY DEF QInv, CurOK, ScheduleDecode, may_append
  <1>2. status[cur] = "RUNNING" /\ cur \notin ToSet(scheduled_seqs)
    <2>1. InHand = Append(scheduled_seqs, cur)
      BY DEF ScheduleDecode, InHand
    <2> QED  BY <1>1, <2>1, CurInHand DEF ScheduleDecode, QInv
  <1>3. Pending[cur]
    <2>1. block_table[cur] # << >>
      BY <1>1, <1>2, QuietTables DEF QInv
    <2>2. call.seq # cur
      BY <1>1, SeqIdAssumption DEF NoCall
    <2>3. Unrun = ToSet(scheduled_seqs)
      BY DEF ScheduleDecode, Unrun
    <2> QED  BY <1>1, <1>2, <2>1, <2>2, <2>3 DEF Pending
  <1>4. Pending' = [Pending EXCEPT ![cur] = FALSE]
    <2>1. call' = call
      BY DEF ScheduleDecode, may_append
    <2>2. \A s \in SeqId : block_table'[s] # << >> <=> block_table[s] # << >>
      <3>1. block_table[cur] # << >> /\ TypeOK /\ may_append(cur)
        BY <1>1, <1>2, QuietTables DEF QInv, ScheduleDecode
      <3> QED  BY <1>1, <3>1, MayAppendTable
    <2>3. Unrun' = Unrun \cup {cur}
      <3>1. Unrun = ToSet(scheduled_seqs) /\ Unrun' = ToSet(scheduled_seqs')
        BY DEF ScheduleDecode, Unrun
      <3>2. ToSet(scheduled_seqs') = ToSet(scheduled_seqs) \cup {cur}
        BY <1>1, AppendElements DEF ScheduleDecode, QInv, TypeOK
      <3> QED  BY <3>1, <3>2
    <2> QED  BY <1>1, <2>1, <2>2, <2>3 DEF Pending
  <1>5. Manager!MayAppend(cur)
    BY <1>3, <1>4, SameOperators, SameMayAppend
       DEF ScheduleDecode, Manager!MayAppend
  <1> QED  BY <1>1, <1>5 DEF Manager!Next

LEMMA postprocessClient ==
    ASSUME QInv, NEW t \in Sampled, postprocess(t),
           LET s == scheduled_seqs[post_i]
           IN  num_tokens_to_process[s] > 0 => finished_prefill(s)
    PROVE  LET s == scheduled_seqs[post_i]
           IN  s \in SeqId /\ Manager!append_token(s, t) /\ Manager!Next
  <1> DEFINE s == scheduled_seqs[post_i]
  <1>0. /\ post_i \in UnrunFrom .. Len(scheduled_seqs)
        /\ UnrunFrom = post_i /\ pc = "post"
    BY BatchPositions DEF QInv, postprocess, UnrunFrom
  <1>1. s \in SeqId /\ call = NoCall /\ status[s] = "RUNNING"
    BY <1>0, BatchPositions DEF QInv, postprocess, BatchOK
  <1>2. num_tokens_to_process[s] > 0 => finished_prefill(s)
    OBVIOUS
  <1>3. block_table[s] # << >>
    BY <1>1, QuietTables DEF QInv
  <1>4. s \in Unrun
    BY <1>0, UnrunElements DEF QInv
  <1>5. Unrun' = Unrun \ {s}
    <2>1. Unrun = { scheduled_seqs[i] : i \in post_i .. Len(scheduled_seqs) }
      BY <1>0 DEF Unrun
    <2>2. Unrun' = { scheduled_seqs[i] :
                       i \in post_i + 1 .. Len(scheduled_seqs) }
      <3>1. pc' \in {"post", "finish"}
        BY <1>0 DEF postprocess
      <3>2. scheduled_seqs' = scheduled_seqs /\ post_i' = post_i + 1
        BY DEF postprocess, queueVars
      <3> QED  BY <3>1, <3>2 DEF Unrun
    <2>3. \A i \in post_i .. Len(scheduled_seqs) :
              scheduled_seqs[i] = s <=> i = post_i
      BY <1>0, BatchPositions DEF QInv
    <2>4. \A i : i \in post_i + 1 .. Len(scheduled_seqs) <=>
                     i \in post_i .. Len(scheduled_seqs) /\ i # post_i
      BY <1>0, BatchPositions DEF QInv
    <2> QED  BY <2>1, <2>2, <2>3, <2>4
  <1>6. Pending' = [Pending EXCEPT ![s] = TRUE]
    <2>1. call.seq # s
      BY <1>1, SeqIdAssumption DEF NoCall
    <2>2. block_table' = block_table /\ call' = call
      BY DEF postprocess
    <2> QED  BY <1>1, <1>3, <1>5, <2>1, <2>2 DEF Pending
  <1>7. ~Pending[s]
    BY <1>1, <1>4 DEF Pending
  <1>8. Len(token_ids[s]) + 1 \in Nat
    BY <1>1, LenProperties DEF QInv, TypeOK, BMTypeOK
  <1>9. token_ids' = [token_ids EXCEPT ![s] = Append(@, t)]
    BY <1>2 DEF postprocess
  <1>10. Manager!append_token(s, t)
    BY <1>1, <1>3, <1>6, <1>7, <1>8, <1>9, SameOperators
       DEF postprocess, Manager!append_token
  <1> QED  BY <1>1, <1>10 DEF Manager!Next

LEMMA BlockManagerClient ==
    ASSUME QInv, BlockManagerStep
    PROVE  Manager!BMStep /\ UNCHANGED Pending /\ Manager!Next
  <1>1. Unrun' = Unrun
    BY DEF BlockManagerStep, queueVars, localVars, Unrun
  <1>2. Pending' = Pending
    <2> SUFFICES ASSUME NEW s \in SeqId
                 PROVE  (/\ block_table'[s] # << >> /\ call'.seq # s
                         /\ s \notin Unrun) <=>
                        (/\ block_table[s] # << >> /\ call.seq # s
                         /\ s \notin Unrun)
      <3>1. Pending' = [s \in SeqId |-> block_table'[s] # << >> /\ call'.seq # s
                                        /\ s \notin Unrun']
        BY DEF Pending
      <3> QED  BY <1>1, <3>1 DEF Pending
    <2>1. call'.seq = call.seq \/ call'.seq = NoSeq
      BY BMStepCall DEF BlockManagerStep, QInv, NoCall
    <2>2. s # call.seq => block_table'[s] = block_table[s]
      BY BMStepCall DEF BlockManagerStep, QInv
    <2>3. CASE s # call.seq
      BY <2>1, <2>2, <2>3, SeqIdAssumption
    <2>4. CASE s = call.seq
      <3>1. CASE call.op = "allocate"
        <4>1. s \in Unrun
          BY <2>4, <3>1, UnrunElements DEF QInv, CallAtPc
        <4> QED  BY <4>1
      <3>2. CASE call.op = "deallocate"
        <4>1. block_table'[s] = << >> \/ call'.seq = s
          BY <2>4, <3>2, BMStepCall DEF BlockManagerStep, QInv
        <4> QED  BY <2>4, <4>1
      <3> QED  BY <3>1, <3>2, BMStepCall DEF BlockManagerStep, QInv
    <2> QED  BY <2>3, <2>4
  <1> QED  BY <1>2, SameSteps DEF BlockManagerStep, Manager!Next

\* The steps between two calls that leave the manager and the batch alone.
LEMMA LocalClient ==
    ASSUME QInv, \/ schedule \/ Admitted \/ EndAdmission \/ TakeFront
                 \/ EndDecode \/ run \/ EndStep \/ UNCHANGED vars
    PROVE  UNCHANGED Manager!vars
  <1>1. CASE schedule
    BY <1>1, ClientStutter DEF schedule, queueVars, Unrun
  <1>2. CASE Admitted
    <2>1. cur \in SeqId /\ UNCHANGED bmVars
      BY <1>2 DEF QInv, CurOK, Admitted
    <2>2. Unrun = ToSet(scheduled_seqs) \cup {cur}
      BY <1>2 DEF Admitted, Unrun
    <2>3. Unrun' = ToSet(scheduled_seqs')
      BY <1>2 DEF Admitted, Unrun
    <2>4. ToSet(scheduled_seqs') = ToSet(scheduled_seqs) \cup {cur}
      BY <1>2, <2>1, AppendElements DEF Admitted, QInv, TypeOK
    <2> QED  BY <2>1, <2>2, <2>3, <2>4, ClientStutter
  <1>3. CASE EndAdmission
    BY <1>3, ClientStutter DEF EndAdmission, queueVars, Unrun
  <1>4. CASE TakeFront
    BY <1>4, ClientStutter DEF TakeFront, Unrun
  <1>5. CASE EndDecode
    BY <1>5, ClientStutter DEF EndDecode, Unrun
  <1>6. CASE run
    <2>1. pc = "run" /\ pc' = "post" /\ post_i' = 1
      BY <1>6 DEF run
    <2>2. UNCHANGED bmVars /\ scheduled_seqs' = scheduled_seqs
      BY <1>6 DEF run, queueVars
    <2>3. ToSet(scheduled_seqs) =
              { scheduled_seqs[i] : i \in 1 .. Len(scheduled_seqs) }
      BY LenProperties DEF QInv, TypeOK, ToSet
    <2> QED  BY <2>1, <2>2, <2>3, ClientStutter DEF Unrun
  <1>7. CASE EndStep
    <2>1. /\ UNCHANGED bmVars
          /\ pc = "post" /\ pc' = "idle" /\ scheduled_seqs' = << >>
          /\ post_i > Len(scheduled_seqs)
      BY <1>7 DEF EndStep
    <2>2. Unrun = {}
      <3>1. post_i .. Len(scheduled_seqs) = {}
        BY <2>1, LenProperties DEF QInv, TypeOK
      <3> QED  BY <2>1, <3>1 DEF Unrun
    <2>3. Unrun' = {}
      BY <2>1, EmptyElements DEF Unrun
    <2> QED  BY <2>1, <2>2, <2>3, ClientStutter
  <1>8. CASE UNCHANGED vars
    BY <1>8, ClientStutter DEF vars, queueVars, localVars, Unrun
  <1> QED  BY <1>1, <1>2, <1>3, <1>4, <1>5, <1>6, <1>7, <1>8

\* On this path what is postprocessed was computed to its last token.
LEMMA ComputesWhole ==
    ASSUME SInv, NEW t \in Sampled, postprocess(t)
    PROVE  LET s == scheduled_seqs[post_i]
           IN  num_tokens_to_process[s] > 0 => finished_prefill(s)
  <1>1. pc = "post" /\ post_i \in post_i .. Len(scheduled_seqs)
    BY BatchPositions DEF SInv, QInv, postprocess, TypeOK
  <1> QED  BY <1>1 DEF SInv, WorkOK, Decoding

LEMMA NextClient ==
    ASSUME SInv, [Next]_vars
    PROVE  [Manager!Next]_(Manager!vars)
  <1>q. QInv
    BY DEF SInv
  <1>1. CASE \E s \in SeqId, r \in Requests : add(s, r)
    BY <1>q, <1>1, addClient
  <1>2. CASE \E t \in Sampled : postprocess(t)
    <2>1. PICK t \in Sampled : postprocess(t)
      BY <1>2
    <2>2. LET s == scheduled_seqs[post_i]
          IN  num_tokens_to_process[s] > 0 => finished_prefill(s)
      BY <2>1, ComputesWhole
    <2> QED  BY <1>q, <2>1, <2>2, postprocessClient
  <1>3. CASE \/ Admit \/ PreemptVictim \/ PreemptSelf \/ ScheduleDecode
             \/ Finish \/ BlockManagerStep
    BY <1>q, <1>3, AdmitClient, PreemptVictimClient, PreemptSelfClient,
       ScheduleDecodeClient, FinishClient, BlockManagerClient
  <1>4. CASE \/ schedule \/ Admitted \/ EndAdmission \/ TakeFront
             \/ EndDecode \/ run \/ EndStep \/ UNCHANGED vars
    BY <1>q, <1>4, LocalClient
  <1> QED  BY <1>1, <1>2, <1>3, <1>4
           DEF Next, EngineStep, schedule_default, DecodeLoop, PostProcess

\* So what the client's invariants say holds after every step.
LEMMA ManagerKept ==
    ASSUME SInv, [Next]_vars
    PROVE  Manager!IInv' /\ Manager!ContentInv'
  <1>1. Manager!IInv /\ Manager!ContentInv
    BY DEF SInv
  <1>2. [Manager!Next]_(Manager!vars)
    BY NextClient
  <1>3. Manager!IInv'
    BY <1>1, <1>2, ManagerAssumptions, Manager!NextInv
  <1>4. Manager!ContentInv'
    BY <1>1, <1>2, ManagerAssumptions, Manager!NextContent
  <1> QED  BY <1>3, <1>4

-----------------------------------------------------------------------------
(* How the queues move *)

\* The sequences that hold blocks, in the order they are served; who they
\* should be, and who should be waiting.
Hand == InHand \o running
Busy == { s \in SeqId : status[s] = "RUNNING" \/ (pc = "finish" /\ s = cur) }
Waits == { s \in SeqId : status[s] = "WAITING" }

\* The five things a step can do to the service order.
Stays == UNCHANGED << Hand, waiting, Busy, Waits >>

Arrives(s) ==
    /\ status[s] = "FINISHED" /\ s \notin Busy
    /\ Waits' = Waits \cup {s}
    /\ waiting' = Append(waiting, s)
    /\ UNCHANGED << Hand, Busy >>

Starts(s) ==
    /\ waiting # << >> /\ s = Head(waiting)
    /\ Busy' = Busy \cup {s} /\ Waits' = Waits \ {s}
    /\ Hand' = Append(Hand, s)
    /\ waiting' = Tail(waiting)

Yields(s) ==
    /\ Busy' = Busy \ {s} /\ Waits' = Waits \cup {s}
    /\ Hand' \in Seq(SeqId) /\ Hand = Append(Hand', s)
    /\ waiting' = << s >> \o waiting

Leaves(s) ==
    /\ status'[s] = "FINISHED" /\ s \in Busy
    /\ Busy' = Busy \ {s}
    /\ Hand' = RemoveFirst(Hand, s)
    /\ UNCHANGED << waiting, Waits >>

Moves ==
    \/ Stays
    \/ \E s \in SeqId : Arrives(s) \/ Starts(s) \/ Yields(s) \/ Leaves(s)

LEMMA QueueTypes ==
    ASSUME TypeOK, CurOK
    PROVE  /\ InHand \in Seq(SeqId) /\ Hand \in Seq(SeqId)
           /\ waiting \in Seq(SeqId) /\ running \in Seq(SeqId)
           /\ scheduled_seqs \in Seq(SeqId)
           /\ pc \notin {"decode", "append"} => Hand = running
  <1>1. /\ waiting \in Seq(SeqId) /\ running \in Seq(SeqId)
        /\ scheduled_seqs \in Seq(SeqId)
    BY DEF TypeOK
  <1>2. InHand \in Seq(SeqId)
    <2>1. pc = "append" => Append(scheduled_seqs, cur) \in Seq(SeqId)
      BY <1>1, AppendElements DEF CurOK
    <2> QED  BY <1>1, <2>1, EmptySeq DEF InHand
  <1>3. Hand \in Seq(SeqId)
    BY <1>1, <1>2, ConcatProperties DEF Hand
  <1>4. pc \notin {"decode", "append"} => Hand = running
    BY <1>1, ConcatEmptySeq DEF Hand, InHand
  <1> QED  BY <1>1, <1>2, <1>3, <1>4

\* QueuesMatchStatus in these terms.
LEMMA QueuesParts ==
    QueuesMatchStatus <=>
        /\ IsInjective(Hand \o waiting)
        /\ ToSet(waiting) = Waits
        /\ ToSet(Hand) = Busy
  BY DEF QueuesMatchStatus, ServiceOrder, Hand, Busy, Waits

LEMMA StaysMoves ==
    ASSUME QInv,
           \/ schedule \/ Admit \/ EndAdmission \/ TakeFront \/ ScheduleDecode
           \/ EndDecode \/ run \/ EndStep \/ BlockManagerStep \/ UNCHANGED vars
    PROVE  Stays
  <1>0. /\ TypeOK /\ CurOK /\ running \in Seq(SeqId)
        /\ scheduled_seqs \in Seq(SeqId)
    BY DEF QInv, TypeOK
  <1>1. CASE schedule \/ Admit \/ run \/ EndStep
    BY <1>1 DEF schedule, Admit, run, EndStep, seqVars, queueVars, Stays,
                Hand, InHand, Busy, Waits
  <1>2. CASE EndAdmission
    <2>1. pc = "admit" /\ UNCHANGED << running, waiting, status, scheduled_seqs >>
      BY <1>2 DEF EndAdmission, seqVars, queueVars
    <2>2. pc' = "run" \/ (pc' = "decode" /\ scheduled_seqs = << >>)
      BY <1>2 DEF EndAdmission
    <2> QED  BY <2>1, <2>2 DEF Stays, Hand, InHand, Busy, Waits
  <1>3. CASE TakeFront
    <2>1. /\ running # << >> /\ cur' = Head(running) /\ running' = Tail(running)
          /\ pc = "decode" /\ pc' = "append"
          /\ UNCHANGED << waiting, status, scheduled_seqs >>
      BY <1>3 DEF TakeFront, seqVars
    <2>2. scheduled_seqs \o running =
              Append(scheduled_seqs, Head(running)) \o Tail(running)
      BY <1>0, <2>1, MoveHead
    <2> QED  BY <2>1, <2>2 DEF Stays, Hand, InHand, Busy, Waits
  <1>4. CASE ScheduleDecode
    BY <1>4 DEF ScheduleDecode, Stays, Hand, InHand, Busy, Waits
  <1>5. CASE EndDecode
    <2>1. /\ running' = scheduled_seqs \o running
          /\ pc = "decode" /\ pc' = "run"
          /\ UNCHANGED << waiting, status, scheduled_seqs >>
      BY <1>5 DEF EndDecode, seqVars
    <2>2. << >> \o (scheduled_seqs \o running) = scheduled_seqs \o running
      BY <1>0, ConcatProperties, ConcatEmptySeq
    <2> QED  BY <2>1, <2>2 DEF Stays, Hand, InHand, Busy, Waits
  <1>6. CASE BlockManagerStep
    BY <1>6 DEF BlockManagerStep, seqVars, queueVars, localVars, Stays,
                Hand, InHand, Busy, Waits
  <1>7. CASE UNCHANGED vars
    BY <1>7 DEF vars, seqVars, queueVars, localVars, Stays,
                Hand, InHand, Busy, Waits
  <1> QED  BY <1>1, <1>2, <1>3, <1>4, <1>5, <1>6, <1>7

LEMMA addMoves ==
    ASSUME QInv, NEW s \in SeqId, NEW r \in Requests, add(s, r)
    PROVE  Arrives(s)
  <1>1. /\ pc = "idle" /\ status[s] = "FINISHED"
        /\ status' = [status EXCEPT ![s] = "WAITING"]
        /\ waiting' = Append(waiting, s)
        /\ UNCHANGED << running, scheduled_seqs, pc, cur >>
    BY DEF add, localVars
  <1>2. UNCHANGED Hand
    BY <1>1 DEF Hand, InHand
  <1>3. s \notin Busy /\ Busy' = Busy /\ Waits' = Waits \cup {s}
    BY <1>1 DEF Busy, Waits, QInv, TypeOK
  <1> QED  BY <1>1, <1>2, <1>3 DEF Arrives

LEMMA AdmittedMoves ==
    ASSUME QInv, Admitted
    PROVE  Starts(cur)
  <1>1. /\ pc = "admitted" /\ pc' = "admit"
        /\ status' = [status EXCEPT ![cur] = "RUNNING"]
        /\ waiting' = Tail(waiting) /\ running' = Append(running, cur)
    BY DEF Admitted
  <1>2. cur \in SeqId /\ waiting # << >> /\ cur = Head(waiting)
    BY <1>1 DEF QInv, CurOK
  <1>3. Hand' = Append(Hand, cur)
    <2>1. running \in Seq(SeqId) /\ Append(running, cur) \in Seq(SeqId)
      BY <1>2, AppendProperties DEF QInv, TypeOK
    <2>2. Hand = running
      BY <1>1, QueueTypes DEF QInv
    <2>3. Hand' = << >> \o Append(running, cur)
      BY <1>1 DEF Hand, InHand
    <2> QED  BY <2>1, <2>2, <2>3, ConcatEmptySeq
  <1>4. Busy' = Busy \cup {cur} /\ Waits' = Waits \ {cur}
    BY <1>1, <1>2 DEF Busy, Waits, QInv, TypeOK
  <1> QED  BY <1>1, <1>2, <1>3, <1>4 DEF Starts

LEMMA PreemptVictimMoves ==
    ASSUME QInv, PreemptVictim
    PROVE  Yields(Last(running)) /\ Last(running) \in SeqId
  <1> DEFINE v == Last(running)
  <1>1. /\ pc = "append" /\ running # << >> /\ running' = Front(running)
        /\ status' = [status EXCEPT ![v] = "WAITING"]
        /\ waiting' = << v >> \o waiting
        /\ UNCHANGED << scheduled_seqs, pc, cur >>
    BY DEF PreemptVictim, preempt, localVars
  <1>2. running \in Seq(SeqId) /\ InHand \in Seq(SeqId)
    BY QueueTypes DEF QInv
  <1>3. v \in SeqId /\ Front(running) \in Seq(SeqId)
    BY <1>1, <1>2, FrontBeforeLast
  <1>4. Hand' \in Seq(SeqId) /\ Hand = Append(Hand', v)
    <2>1. Hand' = InHand \o Front(running)
      BY <1>1 DEF Hand, InHand
    <2>2. InHand \o running = Append(InHand \o Front(running), v)
      BY <1>1, <1>2, ConcatLast
    <2> QED  BY <1>2, <1>3, <2>1, <2>2, ConcatProperties DEF Hand
  <1>5. Busy' = Busy \ {v} /\ Waits' = Waits \cup {v}
    BY <1>1, <1>3 DEF Busy, Waits, QInv, TypeOK
  <1> QED  BY <1>1, <1>3, <1>4, <1>5 DEF Yields

LEMMA PreemptSelfMoves ==
    ASSUME QInv, PreemptSelf
    PROVE  Yields(cur)
  <1>1. /\ pc = "append" /\ pc' = "decode" /\ running = << >>
        /\ status' = [status EXCEPT ![cur] = "WAITING"]
        /\ waiting' = << cur >> \o waiting
        /\ UNCHANGED << scheduled_seqs, running >>
    BY DEF PreemptSelf, preempt
  <1>2. cur \in SeqId /\ scheduled_seqs \in Seq(SeqId)
    BY <1>1 DEF QInv, CurOK, TypeOK
  <1>3. Hand' \in Seq(SeqId) /\ Hand = Append(Hand', cur)
    <2>1. Hand' = scheduled_seqs \o << >>
      BY <1>1 DEF Hand, InHand
    <2>2. Hand = Append(scheduled_seqs, cur) \o << >>
      BY <1>1 DEF Hand, InHand
    <2>3. Append(scheduled_seqs, cur) \in Seq(SeqId)
      BY <1>2, AppendProperties
    <2> QED  BY <1>2, <2>1, <2>2, <2>3, ConcatEmptySeq
  <1>4. Busy' = Busy \ {cur} /\ Waits' = Waits \cup {cur}
    BY <1>1, <1>2 DEF Busy, Waits, QInv, TypeOK
  <1> QED  BY <1>1, <1>3, <1>4 DEF Yields

\* A sequence that finishes stays in running_ until Finish takes it out.
LEMMA postprocessMoves ==
    ASSUME QInv, NEW t \in Sampled, postprocess(t)
    PROVE  Stays
  <1> DEFINE s == scheduled_seqs[post_i]
  <1>1. /\ pc = "post" /\ pc' \in {"post", "finish"}
        /\ UNCHANGED << waiting, running >>
    BY DEF postprocess, queueVars
  <1>2. UNCHANGED Hand
    BY <1>1 DEF Hand, InHand
  <1>3. s \in SeqId /\ status[s] = "RUNNING"
    <2>1. post_i \in UnrunFrom .. Len(scheduled_seqs)
      BY BatchPositions DEF QInv, postprocess, UnrunFrom
    <2> QED  BY <2>1, BatchPositions DEF QInv, BatchOK
  <1>4. \/ pc' = "post" /\ status' = status
        \/ /\ pc' = "finish" /\ cur' = s
           /\ status' = [status EXCEPT ![s] = "FINISHED"]
    BY <1>1 DEF postprocess
  <1>5. Busy' = Busy /\ Waits' = Waits
    BY <1>1, <1>3, <1>4 DEF Busy, Waits, QInv, TypeOK
  <1> QED  BY <1>1, <1>2, <1>5 DEF Stays

LEMMA FinishMoves ==
    ASSUME QInv, Finish
    PROVE  Leaves(cur)
  <1>1. /\ pc = "finish" /\ pc' = "post"
        /\ running' = RemoveFirst(running, cur)
        /\ UNCHANGED << status, waiting >>
    BY DEF Finish, seqVars
  <1>2. cur \in SeqId /\ status[cur] = "FINISHED" /\ cur \in Busy
    BY <1>1 DEF QInv, CurOK, Busy
  <1>3. Hand' = RemoveFirst(Hand, cur)
    <2>1. Hand = running /\ running \in Seq(SeqId)
      BY <1>1, QueueTypes DEF QInv
    <2>2. IsInjective(running) /\ cur \in ToSet(running)
      <3>1. IsInjective(Hand \o waiting) /\ ToSet(Hand) = Busy
        BY QueuesParts DEF QInv
      <3> QED  BY <1>2, <2>1, <3>1, ConcatInjective DEF QInv, TypeOK
    <2>3. RemoveFirst(running, cur) \in Seq(SeqId)
      BY <2>1, <2>2, TakeProperties
    <2>4. Hand' = << >> \o RemoveFirst(running, cur)
      BY <1>1 DEF Hand, InHand
    <2> QED  BY <2>1, <2>3, <2>4, ConcatEmptySeq
  <1>4. Busy' = Busy \ {cur} /\ Waits' = Waits
    BY <1>1, <1>2 DEF Busy, Waits, QInv, TypeOK
  <1> QED  BY <1>1, <1>2, <1>3, <1>4 DEF Leaves

LEMMA NextMoves ==
    ASSUME QInv, [Next]_vars
    PROVE  Moves
  <1>1. CASE \E s \in SeqId, r \in Requests : add(s, r)
    BY <1>1, addMoves DEF Moves
  <1>2. CASE \E t \in Sampled : postprocess(t)
    BY <1>2, postprocessMoves DEF Moves
  <1>3. CASE Admitted \/ PreemptSelf \/ Finish
    <2>1. cur \in SeqId
      BY <1>3 DEF QInv, CurOK, Admitted, PreemptSelf, Finish
    <2> QED  BY <1>3, <2>1, AdmittedMoves, PreemptSelfMoves, FinishMoves DEF Moves
  <1>4. CASE PreemptVictim
    BY <1>4, PreemptVictimMoves DEF Moves
  <1>5. CASE \/ schedule \/ Admit \/ EndAdmission \/ TakeFront \/ ScheduleDecode
             \/ EndDecode \/ run \/ EndStep \/ BlockManagerStep
             \/ UNCHANGED vars
    BY <1>5, StaysMoves DEF Moves
  <1> QED  BY <1>1, <1>2, <1>3, <1>4, <1>5
           DEF Next, EngineStep, schedule_default, DecodeLoop, PostProcess

\* The step of FirstComeFirstServed.
ServedInOrder ==
    \/ ServiceOrder' = ServiceOrder
    \/ \E s \in SeqId : status[s] = "FINISHED"
                        /\ ServiceOrder' = Append(ServiceOrder, s)
    \/ \E s \in SeqId : status'[s] = "FINISHED"
                        /\ ServiceOrder' = RemoveFirst(ServiceOrder, s)

\* The step of PreemptYoungest.
YoungestYields ==
    \A s \in SeqId : status[s] = "RUNNING" /\ status'[s] = "WAITING" =>
        \A t \in SeqId : status'[t] = "RUNNING" =>
            \E i, j \in DOMAIN ServiceOrder :
                i < j /\ ServiceOrder[i] = t /\ ServiceOrder[j] = s

\* The queues in Stays, Arrives, ..., and what a step owes them.
LEMMA OrderParts ==
    ASSUME QInv
    PROVE  /\ Hand \in Seq(SeqId) /\ waiting \in Seq(SeqId)
           /\ IsInjective(Hand \o waiting) /\ IsInjective(Hand)
           /\ \A x \in ToSet(Hand) : x \notin ToSet(waiting)
           /\ ToSet(waiting) = Waits /\ ToSet(Hand) = Busy
           /\ ServiceOrder = Hand \o waiting
  <1>1. Hand \in Seq(SeqId) /\ waiting \in Seq(SeqId)
    BY QueueTypes DEF QInv
  <1>2. /\ IsInjective(Hand \o waiting)
        /\ ToSet(waiting) = Waits /\ ToSet(Hand) = Busy
    BY QueuesParts DEF QInv
  <1>3. ServiceOrder = Hand \o waiting
    BY DEF ServiceOrder, Hand
  <1> QED  BY <1>1, <1>2, <1>3, ConcatInjective

LEMMA OrderOwed ==
    ASSUME IsInjective(Hand' \o waiting'), ToSet(waiting') = Waits',
           ToSet(Hand') = Busy'
    PROVE  QueuesMatchStatus'
  BY DEF QueuesMatchStatus, ServiceOrder, Hand, Busy, Waits

LEMMA StaysOrder ==
    ASSUME QInv, Stays
    PROVE  QueuesMatchStatus' /\ ServedInOrder /\ YoungestYields
  <1>1. Hand' = Hand /\ waiting' = waiting /\ Busy' = Busy /\ Waits' = Waits
    BY DEF Stays
  <1>2. QueuesMatchStatus'
    BY <1>1, OrderParts, OrderOwed
  <1>3. ServedInOrder
    BY <1>1 DEF ServedInOrder, ServiceOrder, Hand
  <1>4. \A s \in SeqId : ~(status[s] = "RUNNING" /\ status'[s] = "WAITING")
    BY <1>1 DEF Waits
  <1> QED  BY <1>2, <1>3, <1>4 DEF YoungestYields

LEMMA ArrivesOrder ==
    ASSUME QInv, NEW s \in SeqId, Arrives(s)
    PROVE  QueuesMatchStatus' /\ ServedInOrder /\ YoungestYields
  <1>1. /\ status[s] = "FINISHED" /\ s \notin Busy /\ Busy' = Busy
        /\ Waits' = Waits \cup {s} /\ s \notin Waits
        /\ waiting' = Append(waiting, s) /\ Hand' = Hand
    BY DEF Arrives, Waits
  <1> DEFINE H == Hand
             W == waiting
             O == H \o W
  <1>2. /\ H \in Seq(SeqId) /\ W \in Seq(SeqId) /\ O \in Seq(SeqId)
        /\ IsInjective(O) /\ ToSet(W) = Waits /\ ToSet(H) = Busy
        /\ ServiceOrder = O
    BY OrderParts, ConcatProperties
  <1>3. ToSet(O) = ToSet(H) \cup ToSet(W)
    BY <1>2, ConcatElements
  <1>4. H \o Append(W, s) = Append(O, s)
    BY <1>2, ConcatAppend
  <1>5. IsInjective(Append(O, s))
    BY <1>1, <1>2, <1>3, AppendElements
  <1>6. ToSet(Append(W, s)) = Waits \cup {s}
    BY <1>2, AppendElements
  <1>7. QueuesMatchStatus'
    BY <1>1, <1>2, <1>4, <1>5, <1>6, OrderOwed
  <1>8. ServedInOrder
    <2>1. ServiceOrder' = Hand' \o waiting'
      BY DEF ServiceOrder, Hand
    <2> QED  BY <1>1, <1>2, <1>4, <2>1 DEF ServedInOrder
  <1>9. \A u \in SeqId : ~(status[u] = "RUNNING" /\ status'[u] = "WAITING")
    BY <1>1 DEF Waits, Busy
  <1> QED  BY <1>7, <1>8, <1>9 DEF YoungestYields

LEMMA StartsOrder ==
    ASSUME QInv, NEW s \in SeqId, Starts(s)
    PROVE  QueuesMatchStatus' /\ ServedInOrder /\ YoungestYields
  <1>1. /\ waiting # << >> /\ s = Head(waiting)
        /\ Busy' = Busy \cup {s} /\ Waits' = Waits \ {s}
        /\ Hand' = Append(Hand, s) /\ waiting' = Tail(waiting)
    BY DEF Starts
  <1> DEFINE H == Hand
             W == waiting
             T == Tail(waiting)
             A == Append(H, s)
  <1>2. /\ H \in Seq(SeqId) /\ W \in Seq(SeqId)
        /\ IsInjective(H \o W) /\ ToSet(W) = Waits /\ ToSet(H) = Busy
        /\ ServiceOrder = H \o W
    BY OrderParts
  <1>3. T \in Seq(SeqId) /\ A \in Seq(SeqId) /\ ToSet(A) = Busy \cup {s}
    BY <1>1, <1>2, HeadBeforeTail, AppendElements
  <1>4. H \o W = A \o T
    BY <1>1, <1>2, MoveHead
  <1>5. ToSet(W) = {s} \cup ToSet(T)
    BY <1>1, <1>2, EndElements
  <1>6. s \notin ToSet(T)
    <2> HIDE DEF A, T
    <2>1. IsInjective(A \o T) /\ s \in ToSet(A)
      BY <1>2, <1>3, <1>4
    <2> QED  BY <1>3, <2>1, ConcatInjective
  <1>7. QueuesMatchStatus'
    <2>1. IsInjective(Hand' \o waiting')
      BY <1>1, <1>2, <1>4
    <2>2. ToSet(waiting') = Waits'
      BY <1>1, <1>2, <1>5, <1>6
    <2>3. ToSet(Hand') = Busy'
      BY <1>1, <1>3
    <2> QED  BY <2>1, <2>2, <2>3, OrderOwed
  <1>8. ServedInOrder
    <2>1. ServiceOrder' = Hand' \o waiting'
      BY DEF ServiceOrder, Hand
    <2> QED  BY <1>1, <1>2, <1>4, <2>1 DEF ServedInOrder
  <1>9. \A u \in SeqId : ~(status[u] = "RUNNING" /\ status'[u] = "WAITING")
    BY <1>1 DEF Waits, Busy
  <1> QED  BY <1>7, <1>8, <1>9 DEF YoungestYields

\* The one that yields is the last of Hand, behind everyone who still runs.
LEMMA YieldsOrder ==
    ASSUME QInv, NEW s \in SeqId, Yields(s)
    PROVE  QueuesMatchStatus' /\ ServedInOrder /\ YoungestYields
  <1> DEFINE H == Hand
             W == waiting
             P == Hand'
             V == << s >> \o waiting
  <1>1. /\ Busy' = Busy \ {s} /\ Waits' = Waits \cup {s}
        /\ P \in Seq(SeqId) /\ H = Append(P, s) /\ waiting' = V
    BY DEF Yields
  <1>2. /\ H \in Seq(SeqId) /\ W \in Seq(SeqId)
        /\ IsInjective(H \o W) /\ IsInjective(H)
        /\ ToSet(W) = Waits /\ ToSet(H) = Busy
        /\ ServiceOrder = H \o W
    BY OrderParts
  <1>3. ToSet(H) = ToSet(P) \cup {s} /\ s \notin ToSet(P)
    BY <1>1, <1>2, AppendElements
  <1>4. V \in Seq(SeqId) /\ ToSet(V) = {s} \cup ToSet(W)
    BY <1>2, PrependElements
  <1>5. H \o W = P \o V
    BY <1>1, <1>2, MoveElement
  <1>6. QueuesMatchStatus'
    <2>1. IsInjective(Hand' \o waiting')
      BY <1>1, <1>2, <1>5
    <2>2. ToSet(waiting') = Waits'
      BY <1>1, <1>2, <1>4
    <2>3. ToSet(Hand') = Busy'
      BY <1>1, <1>2, <1>3
    <2> QED  BY <2>1, <2>2, <2>3, OrderOwed
  <1>7. ServedInOrder
    <2>1. ServiceOrder' = Hand' \o waiting'
      BY DEF ServiceOrder, Hand
    <2> QED  BY <1>1, <1>2, <1>5, <2>1 DEF ServedInOrder
  <1>8. YoungestYields
    <2> SUFFICES ASSUME NEW u \in SeqId, status[u] = "RUNNING",
                        status'[u] = "WAITING",
                        NEW t \in SeqId, status'[t] = "RUNNING"
                 PROVE  \E i, j \in DOMAIN ServiceOrder :
                            /\ i < j
                            /\ ServiceOrder[i] = t /\ ServiceOrder[j] = u
      BY DEF YoungestYields
    <2>1. u = s
      BY <1>1 DEF Waits
    <2>2. t \in ToSet(P)
      BY <1>1, <1>2, <1>3 DEF Busy
    <2> HIDE DEF P
    <2>3. PICK i \in 1 .. Len(P) : P[i] = t
      BY <1>1, <2>2, ElementPositions
    <2> DEFINE j == Len(P) + 1
    <2>4. /\ Len(P) \in Nat /\ Len(W) \in Nat /\ Len(H) = j
          /\ H[i] = t /\ H[j] = s
      BY <1>1, <1>2, <2>3, AppendProperties, LenProperties
    <2>5. i \in 1 .. Len(H) /\ j \in 1 .. Len(H) /\ i < j
      BY <2>3, <2>4
    <2> HIDE DEF j, H, W
    <2>6. /\ H \o W \in Seq(SeqId) /\ Len(H \o W) = Len(H) + Len(W)
          /\ \A n \in 1 .. Len(H) + Len(W) :
                 (H \o W)[n] = IF n <= Len(H) THEN H[n] ELSE W[n - Len(H)]
      BY <1>2, ConcatProperties
    <2>7. i \in 1 .. Len(H) + Len(W) /\ j \in 1 .. Len(H) + Len(W)
      BY <2>3, <2>4, <2>5, LenProperties, <1>2
    <2>8. (H \o W)[i] = t /\ (H \o W)[j] = s
      BY <2>4, <2>5, <2>6, <2>7
    <2>9. DOMAIN ServiceOrder = 1 .. Len(H) + Len(W)
      BY <1>2, <2>6, LenProperties
    <2> QED  BY <1>2, <2>1, <2>5, <2>7, <2>8, <2>9
  <1> QED  BY <1>6, <1>7, <1>8

LEMMA LeavesOrder ==
    ASSUME QInv, NEW s \in SeqId, Leaves(s)
    PROVE  QueuesMatchStatus' /\ ServedInOrder /\ YoungestYields
  <1> DEFINE H == Hand
             W == waiting
             R == RemoveFirst(H, s)
  <1>1. /\ status'[s] = "FINISHED" /\ s \in Busy
        /\ Busy' = Busy \ {s} /\ Waits' = Waits
        /\ Hand' = R /\ waiting' = W
    BY DEF Leaves
  <1>2. /\ H \in Seq(SeqId) /\ W \in Seq(SeqId)
        /\ IsInjective(H \o W) /\ IsInjective(H)
        /\ \A x \in ToSet(H) : x \notin ToSet(W)
        /\ ToSet(W) = Waits /\ ToSet(H) = Busy
        /\ ServiceOrder = H \o W
    BY OrderParts
  <1>3. /\ R \in Seq(SeqId) /\ IsInjective(R)
        /\ ToSet(R) = ToSet(H) \ {s}
    BY <1>1, <1>2, TakeProperties
  <1>4. RemoveFirst(H \o W, s) = R \o W
    BY <1>1, <1>2, RemoveFirstConcat
  <1>5. IsInjective(R \o W)
    <2> HIDE DEF R, H, W
    <2>1. IsInjective(W)
      BY <1>2, ConcatInjective
    <2>2. \A x \in ToSet(R) : x \notin ToSet(W)
      BY <1>2, <1>3
    <2> QED  BY <1>2, <1>3, <2>1, <2>2, ConcatInjective
  <1>6. QueuesMatchStatus'
    BY <1>1, <1>2, <1>3, <1>5, OrderOwed
  <1>7. ServedInOrder
    <2>1. ServiceOrder' = Hand' \o waiting'
      BY DEF ServiceOrder, Hand
    <2> QED  BY <1>1, <1>2, <1>4, <2>1 DEF ServedInOrder
  <1>8. \A u \in SeqId : ~(status[u] = "RUNNING" /\ status'[u] = "WAITING")
    BY <1>1 DEF Waits
  <1> QED  BY <1>6, <1>7, <1>8 DEF YoungestYields

LEMMA MovesOrder ==
    ASSUME QInv, Moves
    PROVE  QueuesMatchStatus' /\ ServedInOrder /\ YoungestYields
  BY StaysOrder, ArrivesOrder, StartsOrder, YieldsOrder, LeavesOrder DEF Moves

LEMMA NextOrder ==
    ASSUME QInv, [Next]_vars
    PROVE  QueuesMatchStatus' /\ ServedInOrder /\ YoungestYields
  BY NextMoves, MovesOrder

-----------------------------------------------------------------------------
(* The scheduler's variables keep their types *)

\* The sequence being admitted is the first that waits.
LEMMA AdmittedSequence ==
    ASSUME QInv, pc = "admitted"
    PROVE  /\ cur \in SeqId /\ status[cur] = "WAITING"
           /\ cur = Head(waiting) /\ waiting # << >>
  <1>1. cur \in SeqId /\ cur = Head(waiting) /\ waiting # << >>
    BY DEF QInv, CurOK
  <1>2. cur \in ToSet(waiting)
    BY <1>1, EndElements DEF QInv, TypeOK
  <1> QED  BY <1>1, <1>2 DEF QInv, QueuesMatchStatus

\* What is known of it when allocate has returned.
LEMMA AdmittedWork ==
    ASSUME SInv, pc = "admitted", call = NoCall
    PROVE  /\ cur \in SeqId /\ status[cur] = "WAITING"
           /\ len(cur) \in Nat
           /\ num_cached_tokens[cur] \in Nat
           /\ num_cached_tokens[cur] <= len(cur)
           /\ ComputedAtAdmission(cur) \in Nat
           /\ ComputedAtAdmission(cur) <= num_cached_tokens[cur]
           /\ ComputedAtAdmission(cur) < len(cur)
  <1>1. cur \in SeqId /\ status[cur] = "WAITING"
    BY AdmittedSequence DEF SInv
  <1>3. token_ids[cur] # << >>
    <2>1. block_table[cur] # << >>
      BY <1>1, QuietTables DEF SInv, QInv
    <2> QED  BY <1>1, <2>1 DEF SInv, QInv, Manager!IInv, Manager!ClientOK
  <1>4. token_ids[cur] \in Seq(Token) /\ num_cached_tokens[cur] \in Nat
    BY <1>1 DEF SInv, QInv, TypeOK, BMTypeOK
  <1>5. len(cur) \in Nat /\ len(cur) >= 1
    BY <1>3, <1>4, EmptySeq DEF len
  <1>6. num_cached_tokens[cur] <= len(cur)
    BY <1>1 DEF SInv, QInv, Manager!ContentInv, Manager!CachedWithinTable, len
  <1> QED  BY <1>1, <1>4, <1>5, <1>6 DEF ComputedAtAdmission

LEMMA NewComputed ==
    ASSUME TypeOK, NEW s \in SeqId
    PROVE  new_computed(s) \in Nat
  BY DEF TypeOK, new_computed

LEMMA PostprocessedSequence ==
    ASSUME QInv, NEW t \in Sampled, postprocess(t)
    PROVE  /\ scheduled_seqs[post_i] \in SeqId
           /\ status[scheduled_seqs[post_i]] = "RUNNING"
           /\ \A i \in post_i + 1 .. Len(scheduled_seqs) :
                  /\ i \in post_i .. Len(scheduled_seqs)
                  /\ scheduled_seqs[i] \in SeqId
                  /\ scheduled_seqs[i] # scheduled_seqs[post_i]
  <1>1. UnrunFrom = post_i /\ post_i \in UnrunFrom .. Len(scheduled_seqs)
    BY BatchPositions DEF QInv, postprocess, UnrunFrom
  <1>2. scheduled_seqs[post_i] \in SeqId /\ status[scheduled_seqs[post_i]] = "RUNNING"
    BY <1>1, BatchPositions DEF QInv, BatchOK
  <1>3. ASSUME NEW i \in post_i + 1 .. Len(scheduled_seqs)
        PROVE  /\ i \in post_i .. Len(scheduled_seqs)
               /\ scheduled_seqs[i] \in SeqId
               /\ scheduled_seqs[i] # scheduled_seqs[post_i]
    <2>1. i \in post_i .. Len(scheduled_seqs) /\ i # post_i
      BY <1>1, BatchPositions DEF QInv
    <2>2. /\ i \in 1 .. Len(scheduled_seqs) /\ scheduled_seqs[i] \in SeqId
          /\ post_i \in 1 .. Len(scheduled_seqs)
      BY <1>1, <2>1, BatchPositions DEF QInv
    <2> QED  BY <2>1, <2>2, BatchPositions DEF QInv
  <1> QED  BY <1>2, <1>3

LEMMA ManagerTypes == Manager!IInv' => BMTypeOK'
  BY DEF Manager!IInv, Manager!TypeOK, Manager!BMTypeOK, BMTypeOK,
         Manager!BlockId, BlockId, Manager!Block, Block, Manager!Hash, Hash,
         Manager!Call, Call, Manager!NoCall, NoCall, Manager!kNoHash, kNoHash

\* The steps that both ways to make up batches have in common.
LEMMA CommonTypesKept ==
    ASSUME QInv, BMTypeOK', [Next]_vars, ~Admitted
    PROVE  TypeOK'
  <1>b. BMTypeOK'
    OBVIOUS
  <1>t. TypeOK
    BY DEF QInv
  <1>1. ASSUME NEW s \in SeqId, NEW r \in Requests, add(s, r)
        PROVE  TypeOK'
    <2>1. /\ r.prompt \in Seq(Token) /\ r.max_tokens \in Nat
          /\ r.ignore_eos \in BOOLEAN
      BY RequestsAssumption
    <2>2. Len(r.prompt) \in Nat
      BY <2>1, LenProperties
    <2>3. Append(waiting, s) \in Seq(SeqId)
      BY <1>t, AppendProperties DEF TypeOK
    <2> QED  BY <1>b, <1>t, <1>1, <2>1, <2>2, <2>3
             DEF add, TypeOK, Status, localVars
  <1>2. CASE schedule
    BY <1>b, <1>t, <1>2 DEF schedule, seqVars, queueVars, TypeOK, PC
  <1>3. CASE Admit
    <2>1. Head(waiting) \in SeqId
      BY <1>t, <1>3, HeadBeforeTail DEF Admit, CanAdmit, TypeOK
    <2>2. num_seqs' \in Nat /\ cur' \in SeqId /\ pc' \in PC
      BY <1>t, <1>3, <2>1 DEF Admit, TypeOK, PC
    <2>3. UNCHANGED <<seqVars, queueVars, is_prefill, num_batched_tokens, post_i>>
      BY <1>3 DEF Admit
    <2> QED  BY <1>b, <1>t, <2>2, <2>3 DEF seqVars, queueVars, TypeOK
  <1>5. CASE EndAdmission
    BY <1>b, <1>t, <1>5 DEF EndAdmission, seqVars, queueVars, TypeOK, PC
  <1>6. CASE TakeFront
    <2>1. Head(running) \in SeqId /\ Tail(running) \in Seq(SeqId)
      BY <1>t, <1>6, HeadBeforeTail DEF TakeFront, TypeOK
    <2> QED  BY <1>b, <1>t, <1>6, <2>1 DEF TakeFront, seqVars, TypeOK, PC
  <1>7. CASE PreemptVictim
    <2>1. Last(running) \in SeqId /\ Front(running) \in Seq(SeqId)
      BY <1>t, <1>7, FrontBeforeLast DEF PreemptVictim, TypeOK
    <2>2. << Last(running) >> \o waiting \in Seq(SeqId)
      BY <1>t, <2>1, PrependElements DEF TypeOK
    <2> QED  BY <1>b, <1>t, <1>7, <2>1, <2>2
             DEF PreemptVictim, preempt, requestVars, localVars, TypeOK, Status
  <1>8. CASE PreemptSelf
    <2>1. cur \in SeqId
      BY <1>8 DEF QInv, CurOK, PreemptSelf
    <2>2. << cur >> \o waiting \in Seq(SeqId)
      BY <1>t, <2>1, PrependElements DEF TypeOK
    <2> QED  BY <1>b, <1>t, <1>8, <2>1, <2>2
             DEF PreemptSelf, preempt, requestVars, TypeOK, Status, PC
  <1>9. CASE ScheduleDecode
    <2>1. cur \in SeqId
      BY <1>9 DEF QInv, CurOK, ScheduleDecode
    <2>2. Append(scheduled_seqs, cur) \in Seq(SeqId)
      BY <1>t, <2>1, AppendProperties DEF TypeOK
    <2> QED  BY <1>b, <1>t, <1>9, <2>1, <2>2
             DEF ScheduleDecode, requestVars, TypeOK, PC
  <1>10. CASE EndDecode
    <2>1. scheduled_seqs \o running \in Seq(SeqId)
      BY <1>t, ConcatProperties DEF TypeOK
    <2> QED  BY <1>b, <1>t, <1>10, <2>1 DEF EndDecode, seqVars, TypeOK, PC
  <1>11. CASE run
    BY <1>b, <1>t, <1>11 DEF run, seqVars, queueVars, TypeOK, PC
  <1>12. ASSUME NEW t \in Sampled, postprocess(t)
         PROVE  TypeOK'
    <2> DEFINE s == scheduled_seqs[post_i]
    <2>1. s \in SeqId /\ new_computed(s) \in Nat
      BY <1>t, <1>12, PostprocessedSequence, NewComputed
    <2>2. /\ num_computed_tokens' \in [SeqId -> Nat]
          /\ num_tokens_to_process' \in [SeqId -> Nat]
      BY <1>t, <1>12, <2>1 DEF postprocess, TypeOK
    <2>3. /\ status' \in [SeqId -> Status] /\ cur' \in SeqId \cup {NoSeq}
          /\ pc' \in PC
      <3>1. \/ UNCHANGED << status, cur, pc >>
            \/ /\ status' = [status EXCEPT ![s] = "FINISHED"]
               /\ cur' = s /\ pc' = "finish"
        BY <1>12 DEF postprocess
      <3>2. CASE UNCHANGED << status, cur, pc >>
        BY <1>t, <3>2 DEF TypeOK
      <3>3. CASE /\ status' = [status EXCEPT ![s] = "FINISHED"]
                 /\ cur' = s /\ pc' = "finish"
        BY <1>t, <2>1, <3>3 DEF TypeOK, Status, PC
      <3> QED  BY <3>1, <3>2, <3>3
    <2>4. post_i' \in Nat
      BY <1>t, <1>12 DEF postprocess, TypeOK
    <2>5. UNCHANGED << num_prompt_tokens, max_tokens, ignore_eos, waiting,
                       running, scheduled_seqs, is_prefill, num_seqs,
                       num_batched_tokens >>
      BY <1>12 DEF postprocess, requestVars, queueVars
    <2> QED  BY <1>b, <1>t, <2>2, <2>3, <2>4, <2>5 DEF TypeOK
  <1>13. CASE Finish
    <2>1. running' = RemoveFirst(running, cur)
      BY <1>13 DEF Finish
    <2>2. RemoveFirst(running, cur) \in Seq(SeqId)
      <3>1. /\ Hand = running /\ running \in Seq(SeqId)
            /\ cur \in Busy
        BY <1>13, QueueTypes DEF QInv, Finish, CurOK, Busy
      <3>2. IsInjective(running) /\ cur \in ToSet(running)
        BY <3>1, OrderParts
      <3> QED  BY <3>1, <3>2, TakeProperties
    <2> QED  BY <1>b, <1>t, <1>13, <2>1, <2>2 DEF Finish, seqVars, TypeOK, PC
  <1>14. CASE EndStep
    BY <1>b, <1>t, <1>14, EmptySeq DEF EndStep, seqVars, TypeOK, PC
  <1>15. CASE BlockManagerStep
    BY <1>b, <1>t, <1>15
       DEF BlockManagerStep, seqVars, queueVars, localVars, TypeOK
  <1>16. CASE UNCHANGED vars
    BY <1>b, <1>t, <1>16 DEF vars, seqVars, queueVars, localVars, TypeOK
  <1> QED  BY <1>1, <1>2, <1>3, <1>5, <1>6, <1>7, <1>8, <1>9, <1>10,
              <1>11, <1>12, <1>13, <1>14, <1>15, <1>16
           DEF Next, EngineStep, schedule_default, DecodeLoop, PostProcess

LEMMA TypesKept ==
    ASSUME SInv, [Next]_vars
    PROVE  TypeOK'
  <1>1. BMTypeOK' /\ TypeOK /\ QInv
    BY ManagerKept, ManagerTypes DEF SInv, QInv
  <1>2. CASE Admitted
    <2>1. /\ cur \in SeqId /\ len(cur) \in Nat /\ num_cached_tokens[cur] \in Nat
          /\ num_cached_tokens[cur] <= len(cur)
          /\ ComputedAtAdmission(cur) \in Nat
          /\ ComputedAtAdmission(cur) < len(cur)
      BY <1>2, AdmittedWork DEF Admitted
    <2>2. /\ num_batched_tokens + len(cur) - num_cached_tokens[cur] \in Nat
          /\ len(cur) - ComputedAtAdmission(cur) \in Nat
      <3>1. num_batched_tokens \in Nat
        BY <1>1 DEF TypeOK
      <3> QED  BY <2>1, <3>1
    <2>3. /\ Tail(waiting) \in Seq(SeqId)
          /\ Append(running, cur) \in Seq(SeqId)
          /\ Append(scheduled_seqs, cur) \in Seq(SeqId)
      <3>1. waiting # << >>
        BY <1>1, <1>2, AdmittedSequence DEF Admitted
      <3> QED  BY <1>1, <2>1, <3>1, HeadBeforeTail, AppendProperties DEF TypeOK
    <2>4. /\ num_computed_tokens' \in [SeqId -> Nat]
          /\ num_tokens_to_process' \in [SeqId -> Nat]
          /\ status' \in [SeqId -> Status]
      BY <1>1, <1>2, <2>1, <2>2 DEF Admitted, TypeOK, Status
    <2> QED  BY <1>1, <1>2, <2>2, <2>3, <2>4
             DEF Admitted, requestVars, TypeOK, PC
  <1> QED  BY <1>1, <1>2, CommonTypesKept

-----------------------------------------------------------------------------
(* Calls, loops and tables *)

LEMMA QuietCallAtPc ==
    ASSUME call' = NoCall
    PROVE  CallAtPc'
  BY DEF CallAtPc, NoCall

\* Only these steps start a call or are part of one.
LEMMA QuietSteps ==
    ASSUME QInv,
           \/ \E s \in SeqId, r \in Requests : add(s, r)
           \/ \E t \in Sampled : postprocess(t)
           \/ schedule \/ Admitted \/ EndAdmission \/ TakeFront
           \/ ScheduleDecode \/ EndDecode \/ run \/ EndStep
    PROVE  call = NoCall /\ call' = NoCall
  <1>1. ASSUME NEW s \in SeqId, NEW r \in Requests, add(s, r)
        PROVE  call = NoCall /\ call' = NoCall
    BY <1>1, QuietCall DEF QInv, add
  <1>2. ASSUME NEW t \in Sampled, postprocess(t)
        PROVE  call = NoCall /\ call' = NoCall
    BY <1>2 DEF postprocess
  <1>3. CASE schedule \/ EndAdmission \/ run
    BY <1>3, QuietCall DEF QInv, schedule, EndAdmission, run, bmVars
  <1>4. CASE Admitted \/ TakeFront \/ EndDecode \/ EndStep
    BY <1>4 DEF Admitted, TakeFront, EndDecode, EndStep, bmVars
  <1>5. CASE ScheduleDecode
    BY <1>5 DEF ScheduleDecode, may_append
  <1> QED  BY <1>1, <1>2, <1>3, <1>4, <1>5

LEMMA CallsKept ==
    ASSUME QInv, [Next]_vars
    PROVE  CallAtPc'
  <1>1. CASE \/ \E s \in SeqId, r \in Requests : add(s, r)
             \/ \E t \in Sampled : postprocess(t)
             \/ schedule \/ Admitted \/ EndAdmission \/ TakeFront
             \/ ScheduleDecode \/ EndDecode \/ run \/ EndStep
    BY <1>1, QuietSteps, QuietCallAtPc
  <1>2. CASE Admit
    BY <1>2 DEF Admit, BeginAllocate, CallAtPc, NoCall
  <1>3. CASE PreemptVictim
    <2>1. Last(running) \in SeqId
      BY <1>3, PreemptVictimMoves
    <2>2. /\ call'.op = "deallocate" /\ call'.seq = Last(running)
          /\ pc' = "append" /\ status' = [status EXCEPT ![Last(running)] = "WAITING"]
      BY <1>3 DEF PreemptVictim, preempt, BeginDeallocate, NoCall, localVars
    <2> QED  BY <2>1, <2>2 DEF CallAtPc, QInv, TypeOK
  <1>4. CASE PreemptSelf
    <2>1. cur \in SeqId
      BY <1>4 DEF QInv, CurOK, PreemptSelf
    <2>2. /\ call'.op = "deallocate" /\ call'.seq = cur
          /\ pc' = "decode" /\ status' = [status EXCEPT ![cur] = "WAITING"]
      BY <1>4 DEF PreemptSelf, preempt, BeginDeallocate, NoCall
    <2> QED  BY <2>1, <2>2 DEF CallAtPc, QInv, TypeOK
  <1>5. CASE Finish
    <2>1. status[cur] = "FINISHED"
      BY <1>5 DEF QInv, CurOK, Finish
    <2>2. /\ call'.op = "deallocate" /\ call'.seq = cur
          /\ pc' = "post" /\ status' = status
      BY <1>5 DEF Finish, BeginDeallocate, NoCall, seqVars
    <2> QED  BY <2>1, <2>2 DEF CallAtPc
  <1>6. CASE BlockManagerStep
    <2>1. call' = NoCall \/ (call'.op = call.op /\ call'.seq = call.seq)
      BY <1>6, BMStepCall DEF BlockManagerStep, QInv
    <2>2. UNCHANGED << pc, cur, status >>
      BY <1>6 DEF BlockManagerStep, seqVars, localVars
    <2>3. CASE call' = NoCall
      BY <2>3, QuietCallAtPc
    <2>4. CASE call'.op = call.op /\ call'.seq = call.seq
      BY <2>2, <2>4 DEF CallAtPc, QInv
    <2> QED  BY <2>1, <2>3, <2>4
  <1>7. CASE UNCHANGED vars
    BY <1>7 DEF vars, bmVars, seqVars, localVars, CallAtPc, QInv
  <1> QED  BY <1>1, <1>2, <1>3, <1>4, <1>5, <1>6, <1>7
           DEF Next, EngineStep, schedule_default, DecodeLoop, PostProcess

LEMMA CurKept ==
    ASSUME QInv, [Next]_vars
    PROVE  CurOK'
  <1>n. NoSeq \notin SeqId
    BY SeqIdAssumption
  <1>0. CurOK /\ TypeOK
    BY DEF QInv
  <1>1. ASSUME NEW s \in SeqId, NEW r \in Requests, add(s, r)
        PROVE  CurOK'
    BY <1>0, <1>1 DEF add, localVars, CurOK
  <1>2. CASE schedule \/ run
    BY <1>0, <1>2 DEF schedule, run, seqVars, queueVars, CurOK
  <1>3. CASE Admit
    <2>1. waiting # << >> /\ Head(waiting) \in SeqId
      BY <1>0, <1>3, HeadBeforeTail DEF Admit, CanAdmit, TypeOK
    <2> QED  BY <1>3, <2>1 DEF Admit, queueVars, CurOK
  <1>4. CASE Admitted \/ PreemptSelf \/ ScheduleDecode \/ Finish
    BY <1>n, <1>4 DEF Admitted, PreemptSelf, ScheduleDecode, Finish, CurOK
  <1>5. CASE EndAdmission
    BY <1>0, <1>5 DEF EndAdmission, queueVars, CurOK
  <1>6. CASE TakeFront
    <2>1. Head(running) \in SeqId
      BY <1>0, <1>6, HeadBeforeTail DEF TakeFront, TypeOK
    <2> QED  BY <1>6, <2>1 DEF TakeFront, CurOK
  <1>7. CASE PreemptVictim
    BY <1>0, <1>7 DEF PreemptVictim, localVars, CurOK
  <1>8. CASE EndDecode \/ EndStep
    BY <1>0, <1>8 DEF EndDecode, EndStep, CurOK
  <1>9. ASSUME NEW t \in Sampled, postprocess(t)
        PROVE  CurOK'
    <2>1. scheduled_seqs[post_i] \in SeqId
      BY <1>9, PostprocessedSequence
    <2>2. pc = "post" /\ \/ UNCHANGED << cur, pc >>
                         \/ /\ pc' = "finish" /\ cur' = scheduled_seqs[post_i]
                            /\ status'[cur'] = "FINISHED"
      BY <1>0, <1>9, <2>1 DEF postprocess, TypeOK
    <2> QED  BY <1>0, <2>1, <2>2 DEF CurOK
  <1>10. CASE BlockManagerStep
    BY <1>0, <1>10 DEF BlockManagerStep, seqVars, queueVars, localVars, CurOK
  <1>11. CASE UNCHANGED vars
    BY <1>0, <1>11 DEF vars, seqVars, queueVars, localVars, CurOK
  <1> QED  BY <1>1, <1>2, <1>3, <1>4, <1>5, <1>6, <1>7, <1>8, <1>9, <1>10, <1>11
           DEF Next, EngineStep, schedule_default, DecodeLoop, PostProcess

\* A step that touches no table.
LEMMA SameTables ==
    ASSUME TablesOK, UNCHANGED block_table, call = NoCall,
           call' = NoCall \/ call'.op = "deallocate",
           \A s \in SeqId : HasTable(s)' <=> HasTable(s)
    PROVE  TablesOK'
  BY DEF TablesOK, NoCall

LEMMA TablesKept ==
    ASSUME QInv, [Next]_vars
    PROVE  TablesOK'
  <1>n. NoSeq \notin SeqId
    BY SeqIdAssumption
  <1>0. TypeOK /\ CurOK /\ CallAtPc /\ TablesOK
    BY DEF QInv
  <1>1. ASSUME NEW s \in SeqId, NEW r \in Requests, add(s, r)
        PROVE  TablesOK'
    <2>1. call = NoCall /\ call' = NoCall
      BY <1>1, QuietSteps
    <2>2. \A u \in SeqId : HasTable(u)' <=> HasTable(u)
      BY <1>0, <1>1, <2>1 DEF add, localVars, HasTable, TypeOK
    <2> QED  BY <1>0, <1>1, <2>1, <2>2, SameTables DEF add
  <1>2. CASE schedule \/ EndAdmission \/ TakeFront \/ EndDecode \/ run \/ EndStep
    <2>1. call = NoCall /\ call' = NoCall
      BY <1>2, QuietSteps
    <2>2. /\ UNCHANGED << block_table, status >>
          /\ pc \notin {"admitted", "finish"} /\ pc' \notin {"admitted", "finish"}
      BY <1>2 DEF schedule, EndAdmission, TakeFront, EndDecode, run, EndStep,
                  bmVars, seqVars
    <2>3. \A u \in SeqId : HasTable(u)' <=> HasTable(u)
      BY <2>1, <2>2 DEF HasTable
    <2> QED  BY <1>0, <2>1, <2>2, <2>3, SameTables
  <1>3. CASE Admit
    <2>1. /\ call = NoCall /\ call'.op = "allocate" /\ call'.seq = cur'
          /\ pc = "admit" /\ pc' = "admitted"
          /\ UNCHANGED << block_table, status >>
      BY <1>3 DEF Admit, BeginAllocate, NoCall, seqVars
    <2>2. call.op = "none" /\ call' # NoCall
      BY <2>1 DEF NoCall
    <2>3. ASSUME NEW u \in SeqId
          PROVE  HasTable(u)' <=> HasTable(u)
      BY <2>1, <2>2 DEF HasTable
    <2> QED  BY <1>0, <2>1, <2>2, <2>3 DEF TablesOK
  <1>4. CASE Admitted
    <2>1. call = NoCall /\ call' = NoCall
      BY <1>4, QuietSteps
    <2>2. /\ UNCHANGED block_table /\ cur \in SeqId
          /\ pc = "admitted" /\ pc' = "admit"
          /\ status' = [status EXCEPT ![cur] = "RUNNING"]
      BY <1>0, <1>4 DEF Admitted, bmVars, CurOK
    <2>3. \A u \in SeqId : HasTable(u)' <=> HasTable(u)
      BY <1>0, <2>1, <2>2 DEF HasTable, TypeOK
    <2> QED  BY <1>0, <2>1, <2>2, <2>3, SameTables
  <1>5. ASSUME NEW v \in SeqId, status[v] = "RUNNING",
               status' = [status EXCEPT ![v] = "WAITING"],
               BeginDeallocate(v), pc \notin {"admitted", "finish"},
               pc' \notin {"admitted", "finish"}
        PROVE  TablesOK'
    <2>1. /\ call = NoCall /\ call'.op = "deallocate" /\ call'.seq = v
          /\ UNCHANGED block_table
      BY <1>5 DEF BeginDeallocate, NoCall
    <2>2. \A u \in SeqId : HasTable(u)' <=> HasTable(u)
      BY <1>0, <1>5, <2>1 DEF HasTable, TypeOK, NoCall
    <2> QED  BY <1>0, <2>1, <2>2, SameTables
  <1>6. CASE PreemptVictim
    <2>1. Last(running) \in SeqId /\ status[Last(running)] = "RUNNING"
      <3>1. running # << >> /\ pc = "append"
        BY <1>6 DEF PreemptVictim
      <3>t. running \in Seq(SeqId)
        BY <1>0 DEF TypeOK
      <3>e. ToSet(running) = ToSet(Front(running)) \cup {Last(running)}
        BY <3>t, <3>1, EndElements
      <3>2. Last(running) \in SeqId /\ Last(running) \in ToSet(running)
        BY <3>t, <3>1, <3>e, FrontBeforeLast
      <3>3. ToSet(running) \subseteq ToSet(InHand \o running)
        BY <1>0, QueueTypes, ConcatElements
      <3> QED  BY <3>1, <3>2, <3>3 DEF QInv, QueuesMatchStatus
    <2> QED  BY <1>5, <1>6, <2>1 DEF PreemptVictim, preempt, localVars
  <1>7. CASE PreemptSelf
    <2>1. cur \in SeqId /\ pc = "append"
      BY <1>0, <1>7 DEF CurOK, PreemptSelf
    <2>2. status[cur] = "RUNNING"
      BY <2>1, CurInHand DEF QInv
    <2> QED  BY <1>5, <1>7, <2>1, <2>2 DEF PreemptSelf, preempt
  <1>8. CASE ScheduleDecode
    <2>1. call = NoCall /\ call' = NoCall
      BY <1>8, QuietSteps
    <2>2. cur \in SeqId /\ pc = "append" /\ pc' = "decode" /\ UNCHANGED status
      BY <1>0, <1>8 DEF CurOK, ScheduleDecode
    <2>3. block_table[cur] # << >>
      BY <1>0, <2>1, <2>2, QuietTables, CurInHand DEF QInv
    <2>4. \A u \in SeqId : block_table'[u] # << >> <=> block_table[u] # << >>
      BY <1>0, <1>8, <2>2, <2>3, MayAppendTable DEF ScheduleDecode
    <2>5. \A u \in SeqId : HasTable(u)' <=> HasTable(u)
      BY <2>1, <2>2 DEF HasTable
    <2> QED  BY <1>0, <2>1, <2>4, <2>5 DEF TablesOK, NoCall
  <1>9. ASSUME NEW t \in Sampled, postprocess(t)
        PROVE  TablesOK'
    <2> DEFINE s == scheduled_seqs[post_i]
    <2>1. call = NoCall /\ call' = NoCall
      BY <1>9, QuietSteps
    <2>2. s \in SeqId /\ status[s] = "RUNNING"
      BY <1>9, PostprocessedSequence
    <2>3. UNCHANGED block_table /\ pc = "post"
      BY <1>9 DEF postprocess
    <2>4. \/ UNCHANGED << status, cur, pc >>
          \/ /\ status' = [status EXCEPT ![s] = "FINISHED"]
             /\ cur' = s /\ pc' = "finish"
      BY <1>9 DEF postprocess
    <2>5. \A u \in SeqId : HasTable(u)' <=> HasTable(u)
      BY <1>0, <2>1, <2>2, <2>3, <2>4 DEF HasTable, TypeOK
    <2> QED  BY <1>0, <2>1, <2>3, <2>5, SameTables
  <1>10. CASE Finish
    <2>1. /\ call = NoCall /\ call'.op = "deallocate" /\ call'.seq = cur
          /\ UNCHANGED << block_table, status >>
          /\ pc = "finish" /\ pc' = "post"
      BY <1>10 DEF Finish, BeginDeallocate, NoCall, seqVars
    <2>2. \A u \in SeqId : HasTable(u)' <=> HasTable(u)
      BY <2>1 DEF HasTable, NoCall
    <2> QED  BY <1>0, <2>1, <2>2, SameTables
  <1>11. CASE BlockManagerStep
    <2>1. /\ call.op \in {"allocate", "deallocate"} /\ call.seq \in SeqId
          /\ call' = NoCall \/ (call'.op = call.op /\ call'.seq = call.seq)
          /\ \A s \in SeqId : s # call.seq => block_table'[s] = block_table[s]
          /\ call.op = "allocate" => block_table'[call.seq] # << >>
          /\ call.op = "deallocate" =>
                 block_table'[call.seq] =
                     IF call' = NoCall THEN << >> ELSE block_table[call.seq]
      BY <1>0, <1>11, BMStepCall DEF BlockManagerStep
    <2>2. UNCHANGED << pc, cur, status >>
      BY <1>11 DEF BlockManagerStep, seqVars, localVars
    <2>3. call # NoCall
      BY <2>1 DEF NoCall
    <2>4. CASE call.op = "allocate"
      <3>1. pc = "admitted" /\ call.seq = cur
        BY <1>0, <2>4 DEF CallAtPc
      <3>2. ASSUME NEW u \in SeqId, u # cur
            PROVE  block_table'[u] # << >> <=> HasTable(u)'
        <4>1. HasTable(u)' <=> HasTable(u)
          BY <2>1, <2>2, <2>4, <3>1, <3>2 DEF HasTable, NoCall
        <4> QED  BY <1>0, <2>1, <3>1, <3>2, <4>1 DEF TablesOK
      <3>3. CASE call' = NoCall
        <4>1. \A u \in SeqId : u = cur => HasTable(u)'
          BY <2>2, <3>1, <3>3 DEF HasTable
        <4>2. \A u \in SeqId : u = cur => block_table'[u] # << >>
          BY <2>1, <2>4, <3>1
        <4> QED  BY <3>2, <4>1, <4>2 DEF TablesOK
      <3>4. CASE call'.op = call.op /\ call'.seq = call.seq
        BY <2>4, <3>1, <3>2, <3>4 DEF TablesOK
      <3> QED  BY <2>1, <3>3, <3>4
    <2>5. CASE call.op = "deallocate"
      <3>1. pc \in {"append", "decode", "post"} /\ status[call.seq] # "RUNNING"
        BY <1>0, <2>5 DEF CallAtPc
      <3>2. CASE call' = NoCall
        <4>0. call'.op = "none"
          BY <3>2 DEF NoCall
        <4>1. ASSUME NEW u \in SeqId, u = call.seq
              PROVE  block_table'[u] = << >> /\ ~HasTable(u)'
          <5>1. block_table'[u] = << >>
            BY <2>1, <2>5, <3>2, <4>1
          <5>2. ~HasTable(u)'
            BY <2>2, <3>1, <4>0, <4>1 DEF HasTable
          <5> QED  BY <5>1, <5>2
        <4>2. ASSUME NEW u \in SeqId, u # call.seq
              PROVE  HasTable(u)' <=> HasTable(u)
          BY <2>2, <3>1, <4>0, <4>2 DEF HasTable
        <4> QED  BY <1>0, <2>1, <2>5, <4>1, <4>2 DEF TablesOK
      <3>3. CASE call' # NoCall
        <4>1. call'.op = call.op /\ call'.seq = call.seq
          BY <2>1, <3>3
        <4>2. \A u \in SeqId : HasTable(u)' <=> HasTable(u)
          BY <2>2, <3>1, <4>1 DEF HasTable
        <4>3. \A u \in SeqId : block_table'[u] = block_table[u]
          BY <2>1, <2>5, <3>3
        <4> QED  BY <1>0, <2>5, <4>1, <4>2, <4>3 DEF TablesOK
      <3> QED  BY <3>2, <3>3
    <2> QED  BY <2>1, <2>4, <2>5
  <1>12. CASE UNCHANGED vars
    BY <1>0, <1>12 DEF vars, bmVars, seqVars, localVars, TablesOK, HasTable
  <1> QED  BY <1>1, <1>2, <1>3, <1>4, <1>6, <1>7, <1>8, <1>9, <1>10, <1>11,
              <1>12
           DEF Next, EngineStep, schedule_default, DecodeLoop, PostProcess

-----------------------------------------------------------------------------
(* The batch *)

\* Until it is postprocessed the whole batch runs.
LEMMA BatchRuns ==
    ASSUME TypeOK, BatchOK, pc \notin {"post", "finish"}
    PROVE  \A s \in ToSet(scheduled_seqs) : s \in SeqId /\ status[s] = "RUNNING"
  <1>1. UnrunFrom = 1
    BY DEF UnrunFrom
  <1>2. \A i \in 1 .. Len(scheduled_seqs) : status[scheduled_seqs[i]] = "RUNNING"
    BY <1>1 DEF BatchOK
  <1>3. scheduled_seqs \in Seq(SeqId)
    BY DEF TypeOK
  <1>4. /\ ToSet(scheduled_seqs) \subseteq SeqId
        /\ \A s \in ToSet(scheduled_seqs) :
               \E i \in 1 .. Len(scheduled_seqs) : scheduled_seqs[i] = s
    BY <1>3, ElementPositions
  <1> QED  BY <1>2, <1>4

LEMMA BatchOwed ==
    ASSUME scheduled_seqs' \in Seq(SeqId), IsInjective(scheduled_seqs'),
           pc' \notin {"idle", "post", "finish"},
           \A s \in ToSet(scheduled_seqs') : status'[s] = "RUNNING"
    PROVE  BatchOK'
  <1>1. \A i \in 1 .. Len(scheduled_seqs') : status'[scheduled_seqs'[i]] = "RUNNING"
    BY ElementPositions
  <1> QED  BY <1>1 DEF BatchOK, UnrunFrom

LEMMA BatchKept ==
    ASSUME QInv, [Next]_vars
    PROVE  BatchOK'
  <1>0. TypeOK /\ BatchOK /\ scheduled_seqs \in Seq(SeqId)
        /\ IsInjective(scheduled_seqs)
    BY DEF QInv, TypeOK, BatchOK
  <1>1. ASSUME NEW s \in SeqId, NEW r \in Requests, add(s, r)
        PROVE  BatchOK'
    <2>1. pc' = "idle" /\ scheduled_seqs' = << >>
      BY <1>0, <1>1 DEF add, localVars, BatchOK
    <2>2. UnrunFrom' = 1 /\ Len(scheduled_seqs') = 0
      BY <2>1 DEF UnrunFrom
    <2> QED  BY <2>1, <2>2, EmptyElements DEF BatchOK
  <1>2. CASE schedule \/ Admit \/ EndAdmission \/ TakeFront \/ EndDecode
    <2>1. /\ UNCHANGED << status, scheduled_seqs >>
          /\ pc \notin {"post", "finish"}
          /\ pc' \notin {"idle", "post", "finish"}
      BY <1>2 DEF schedule, Admit, EndAdmission, TakeFront, EndDecode,
                  seqVars, queueVars
    <2> QED  BY <1>0, <2>1, BatchRuns, BatchOwed
  <1>3. CASE Admitted
    <2>1. /\ pc = "admitted" /\ pc' = "admit"
          /\ cur \in SeqId /\ status[cur] = "WAITING"
          /\ status' = [status EXCEPT ![cur] = "RUNNING"]
          /\ scheduled_seqs' = Append(scheduled_seqs, cur)
      BY <1>3, AdmittedSequence DEF Admitted
    <2>2. \A s \in ToSet(scheduled_seqs) : s \in SeqId /\ status[s] = "RUNNING"
      BY <1>0, <2>1, BatchRuns
    <2>3. /\ scheduled_seqs' \in Seq(SeqId) /\ IsInjective(scheduled_seqs')
          /\ ToSet(scheduled_seqs') = ToSet(scheduled_seqs) \cup {cur}
      BY <1>0, <2>1, <2>2, AppendElements
    <2>4. \A s \in ToSet(scheduled_seqs') : status'[s] = "RUNNING"
      BY <1>0, <2>1, <2>2, <2>3 DEF TypeOK
    <2> QED  BY <2>1, <2>3, <2>4, BatchOwed
  <1>4. ASSUME NEW v \in SeqId, v \notin ToSet(scheduled_seqs),
               status' = [status EXCEPT ![v] = "WAITING"],
               UNCHANGED scheduled_seqs, pc = "append",
               pc' \in {"append", "decode"}
        PROVE  BatchOK'
    <2>1. \A s \in ToSet(scheduled_seqs) : status'[s] = "RUNNING"
      BY <1>0, <1>4, BatchRuns DEF TypeOK
    <2> QED  BY <1>0, <1>4, <2>1, BatchOwed
  <1>5. CASE PreemptVictim
    <2> DEFINE v == Last(running)
    <2>1. /\ pc = "append" /\ running # << >>
          /\ running \in Seq(SeqId) /\ InHand \in Seq(SeqId)
      BY <1>5, QueueTypes DEF PreemptVictim, QInv
    <2>2. v \in SeqId /\ v \in ToSet(running)
      <3>1. v \in SeqId
        BY <2>1, FrontBeforeLast
      <3>2. ToSet(running) = ToSet(Front(running)) \cup {v}
        BY <2>1, EndElements
      <3> QED  BY <3>1, <3>2
    <2>3. cur \in SeqId /\ InHand = Append(scheduled_seqs, cur)
      BY <2>1 DEF QInv, CurOK, InHand
    <2>4. ToSet(scheduled_seqs) \subseteq ToSet(InHand)
      BY <1>0, <2>3, AppendElements
    <2>5. \A x \in ToSet(InHand) : x \notin ToSet(running)
      <3>1. IsInjective(InHand \o running)
        BY OrderParts DEF Hand
      <3> QED  BY <2>1, <3>1, ConcatInjective
    <2>6. v \notin ToSet(scheduled_seqs)
      BY <2>2, <2>4, <2>5
    <2> QED  BY <1>4, <1>5, <2>2, <2>6 DEF PreemptVictim, preempt, localVars
  <1>6. CASE PreemptSelf
    <2>1. cur \in SeqId /\ cur \notin ToSet(scheduled_seqs)
      BY <1>6, CurInHand DEF PreemptSelf, QInv, CurOK
    <2> QED  BY <1>4, <1>6, <2>1 DEF PreemptSelf, preempt
  <1>7. CASE ScheduleDecode
    <2>1. /\ pc = "append" /\ pc' = "decode" /\ UNCHANGED status
          /\ scheduled_seqs' = Append(scheduled_seqs, cur)
      BY <1>7 DEF ScheduleDecode
    <2>2. /\ cur \in SeqId /\ status[cur] = "RUNNING"
          /\ cur \notin ToSet(scheduled_seqs)
      BY <2>1, CurInHand DEF QInv, CurOK
    <2>3. \A s \in ToSet(scheduled_seqs) : status[s] = "RUNNING"
      BY <1>0, <2>1, BatchRuns
    <2>4. /\ scheduled_seqs' \in Seq(SeqId) /\ IsInjective(scheduled_seqs')
          /\ ToSet(scheduled_seqs') = ToSet(scheduled_seqs) \cup {cur}
      BY <1>0, <2>1, <2>2, AppendElements
    <2>5. \A s \in ToSet(scheduled_seqs') : status'[s] = "RUNNING"
      BY <2>1, <2>2, <2>3, <2>4
    <2> QED  BY <2>1, <2>4, <2>5, BatchOwed
  <1>8. CASE run
    <2>1. /\ pc = "run" /\ pc' = "post" /\ post_i' = 1
          /\ UNCHANGED << status, scheduled_seqs >>
      BY <1>8 DEF run, seqVars, queueVars
    <2>2. UnrunFrom = 1 /\ UnrunFrom' = 1
      BY <2>1 DEF UnrunFrom
    <2> QED  BY <1>0, <2>1, <2>2 DEF BatchOK
  <1>9. ASSUME NEW t \in Sampled, postprocess(t)
        PROVE  BatchOK'
    <2> DEFINE s == scheduled_seqs[post_i]
    <2>1. /\ pc = "post" /\ pc' \in {"post", "finish"} /\ post_i' = post_i + 1
          /\ UNCHANGED scheduled_seqs
          /\ status' = status \/ status' = [status EXCEPT ![s] = "FINISHED"]
      BY <1>9 DEF postprocess, queueVars
    <2>2. UnrunFrom = post_i /\ UnrunFrom' = post_i + 1 /\ post_i \in Nat
          /\ post_i >= 1
      BY <1>0, <2>1 DEF UnrunFrom, BatchOK, TypeOK
    <2>3. \A i \in post_i + 1 .. Len(scheduled_seqs) :
              /\ i \in post_i .. Len(scheduled_seqs)
              /\ scheduled_seqs[i] \in SeqId /\ scheduled_seqs[i] # s
      BY <1>9, PostprocessedSequence
    <2>4. ASSUME NEW i \in post_i + 1 .. Len(scheduled_seqs)
          PROVE  status'[scheduled_seqs[i]] = "RUNNING"
      <3>1. status[scheduled_seqs[i]] = "RUNNING"
        BY <1>0, <2>2, <2>3 DEF BatchOK
      <3> QED  BY <1>0, <2>1, <2>3, <3>1 DEF TypeOK
    <2> QED  BY <1>0, <2>1, <2>2, <2>4 DEF BatchOK
  <1>10. CASE Finish
    <2>1. /\ pc = "finish" /\ pc' = "post"
          /\ UNCHANGED << status, scheduled_seqs, post_i >>
      BY <1>10 DEF Finish, seqVars
    <2> QED  BY <1>0, <2>1 DEF BatchOK, UnrunFrom
  <1>11. CASE EndStep
    <2>1. pc' = "idle" /\ scheduled_seqs' = << >>
      BY <1>11 DEF EndStep
    <2>2. UnrunFrom' = 1 /\ Len(scheduled_seqs') = 0
      BY <2>1 DEF UnrunFrom
    <2> QED  BY <2>1, <2>2, EmptyElements DEF BatchOK
  <1>12. CASE BlockManagerStep \/ UNCHANGED vars
    <2>1. UNCHANGED << status, scheduled_seqs, pc, post_i >>
      BY <1>12 DEF BlockManagerStep, vars, seqVars, queueVars, localVars
    <2> QED  BY <1>0, <2>1 DEF BatchOK, UnrunFrom
  <1> QED  BY <1>1, <1>2, <1>3, <1>5, <1>6, <1>7, <1>8, <1>9, <1>10, <1>11,
              <1>12
           DEF Next, EngineStep, schedule_default, DecodeLoop, PostProcess

LEMMA CountKept ==
    ASSUME SInv, [Next]_vars
    PROVE  CountOK'
  <1>0. /\ TypeOK /\ CountOK /\ num_seqs \in Nat /\ max_num_seqs \in Nat
        /\ max_num_seqs >= 1 /\ scheduled_seqs \in Seq(SeqId)
        /\ Len(scheduled_seqs) \in Nat
    BY BudgetAssumption, LenProperties DEF SInv, QInv, TypeOK
  <1>1. ASSUME NEW s \in SeqId, NEW r \in Requests, add(s, r)
        PROVE  CountOK'
    BY <1>1 DEF add, localVars, CountOK
  <1>2. CASE schedule
    <2>1. scheduled_seqs = << >> /\ num_seqs' = 0 /\ pc' = "admit"
          /\ scheduled_seqs' = scheduled_seqs
      BY <1>2 DEF schedule, SInv, QInv, BatchOK, queueVars
    <2> QED  BY <1>0, <2>1 DEF CountOK
  <1>3. CASE Admit
    <2>1. /\ pc = "admit" /\ pc' = "admitted" /\ num_seqs < max_num_seqs
          /\ num_seqs' = num_seqs + 1 /\ scheduled_seqs' = scheduled_seqs
      BY <1>3 DEF Admit, CanAdmit, queueVars
    <2> QED  BY <1>0, <2>1 DEF CountOK
  <1>4. CASE Admitted
    <2>1. /\ pc = "admitted" /\ pc' = "admit" /\ num_seqs' = num_seqs
          /\ scheduled_seqs' = Append(scheduled_seqs, cur) /\ cur \in SeqId
      BY <1>4 DEF Admitted, SInv, QInv, CurOK
    <2>2. Len(scheduled_seqs') = Len(scheduled_seqs) + 1
      BY <1>0, <2>1, AppendProperties
    <2> QED  BY <1>0, <2>1, <2>2 DEF CountOK
  <1>5. CASE EndAdmission \/ EndDecode
    <2>1. /\ pc \in {"admit", "decode"} /\ pc' \in {"run", "decode"}
          /\ UNCHANGED << num_seqs, scheduled_seqs >>
      BY <1>5 DEF EndAdmission, EndDecode, queueVars
    <2> QED  BY <1>0, <2>1 DEF CountOK
  <1>6. CASE TakeFront
    <2>1. /\ pc = "decode" /\ pc' = "append" /\ num_seqs < max_num_seqs
          /\ UNCHANGED << num_seqs, scheduled_seqs >>
      BY <1>6 DEF TakeFront
    <2> QED  BY <1>0, <2>1 DEF CountOK
  <1>7. CASE PreemptVictim \/ PreemptSelf
    <2>1. /\ pc = "append" /\ pc' \in {"append", "decode"}
          /\ UNCHANGED << num_seqs, scheduled_seqs >>
      BY <1>7 DEF PreemptVictim, PreemptSelf, localVars
    <2> QED  BY <1>0, <2>1 DEF CountOK
  <1>8. CASE ScheduleDecode
    <2>1. /\ pc = "append" /\ pc' = "decode" /\ num_seqs' = num_seqs + 1
          /\ scheduled_seqs' = Append(scheduled_seqs, cur) /\ cur \in SeqId
      BY <1>8 DEF ScheduleDecode, SInv, QInv, CurOK
    <2>2. Len(scheduled_seqs') = Len(scheduled_seqs) + 1
      BY <1>0, <2>1, AppendProperties
    <2> QED  BY <1>0, <2>1, <2>2 DEF CountOK
  <1>9. CASE \/ run \/ Finish \/ EndStep \/ \E t \in Sampled : postprocess(t)
    <2>1. pc' \in {"post", "finish", "idle"}
      BY <1>9 DEF run, Finish, EndStep, postprocess
    <2> QED  BY <2>1 DEF CountOK
  <1>10. CASE BlockManagerStep \/ UNCHANGED vars
    <2>1. UNCHANGED << num_seqs, scheduled_seqs, pc >>
      BY <1>10 DEF BlockManagerStep, vars, queueVars, localVars
    <2> QED  BY <1>0, <2>1 DEF CountOK
  <1> QED  BY <1>1, <1>2, <1>3, <1>4, <1>5, <1>6, <1>7, <1>8, <1>9, <1>10
           DEF Next, EngineStep, schedule_default, DecodeLoop, PostProcess

-----------------------------------------------------------------------------
(* What the batch has to compute *)

\* What Prefilling, Decoding and finished_prefill say of u stays.
SameWork(u) ==
    /\ token_ids'[u] = token_ids[u]
    /\ num_cached_tokens'[u] = num_cached_tokens[u]
    /\ num_computed_tokens'[u] = num_computed_tokens[u]
    /\ num_tokens_to_process'[u] = num_tokens_to_process[u]

LEMMA WorkStays ==
    ASSUME NEW u, SameWork(u)
    PROVE  /\ Prefilling(u)' <=> Prefilling(u)
           /\ Decoding(u)' <=> Decoding(u)
           /\ finished_prefill(u)' <=> finished_prefill(u)
  BY DEF SameWork, Prefilling, Decoding, finished_prefill, new_computed, len

LEMMA WorkKept ==
    ASSUME SInv, [Next]_vars
    PROVE  WorkOK'
  <1>0. TypeOK /\ WorkOK /\ BatchOK /\ scheduled_seqs \in Seq(SeqId)
    BY DEF SInv, QInv, TypeOK
  <1>1. ASSUME NEW s \in SeqId, NEW r \in Requests, add(s, r)
        PROVE  WorkOK'
    BY <1>1 DEF add, localVars, WorkOK
  <1>2. CASE schedule
    <2>1. scheduled_seqs' = << >> /\ pc' = "admit"
      BY <1>2 DEF schedule, SInv, QInv, BatchOK, queueVars
    <2> QED  BY <2>1, EmptyElements DEF WorkOK
  <1>3. CASE \/ Admit \/ EndAdmission \/ TakeFront \/ PreemptVictim \/ PreemptSelf
             \/ EndDecode
    <2>1. /\ UNCHANGED scheduled_seqs
          /\ \A u \in ToSet(scheduled_seqs) : SameWork(u)
      BY <1>3 DEF Admit, EndAdmission, TakeFront, PreemptVictim, PreemptSelf,
                  EndDecode, preempt, BeginAllocate, BeginDeallocate, bmVars,
                  seqVars, queueVars, SameWork
    <2>2. ASSUME NEW u \in ToSet(scheduled_seqs)
          PROVE  /\ Prefilling(u)' <=> Prefilling(u)
                 /\ Decoding(u)' <=> Decoding(u)
      BY <2>1, WorkStays
    <2>3. \/ pc = "admit" /\ pc' = "admitted"
          \/ pc = "admit" /\ pc' = "run" /\ is_prefill'
          \/ pc = "admit" /\ pc' = "decode" /\ scheduled_seqs = << >>
          \/ pc = "decode" /\ pc' = "run" /\ ~is_prefill'
          \/ pc \in {"decode", "append"} /\ pc' \in {"decode", "append"}
      BY <1>3 DEF Admit, EndAdmission, TakeFront, PreemptVictim, PreemptSelf,
                  EndDecode, localVars
    <2> QED  BY <1>0, <2>1, <2>2, <2>3, EmptyElements DEF WorkOK
  <1>4. CASE Admitted
    <2>1. /\ pc = "admitted" /\ pc' = "admit" /\ call = NoCall
          /\ num_computed_tokens' =
                 [num_computed_tokens EXCEPT ![cur] = ComputedAtAdmission(cur)]
          /\ num_tokens_to_process' =
                 [num_tokens_to_process EXCEPT
                      ![cur] = len(cur) - ComputedAtAdmission(cur)]
          /\ scheduled_seqs' = Append(scheduled_seqs, cur)
          /\ UNCHANGED << token_ids, num_cached_tokens >>
      BY <1>4 DEF Admitted, bmVars
    <2>2. /\ cur \in SeqId /\ status[cur] = "WAITING"
          /\ len(cur) \in Nat
          /\ num_cached_tokens[cur] \in Nat
          /\ ComputedAtAdmission(cur) \in Nat
          /\ ComputedAtAdmission(cur) <= num_cached_tokens[cur]
          /\ ComputedAtAdmission(cur) < len(cur)
      BY <2>1, AdmittedWork
    <2>3. ToSet(scheduled_seqs') = ToSet(scheduled_seqs) \cup {cur}
      BY <1>0, <2>1, <2>2, AppendElements
    <2>4. ASSUME NEW u \in ToSet(scheduled_seqs)
          PROVE  Prefilling(u)'
      <3>1. u \in SeqId /\ u # cur
        BY <1>0, <2>1, <2>2, BatchRuns
      <3>2. SameWork(u)
        BY <1>0, <2>1, <3>1 DEF SameWork, TypeOK
      <3>3. Prefilling(u)
        BY <1>0, <2>1 DEF WorkOK
      <3> QED  BY <3>2, <3>3, WorkStays
    <2>5. ASSUME NEW u \in SeqId, u = cur
          PROVE  Prefilling(u)'
      <3> DEFINE c == ComputedAtAdmission(cur)
      <3>1. /\ num_computed_tokens'[u] = c
            /\ num_tokens_to_process'[u] = len(cur) - c
        BY <1>0, <2>1, <2>5 DEF TypeOK
      <3>2. Len(token_ids'[u]) = len(cur)
        BY <2>1, <2>5 DEF len
      <3>3. num_cached_tokens'[u] = num_cached_tokens[cur]
        BY <2>1, <2>5
      <3>4. c + (len(cur) - c) = len(cur) /\ len(cur) - c >= 1
        BY <2>2
      <3> QED  BY <2>2, <3>1, <3>2, <3>3, <3>4
               DEF Prefilling, new_computed, len
    <2>6. \A u \in ToSet(scheduled_seqs') : Prefilling(u)'
      BY <2>2, <2>3, <2>4, <2>5
    <2> QED  BY <2>1, <2>6 DEF WorkOK
  <1>5. CASE ScheduleDecode
    <2>1. /\ pc = "append" /\ pc' = "decode" /\ cur \in SeqId
          /\ num_tokens_to_process' = [num_tokens_to_process EXCEPT ![cur] = 0]
          /\ scheduled_seqs' = Append(scheduled_seqs, cur)
      BY <1>5 DEF ScheduleDecode, SInv, QInv, CurOK
    <2>2. ToSet(scheduled_seqs') = ToSet(scheduled_seqs) \cup {cur}
      BY <1>0, <2>1, AppendElements
    <2>3. ASSUME NEW u \in ToSet(scheduled_seqs')
          PROVE  Decoding(u)'
      <3>1. u \in ToSet(scheduled_seqs) => num_tokens_to_process[u] = 0 /\ u \in SeqId
        BY <1>0, <2>1, BatchRuns DEF WorkOK, Decoding
      <3>2. num_tokens_to_process'[u] = 0
        BY <1>0, <2>1, <2>2, <3>1 DEF TypeOK
      <3> QED  BY <3>2 DEF Decoding
    <2> QED  BY <2>1, <2>3 DEF WorkOK
  <1>6. CASE run
    <2>1. /\ pc = "run" /\ pc' = "post" /\ post_i' = 1
          /\ UNCHANGED scheduled_seqs
          /\ \A u \in ToSet(scheduled_seqs) : SameWork(u)
      BY <1>6 DEF run, bmVars, seqVars, queueVars, SameWork
    <2>2. ASSUME NEW u \in ToSet(scheduled_seqs)
          PROVE  Decoding(u)' \/ finished_prefill(u)'
      <3>1. Decoding(u) \/ finished_prefill(u)
        BY <1>0, <2>1 DEF WorkOK, Prefilling, finished_prefill
      <3> QED  BY <2>1, <3>1, WorkStays
    <2>3. ASSUME NEW i \in post_i' .. Len(scheduled_seqs'),
                 NEW u \in SeqId, u = scheduled_seqs[i]
          PROVE  Decoding(u)' \/ finished_prefill(u)'
      <3>1. scheduled_seqs[i] \in ToSet(scheduled_seqs)
        BY <1>0, <2>1, <2>3, ElementPositions
      <3> QED  BY <2>2, <2>3, <3>1
    <2>4. ASSUME NEW i \in post_i' .. Len(scheduled_seqs')
          PROVE  scheduled_seqs[i] \in SeqId
      BY <1>0, <2>1, ElementPositions
    <2> QED  BY <2>1, <2>3, <2>4
             DEF WorkOK, Decoding, finished_prefill, new_computed, len
  <1>7. ASSUME NEW t \in Sampled, postprocess(t)
        PROVE  WorkOK'
    <2> DEFINE s == scheduled_seqs[post_i]
    <2>1. /\ pc = "post" /\ pc' \in {"post", "finish"} /\ post_i' = post_i + 1
          /\ num_computed_tokens' =
                 [num_computed_tokens EXCEPT ![s] = new_computed(s)]
          /\ num_tokens_to_process' = [num_tokens_to_process EXCEPT ![s] = 0]
          /\ \/ token_ids' = token_ids
             \/ token_ids' = [token_ids EXCEPT ![s] = Append(@, t)]
          /\ UNCHANGED << scheduled_seqs, num_cached_tokens >>
      BY <1>7 DEF postprocess, queueVars
    <2>2. \A i \in post_i + 1 .. Len(scheduled_seqs) :
              /\ i \in post_i .. Len(scheduled_seqs)
              /\ scheduled_seqs[i] \in SeqId /\ scheduled_seqs[i] # s
      BY <1>7, PostprocessedSequence DEF SInv
    <2>3. \A u \in SeqId : u # s => SameWork(u)
      BY <1>0, <2>1 DEF SameWork, TypeOK, BMTypeOK
    <2>4. ASSUME NEW i \in post_i + 1 .. Len(scheduled_seqs),
                 NEW u \in SeqId, u = scheduled_seqs[i]
          PROVE  Decoding(u)' \/ finished_prefill(u)'
      <3>1. Decoding(u) \/ finished_prefill(u)
        BY <1>0, <2>1, <2>2, <2>4 DEF WorkOK
      <3> QED  BY <2>2, <2>3, <2>4, <3>1, WorkStays
    <2> QED  BY <2>1, <2>2, <2>4
             DEF WorkOK, Decoding, finished_prefill, new_computed, len
  <1>8. CASE Finish
    <2>1. /\ pc = "finish" /\ pc' = "post"
          /\ UNCHANGED << scheduled_seqs, post_i, token_ids,
                          num_computed_tokens, num_tokens_to_process >>
      BY <1>8 DEF Finish, BeginDeallocate, seqVars
    <2> QED  BY <1>0, <2>1
             DEF WorkOK, Decoding, finished_prefill, new_computed, len
  <1>9. CASE EndStep
    BY <1>9 DEF EndStep, WorkOK
  <1>10. CASE BlockManagerStep
    <2>1. /\ UNCHANGED << scheduled_seqs, post_i, pc, cur, is_prefill, status,
                          num_computed_tokens, num_tokens_to_process >>
          /\ UNCHANGED token_ids
          /\ call.op \in {"allocate", "deallocate"}
          /\ \A u \in SeqId :
                 u # call.seq => num_cached_tokens'[u] = num_cached_tokens[u]
      BY <1>0, <1>10, BMStepCall
         DEF BlockManagerStep, seqVars, queueVars, localVars
    <2>2. pc \notin {"admit", "run"}
      BY <2>1 DEF SInv, QInv, CallAtPc
    <2>3. ASSUME pc = "admitted", NEW u \in ToSet(scheduled_seqs)
          PROVE  Prefilling(u)'
      <3>1. call.seq = cur /\ status[cur] = "WAITING"
        <4>1. call.op = "allocate" /\ call.seq = cur
          BY <2>1, <2>3 DEF SInv, QInv, CallAtPc
        <4>2. cur \in ToSet(waiting)
          BY <2>3, EndElements DEF SInv, QInv, CurOK, TypeOK
        <4> QED  BY <4>1, <4>2 DEF SInv, QInv, QueuesMatchStatus
      <3>2. u \in SeqId /\ u # cur
        BY <1>0, <2>3, <3>1, BatchRuns
      <3>3. Prefilling(u) /\ SameWork(u)
        BY <1>0, <2>1, <2>3, <3>1, <3>2 DEF WorkOK, SameWork
      <3> QED  BY <3>3, WorkStays
    <2>4. ASSUME pc \in {"decode", "append"}, NEW u \in ToSet(scheduled_seqs)
          PROVE  Decoding(u)'
      BY <1>0, <2>1, <2>4 DEF WorkOK, Decoding
    <2>5. ASSUME pc \in {"post", "finish"},
                 NEW i \in post_i .. Len(scheduled_seqs)
          PROVE  (Decoding(scheduled_seqs[i])
                     \/ finished_prefill(scheduled_seqs[i]))'
      BY <1>0, <2>1, <2>5
         DEF WorkOK, Decoding, finished_prefill, new_computed, len
    <2> QED  BY <2>1, <2>2, <2>3, <2>4, <2>5 DEF WorkOK
  <1>11. CASE UNCHANGED vars
    BY <1>0, <1>11
       DEF vars, bmVars, seqVars, queueVars, localVars, WorkOK, Prefilling,
           Decoding, finished_prefill, new_computed, len
  <1> QED  BY <1>1, <1>2, <1>3, <1>4, <1>5, <1>6, <1>7, <1>8, <1>9, <1>10,
              <1>11
           DEF Next, EngineStep, schedule_default, DecodeLoop, PostProcess

-----------------------------------------------------------------------------
(* The invariant holds *)

LEMMA InitClient ==
    ASSUME Init
    PROVE  Manager!Init
  <1>1. Manager!BMInit
    BY DEF Init, BMInit, Manager!BMInit, Manager!BlockId, BlockId,
           Manager!NoCall, NoCall, Manager!kNoHash, kNoHash
  <1>2. Pending = [s \in SeqId |-> FALSE]
    BY DEF Init, BMInit, Pending
  <1> QED  BY <1>1, <1>2 DEF Manager!Init

LEMMA InitS ==
    ASSUME Init
    PROVE  SInv
  <1>n. NoSeq \notin SeqId
    BY SeqIdAssumption
  <1>1. Manager!Init
    BY InitClient
  <1>2. Manager!IInv
    BY <1>1, ManagerAssumptions, Manager!InitInv
  <1>3. Manager!ContentInv
    BY <1>1, ManagerAssumptions, Manager!InitContent
  <1>4. TypeOK
    <2>1. BMTypeOK
      BY <1>2, SameTyping DEF Manager!IInv, Manager!TypeOK
    <2> QED  BY <2>1, EmptySeq DEF Init, TypeOK, Status, PC
  <1>5. call.op = "none"
    BY DEF Init, BMInit, NoCall
  <1>6. CallAtPc /\ CurOK /\ WorkOK /\ CountOK
    BY <1>n, <1>5 DEF Init, CallAtPc, CurOK, WorkOK, CountOK
  <1>7. TablesOK
    BY <1>5 DEF Init, BMInit, TablesOK, HasTable
  <1>8. QueuesMatchStatus
    <2>1. ServiceOrder = << >> /\ InHand \o running = << >>
      <3>1. InHand = << >> /\ running = << >> /\ waiting = << >>
        BY DEF Init, InHand
      <3>2. << >> \o << >> = << >>
        OBVIOUS
      <3> QED  BY <3>1, <3>2 DEF ServiceOrder
    <2> QED  BY <2>1, EmptyElements DEF Init, QueuesMatchStatus
  <1>9. BatchOK
    <2>1. scheduled_seqs = << >> /\ Len(scheduled_seqs) = 0 /\ UnrunFrom = 1
          /\ pc = "idle"
      BY DEF Init, UnrunFrom
    <2> QED  BY <2>1, EmptyElements DEF BatchOK
  <1> QED  BY <1>2, <1>3, <1>4, <1>6, <1>7, <1>8, <1>9 DEF SInv, QInv

\* The queues, loops and tables need no more than that the types are kept.
LEMMA NextQ ==
    ASSUME QInv, [Next]_vars, TypeOK'
    PROVE  QInv'
  BY CallsKept, CurKept, TablesKept, NextOrder, BatchKept DEF QInv

LEMMA NextS ==
    ASSUME SInv, [Next]_vars
    PROVE  SInv'
  <1>1. QInv'
    BY TypesKept, NextQ DEF SInv
  <1> QED  BY <1>1, WorkKept, CountKept, ManagerKept DEF SInv

\* The invariant on which everything below rests: the scheduler's queues,
\* loops and tables, and what the block manager guarantees its clients.
THEOREM SchedulerInvariant == Spec => []SInv
  <1>1. Init => SInv
    BY InitS
  <1>2. SInv /\ [Next]_vars => SInv'
    BY NextS
  <1> QED  BY <1>1, <1>2, PTL DEF Spec

-----------------------------------------------------------------------------
(* The theorems *)

\* Every variable of the scheduler keeps its type: no counter goes below zero
\* (num_batched_tokens subtracts the cached tokens) and no loop is at a
\* sequence that is none.
THEOREM TypeCorrect == Spec => []TypeOK
  <1>1. SInv => TypeOK
    BY DEF SInv, QInv
  <1> QED  BY <1>1, SchedulerInvariant, PTL

\* No request is lost, doubled or left behind by admission, preemption or
\* completion: the queues hold exactly the unfinished ones, by their status.
THEOREM QueuesExact == Spec => []QueuesMatchStatus
  <1>1. SInv => QueuesMatchStatus
    BY DEF SInv, QInv
  <1> QED  BY <1>1, SchedulerInvariant, PTL

\* No block leaks: between two calls only the sequences that run, and those
\* on their way in or out, hold blocks.
THEOREM TablesExact == Spec => []TablesMatchStatus
  <1>1. SInv => TablesMatchStatus
    <2> SUFFICES ASSUME SInv, call = NoCall, NEW s \in SeqId
                 PROVE  block_table[s] # << >> <=>
                            \/ status[s] = "RUNNING"
                            \/ pc \in {"admitted", "finish"} /\ s = cur
      BY DEF TablesMatchStatus
    <2> QED  BY QuietTables DEF SInv, QInv
  <1> QED  BY <1>1, SchedulerInvariant, PTL

\* Its tables have an entry for every block when the batch goes to the model.
LEMMA RunnableBatch == SInv => BatchIsRunnable
  <1> SUFFICES ASSUME SInv, pc = "run"
               PROVE  /\ Len(scheduled_seqs) <= max_num_seqs
                      /\ IsInjective(scheduled_seqs)
                      /\ \A s \in ToSet(scheduled_seqs) :
                             /\ status[s] = "RUNNING"
                             /\ Len(block_table[s]) = num_blocks(token_ids[s])
                             /\ is_prefill <=> num_tokens_to_process[s] > 0
    BY DEF BatchIsRunnable
  <1>1. Len(scheduled_seqs) <= max_num_seqs /\ IsInjective(scheduled_seqs)
    BY DEF SInv, QInv, CountOK, BatchOK
  <1>2. ASSUME NEW s \in ToSet(scheduled_seqs)
        PROVE  /\ status[s] = "RUNNING"
               /\ Len(block_table[s]) = num_blocks(token_ids[s])
               /\ is_prefill <=> num_tokens_to_process[s] > 0
    <2>1. s \in SeqId /\ status[s] = "RUNNING"
      BY <1>2, BatchRuns DEF SInv, QInv
    <2>2. call = NoCall
      BY QuietCall DEF SInv, QInv
    <2>3. block_table[s] # << >>
      BY <2>1, <2>2, QuietTables DEF SInv, QInv
    <2>4. ~Pending[s]
      BY <1>2, <2>1 DEF Pending, Unrun
    <2>5. Manager!Settled(s)
      BY <2>1, <2>2, <2>3, SeqIdAssumption DEF Manager!Settled, NoCall
    <2>6. /\ token_ids[s] \in Seq(Token) /\ Len(token_ids[s]) \in Nat
          /\ Len(block_table[s]) \in Nat
      BY <2>1, LenProperties DEF SInv, QInv, TypeOK, BMTypeOK
    <2>7. /\ (Len(block_table[s]) - 1) * BLOCK_SIZE < Len(token_ids[s])
          /\ Len(token_ids[s]) <= Len(block_table[s]) * BLOCK_SIZE
      <3>1. Manager!Covered(s) = Len(token_ids[s])
        BY <2>4, <2>6 DEF Manager!Covered
      <3> QED  BY <2>1, <2>5, <3>1
               DEF SInv, QInv, Manager!ContentInv, Manager!TableSize
    <2>8. Len(block_table[s]) = num_blocks(token_ids[s])
      BY <2>6, <2>7, NumBlocksCeil
    <2>9. is_prefill <=> num_tokens_to_process[s] > 0
      BY <1>2, <2>1 DEF SInv, QInv, TypeOK, WorkOK, Prefilling, Decoding
    <2> QED  BY <2>1, <2>8, <2>9
  <1> QED  BY <1>1, <1>2

\* What the model runner is given to run: a batch of one kind and within
\* max_num_seqs, of distinct RUNNING sequences, each with a table that has an
\* entry for every block of its tokens, the one being decoded included.
THEOREM BatchRunnable == Spec => []BatchIsRunnable
  BY RunnableBatch, SchedulerInvariant, PTL

\* A prefill of this path computes at least the last token and, with what the
\* cache holds, the whole sequence.
THEOREM SingleChunks == Spec => []SingleChunk
  <1>1. SInv => SingleChunk
    BY DEF SInv, QInv, WorkOK, Prefilling, new_computed, SingleChunk
  <1> QED  BY <1>1, SchedulerInvariant, PTL

\* Requests are served in the order they came, whatever is admitted, decoded,
\* preempted or finished in between.
THEOREM ServesInOrder == Spec => FirstComeFirstServed
  <1>1. SInv /\ [Next]_vars => [ServedInOrder]_vars
    BY NextOrder DEF SInv
  <1>2. Spec => [][ServedInOrder]_vars
    BY <1>1, SchedulerInvariant, PTL DEF Spec
  <1> QED  BY <1>2 DEF FirstComeFirstServed, ServedInOrder

\* A preempted sequence is behind every sequence that stays.
THEOREM PreemptsYoungest == Spec => PreemptYoungest
  <1>1. SInv /\ [Next]_vars => [YoungestYields]_vars
    BY NextOrder DEF SInv
  <1>2. Spec => [][YoungestYields]_vars
    BY <1>1, SchedulerInvariant, PTL DEF Spec
  <1> QED  BY <1>2 DEF PreemptYoungest, YoungestYields

-----------------------------------------------------------------------------
(* What a request gets *)

Active == { s \in SeqId : status[s] # "FINISHED" }

\* A step that no caller can see.
LEMMA Hidden ==
    ASSUME UNCHANGED << token_ids, num_prompt_tokens, max_tokens, ignore_eos >>,
           Active' = Active
    PROVE  UNCHANGED Generation!gVars
  BY DEF Generation!gVars, Active

LEMMA SubmitStep ==
    ASSUME QInv, NEW s \in SeqId, NEW r \in Requests, add(s, r)
    PROVE  Generation!Next
  <1>1. s \notin Active /\ Active' = Active \cup {s}
    BY DEF Active, add, QInv, TypeOK
  <1>2. Generation!Submit(s, r)
    BY <1>1 DEF add, Generation!Submit, Active
  <1> QED  BY <1>2 DEF Generation!Next

LEMMA EmitStep ==
    ASSUME QInv, NEW t \in Sampled, postprocess(t),
           LET s == scheduled_seqs[post_i]
           IN  num_tokens_to_process[s] > 0 => finished_prefill(s)
    PROVE  Generation!Next
  <1> DEFINE s == scheduled_seqs[post_i]
             done == \/ ~ignore_eos[s] /\ t = eos
                     \/ num_completion_tokens(s) + 1 = max_tokens[s]
  <1>1. s \in SeqId /\ status[s] = "RUNNING"
    BY PostprocessedSequence
  <1>2. num_tokens_to_process[s] > 0 => finished_prefill(s)
    OBVIOUS
  <1>3. /\ token_ids' = [token_ids EXCEPT ![s] = Append(@, t)]
        /\ IF done THEN status' = [status EXCEPT ![s] = "FINISHED"]
                   ELSE status' = status
        /\ UNCHANGED << num_prompt_tokens, max_tokens, ignore_eos >>
    BY <1>2 DEF postprocess, requestVars
  <1>4. done <=> Generation!Ends(s, t)
    <2>1. Len(token_ids[s]) \in Nat /\ num_prompt_tokens[s] \in Nat
      BY <1>1, LenProperties DEF QInv, TypeOK, BMTypeOK
    <2>2. num_completion_tokens(s) + 1 = Len(token_ids[s]) + 1 - num_prompt_tokens[s]
      BY <2>1 DEF num_completion_tokens, len
    <2> QED  BY <2>2 DEF Generation!Ends
  <1>5. Active' = IF done THEN Active \ {s} ELSE Active
    <2>1. status \in [SeqId -> Status]
      BY DEF QInv, TypeOK
    <2> HIDE DEF done
    <2> QED  BY <1>1, <1>3, <2>1 DEF Active
  <1>6. s \in Active
    BY <1>1 DEF Active
  <1>7. Generation!Emit(s, t)
    <2> HIDE DEF done, s
    <2> QED  BY <1>3, <1>4, <1>5, <1>6 DEF Generation!Emit, Active
  <1> QED  BY <1>1, <1>7 DEF Generation!Next

LEMMA HiddenSteps ==
    ASSUME QInv,
           \/ schedule \/ schedule_default \/ run \/ Finish \/ EndStep
           \/ BlockManagerStep \/ UNCHANGED vars
    PROVE  UNCHANGED Generation!gVars
  <1>0. status \in [SeqId -> Status]
    BY DEF QInv, TypeOK
  <1>1. CASE \/ schedule \/ Admit \/ EndAdmission \/ TakeFront
             \/ EndDecode \/ run \/ Finish \/ EndStep \/ UNCHANGED vars
    BY <1>1, Hidden
       DEF schedule, Admit, EndAdmission, TakeFront, EndDecode, run, Finish,
           EndStep, vars, bmVars, seqVars, BeginAllocate, BeginDeallocate,
           Active
  <1>2. CASE ScheduleDecode
    BY <1>2, Hidden DEF ScheduleDecode, may_append, requestVars, Active
  <1>3. CASE Admitted
    <2>1. cur \in SeqId /\ status[cur] = "WAITING"
      BY <1>3, AdmittedSequence DEF Admitted
    <2>2. /\ UNCHANGED << token_ids, requestVars >>
          /\ status' = [status EXCEPT ![cur] = "RUNNING"]
      BY <1>3 DEF Admitted, bmVars
    <2> QED  BY <1>0, <2>1, <2>2, Hidden DEF requestVars, Active
  <1>4. ASSUME NEW v \in SeqId, status[v] = "RUNNING",
               status' = [status EXCEPT ![v] = "WAITING"],
               UNCHANGED << token_ids, requestVars >>
        PROVE  UNCHANGED Generation!gVars
    BY <1>0, <1>4, Hidden DEF requestVars, Active
  <1>5. CASE PreemptVictim
    <2>1. Last(running) \in SeqId /\ status[Last(running)] = "RUNNING"
      <3>1. running # << >> /\ pc = "append"
        BY <1>5 DEF PreemptVictim
      <3>2. running \in Seq(SeqId) /\ InHand \in Seq(SeqId)
        BY QueueTypes DEF QInv
      <3>3. Last(running) \in SeqId
        BY <3>1, <3>2, FrontBeforeLast
      <3>4. ToSet(running) = ToSet(Front(running)) \cup {Last(running)}
        BY <3>1, <3>2, EndElements
      <3>5. ToSet(InHand \o running) = ToSet(InHand) \cup ToSet(running)
        BY <3>2, ConcatElements
      <3> QED  BY <3>1, <3>3, <3>4, <3>5 DEF QInv, QueuesMatchStatus
    <2> QED  BY <1>4, <1>5, <2>1 DEF PreemptVictim, preempt, BeginDeallocate
  <1>6. CASE PreemptSelf
    <2>1. cur \in SeqId /\ status[cur] = "RUNNING"
      BY <1>6, CurInHand DEF QInv, CurOK, PreemptSelf
    <2> QED  BY <1>4, <1>6, <2>1 DEF PreemptSelf, preempt, BeginDeallocate
  <1>7. CASE BlockManagerStep
    <2>1. token_ids' = token_ids
      BY <1>7, BMStepCall DEF QInv, BlockManagerStep
    <2> QED  BY <1>7, <2>1, Hidden DEF BlockManagerStep, seqVars, Active
  <1> QED  BY <1>1, <1>2, <1>3, <1>5, <1>6, <1>7
           DEF schedule_default, DecodeLoop

\* Batches, prefix sharing, preemption and recomputation are invisible: what
\* a request gets is its prompt and then one sampled token at a time, up to
\* the first that ends it.
THEOREM GenerationImplemented == Spec => ImplementsGeneration
  <1>1. Init => Generation!Init
    BY DEF Init, BMInit, Generation!Init
  <1>2. SInv /\ [Next]_vars => [Generation!Next]_(Generation!gVars)
    <2> SUFFICES ASSUME SInv, [Next]_vars
                 PROVE  Generation!Next \/ UNCHANGED Generation!gVars
      OBVIOUS
    <2>q. QInv
      BY DEF SInv
    <2>1. CASE \E s \in SeqId, r \in Requests : add(s, r)
      BY <2>q, <2>1, SubmitStep
    <2>2. CASE \E t \in Sampled : postprocess(t)
      <3>1. PICK t \in Sampled : postprocess(t)
        BY <2>2
      <3>2. LET s == scheduled_seqs[post_i]
            IN  num_tokens_to_process[s] > 0 => finished_prefill(s)
        BY <3>1, ComputesWhole
      <3> QED  BY <2>q, <3>1, <3>2, EmitStep
    <2>3. CASE \/ schedule \/ schedule_default \/ run \/ Finish \/ EndStep
               \/ BlockManagerStep \/ UNCHANGED vars
      BY <2>q, <2>3, HiddenSteps
    <2> QED  BY <2>1, <2>2, <2>3 DEF Next, EngineStep, PostProcess
  <1> QED  BY <1>1, <1>2, SchedulerInvariant, PTL
           DEF Spec, ImplementsGeneration, Generation!Spec

-----------------------------------------------------------------------------
(* The scheduler is a client of the block manager *)

\* Client and Manager are the same module with the same substitution.
LEMMA SameClient ==
    /\ Manager!Init <=> Client!Init
    /\ Manager!Next <=> Client!Next
  <1> USE DEF Manager!kNoHash, Client!kNoHash, Manager!NoCall, Client!NoCall,
              Manager!num_blocks, Client!num_blocks, Manager!block, Client!block,
              Manager!rem, Client!rem
  <1>1. Manager!Init <=> Client!Init
    BY DEF Manager!Init, Client!Init, Manager!BMInit, Client!BMInit,
           Manager!BlockId, Client!BlockId
  <1>2. /\ \A s : Manager!BeginAllocate(s) <=> Client!BeginAllocate(s)
        /\ \A s : Manager!BeginDeallocate(s) <=> Client!BeginDeallocate(s)
    BY DEF Manager!BeginAllocate, Client!BeginAllocate,
           Manager!BeginDeallocate, Client!BeginDeallocate
  <1>3. \A s :
            /\ \A p : Manager!NewRequest(s, p) <=> Client!NewRequest(s, p)
            /\ Manager!Allocate(s) <=> Client!Allocate(s)
            /\ \A t : Manager!append_token(s, t) <=> Client!append_token(s, t)
            /\ Manager!Release(s) <=> Client!Release(s)
    BY <1>2
       DEF Manager!NewRequest, Client!NewRequest, Manager!Allocate,
           Client!Allocate, Manager!can_allocate, Client!can_allocate,
           Manager!append_token, Client!append_token, Manager!Release,
           Client!Release
  <1> USE DEF Manager!RemoveFirst, Client!RemoveFirst, Manager!RemoveAt,
              Client!RemoveAt, Manager!SelectInSeq, Client!SelectInSeq,
              Manager!Min, Client!Min, Manager!Last, Client!Last,
              Manager!compute_hash, Client!compute_hash,
              Manager!update, Client!update, Manager!reset, Client!reset,
              Manager!Index, Client!Index, Manager!TakeFree, Client!TakeFree
  <1>4. \A s : Manager!MayAppend(s) <=> Client!MayAppend(s)
    BY DEF Manager!MayAppend, Client!MayAppend, Manager!can_append,
           Client!can_append, Manager!may_append, Client!may_append,
           Manager!GrowTable, Client!GrowTable, Manager!SealLast,
           Client!SealLast, Manager!KeepFilling, Client!KeepFilling
  <1>5. Manager!BMStep <=> Client!BMStep
    BY DEF Manager!BMStep, Client!BMStep,
           Manager!AllocateHitUsed, Client!AllocateHitUsed,
           Manager!AllocateHitFree, Client!AllocateHitFree,
           Manager!AllocateMiss, Client!AllocateMiss,
           Manager!DeallocateStep, Client!DeallocateStep,
           Manager!EndIteration, Client!EndIteration,
           Manager!CacheHit, Client!CacheHit,
           Manager!LoopHash, Client!LoopHash, Manager!LoopTokens,
           Client!LoopTokens, Manager!LoopIndex, Client!LoopIndex,
           Manager!AddRef, Client!AddRef, Manager!GiveBack, Client!GiveBack
  <1>6. Manager!Next <=> Client!Next
    BY <1>3, <1>4, <1>5 DEF Manager!Next, Client!Next
  <1> QED  BY <1>1, <1>6

\* The scheduler calls the block manager only as its protocol allows: every
\* behaviour of the scheduler is one of the client's.
THEOREM ProtocolKept == Spec => KeepsProtocol
  <1>1. Init => Client!Init
    BY SameClient DEF Init, BMInit, Pending, Client!Init, Client!BMInit,
       Client!BlockId, BlockId, Client!NoCall, NoCall, Client!kNoHash, kNoHash
  <1>2. SInv /\ [Next]_vars => [Client!Next]_(Client!vars)
    <2>1. UNCHANGED Manager!vars => UNCHANGED Client!vars
      BY DEF Manager!vars, Client!vars, Manager!bmVars, Client!bmVars
    <2> QED  BY <2>1, NextClient, SameClient
  <1> QED  BY <1>1, <1>2, SchedulerInvariant, PTL
           DEF Spec, KeepsProtocol, Client!Spec

\* What is proved of every client of the block manager therefore holds under
\* the scheduler: reference counts and the free deque are exact, allocate
\* never finds the deque empty, tables cover their tokens, full blocks are
\* sealed with them, the block being written has one holder, and may_append's
\* asserts hold.
THEOREM BlocksSafe ==
    Spec => [](/\ Manager!RefCountExact /\ Manager!FreeUsedPartition
               /\ Manager!AllocateNeverStarves /\ Manager!TableCovers
               /\ Manager!SealedMatchesTokens /\ Manager!PartialBlockPrivate
               /\ Manager!MayAppendAsserts /\ Manager!CachedWithinTable)
  <1>1. Spec => Manager!Spec
    <2>1. Init => Manager!Init
      BY InitClient
    <2>2. SInv /\ [Next]_vars => [Manager!Next]_(Manager!vars)
      BY NextClient
    <2> QED  BY <2>1, <2>2, SchedulerInvariant, PTL DEF Spec, Manager!Spec
  <1>2. Manager!Spec => /\ []Manager!RefCountExact /\ []Manager!FreeUsedPartition
                        /\ []Manager!AllocateNeverStarves
    BY ManagerAssumptions, Manager!RefCountsExact, Manager!FreeListExact,
       Manager!NeverStarves
  <1>3. Manager!Spec => /\ []Manager!TableCovers /\ []Manager!SealedMatchesTokens
                        /\ []Manager!PartialBlockPrivate
                        /\ []Manager!MayAppendAsserts
                        /\ []Manager!CachedWithinTable
    BY ManagerAssumptions, Manager!TablesCover, Manager!SealedExact,
       Manager!PartialPrivate, Manager!MayAppendAssertsHold,
       Manager!CachedWithin
  <1> QED  BY <1>1, <1>2, <1>3, PTL

-----------------------------------------------------------------------------
(* No batch is empty when every request fits *)

\* A request that has not finished never outgrows what Fits allows it.
LengthOK ==
    \A s \in SeqId : status[s] # "FINISHED" =>
        LET longest == num_prompt_tokens[s] + max_tokens[s] - 1 IN
        /\ len(s) <= longest
        /\ longest <= NumBlocks * BLOCK_SIZE
        /\ longest <= max_num_batched_tokens

\* While nothing is scheduled yet there is something to schedule, and nothing
\* is charged to the budget.
WorkLeft ==
    /\ pc = "admit" => waiting # << >> \/ running # << >>
    /\ pc = "admit" /\ scheduled_seqs = << >> => num_batched_tokens = 0
    /\ pc = "decode" /\ scheduled_seqs = << >> => running # << >>
    /\ pc = "run" => scheduled_seqs # << >>

LEMMA FitTypes ==
    ASSUME TypeOK, NEW s \in SeqId
    PROVE  /\ token_ids[s] \in Seq(Token) /\ len(s) \in Nat
           /\ num_prompt_tokens[s] \in Nat /\ max_tokens[s] \in Nat
           /\ NumBlocks * BLOCK_SIZE \in Int
           /\ max_num_batched_tokens \in Nat
  <1>1. NumBlocks * BLOCK_SIZE \in Int
    BY NumBlocksAssumption, BlockProduct
  <1> QED  BY <1>1, LenProperties, BudgetAssumption DEF TypeOK, BMTypeOK, len

LEMMA LengthKept ==
    ASSUME \A r \in Requests : Fits(r), SInv, LengthOK, [Next]_vars
    PROVE  LengthOK'
  <1>0. TypeOK
    BY DEF SInv, QInv
  <1>1. ASSUME NEW s \in SeqId, NEW r \in Requests, add(s, r)
        PROVE  LengthOK'
    <2>1. /\ r.prompt \in Seq(Token) /\ r.max_tokens \in Nat
          /\ Len(r.prompt) \in Nat
      BY RequestsAssumption, LenProperties
    <2>2. LET longest == Len(r.prompt) + r.max_tokens - 1 IN
          /\ Len(r.prompt) <= longest
          /\ longest <= NumBlocks * BLOCK_SIZE
          /\ longest <= max_num_batched_tokens
      BY <2>1 DEF Fits
    <2>3. /\ token_ids' = [token_ids EXCEPT ![s] = r.prompt]
          /\ num_prompt_tokens' = [num_prompt_tokens EXCEPT ![s] = Len(r.prompt)]
          /\ max_tokens' = [max_tokens EXCEPT ![s] = r.max_tokens]
          /\ status' = [status EXCEPT ![s] = "WAITING"]
      BY <1>1 DEF add
    <2>4. ASSUME NEW u \in SeqId, status'[u] # "FINISHED"
          PROVE  LET longest == num_prompt_tokens'[u] + max_tokens'[u] - 1 IN
                 /\ Len(token_ids'[u]) <= longest
                 /\ longest <= NumBlocks * BLOCK_SIZE
                 /\ longest <= max_num_batched_tokens
      <3>1. CASE u = s
        <4>1. /\ token_ids'[u] = r.prompt
              /\ num_prompt_tokens'[u] = Len(r.prompt)
              /\ max_tokens'[u] = r.max_tokens
          BY <1>0, <2>3, <3>1 DEF TypeOK, BMTypeOK
        <4> QED  BY <2>2, <4>1
      <3>2. CASE u # s
        <4>1. /\ token_ids'[u] = token_ids[u] /\ status'[u] = status[u]
              /\ num_prompt_tokens'[u] = num_prompt_tokens[u]
              /\ max_tokens'[u] = max_tokens[u]
          BY <1>0, <2>3, <3>2 DEF TypeOK, BMTypeOK
        <4> QED  BY <2>4, <4>1 DEF LengthOK, len
      <3> QED  BY <3>1, <3>2
    <2> QED  BY <2>4 DEF LengthOK, len
  <1>2. ASSUME NEW t \in Sampled, postprocess(t)
        PROVE  LengthOK'
    <2> DEFINE s == scheduled_seqs[post_i]
    <2>1. s \in SeqId /\ status[s] = "RUNNING"
      BY <1>2, PostprocessedSequence DEF SInv
    <2>2. /\ UNCHANGED << num_prompt_tokens, max_tokens >>
          /\ token_ids' \in {token_ids, [token_ids EXCEPT ![s] = Append(@, t)]}
          /\ \/ status' = [status EXCEPT ![s] = "FINISHED"]
             \/ token_ids' = token_ids /\ status' = status
             \/ num_completion_tokens(s) + 1 # max_tokens[s] /\ status' = status
      BY <1>2 DEF postprocess, requestVars
    <2>3. ASSUME NEW u \in SeqId, status'[u] # "FINISHED"
          PROVE  LET longest == num_prompt_tokens'[u] + max_tokens'[u] - 1 IN
                 /\ Len(token_ids'[u]) <= longest
                 /\ longest <= NumBlocks * BLOCK_SIZE
                 /\ longest <= max_num_batched_tokens
      <3>0. /\ status[u] # "FINISHED"
            /\ u = s => status' = status
        BY <1>0, <2>1, <2>2, <2>3 DEF TypeOK
      <3>1. LET longest == num_prompt_tokens[u] + max_tokens[u] - 1 IN
            /\ len(u) <= longest
            /\ longest <= NumBlocks * BLOCK_SIZE
            /\ longest <= max_num_batched_tokens
        BY <3>0 DEF LengthOK
      <3>2. CASE u # s \/ token_ids' = token_ids
        <4>1. token_ids'[u] = token_ids[u]
          BY <1>0, <2>2, <3>2 DEF TypeOK, BMTypeOK
        <4> QED  BY <2>2, <3>1, <4>1 DEF len
      <3>3. CASE u = s /\ token_ids' # token_ids
        <4>1. num_completion_tokens(u) + 1 # max_tokens[u]
          <5>1. status' # [status EXCEPT ![s] = "FINISHED"]
            BY <1>0, <2>1, <2>3, <3>3 DEF TypeOK
          <5> QED  BY <2>2, <3>3, <5>1
        <4>2. Len(token_ids'[u]) = len(u) + 1
          <5>1. token_ids'[u] = Append(token_ids[u], t)
            BY <1>0, <2>1, <2>2, <3>3 DEF TypeOK, BMTypeOK
          <5>2. t \in Token /\ token_ids[u] \in Seq(Token)
            BY <1>0, SampledAssumption, FitTypes
          <5> QED  BY <5>1, <5>2, AppendProperties DEF len
        <4>3. /\ len(u) \in Nat /\ num_prompt_tokens[u] \in Nat
              /\ max_tokens[u] \in Nat
          BY <1>0, FitTypes
        <4>4. len(u) + 1 <= num_prompt_tokens[u] + max_tokens[u] - 1
          BY <3>1, <4>1, <4>3 DEF num_completion_tokens
        <4> QED  BY <2>2, <3>1, <4>2, <4>4
      <3> QED  BY <3>2, <3>3
    <2> QED  BY <2>3 DEF LengthOK, len
  <1>3. CASE \/ schedule \/ schedule_default \/ run \/ Finish \/ EndStep
             \/ BlockManagerStep \/ UNCHANGED vars
    <2>1. UNCHANGED Generation!gVars
      BY <1>3, HiddenSteps DEF SInv
    <2>2. UNCHANGED << token_ids, num_prompt_tokens, max_tokens >>
          /\ Active' = Active
      BY <2>1 DEF Generation!gVars, Active
    <2>3. \A u \in SeqId : status'[u] # "FINISHED" <=> status[u] # "FINISHED"
      BY <2>2 DEF Active
    <2> QED  BY <2>2, <2>3 DEF LengthOK, len
  <1> QED  BY <1>1, <1>2, <1>3 DEF Next, EngineStep, PostProcess

\* A sequence that does not exceed the pool has no more blocks than it.
LEMMA BlocksWithinPool ==
    ASSUME NEW q \in Seq(Token), Len(q) <= NumBlocks * BLOCK_SIZE
    PROVE  num_blocks(q) <= NumBlocks
  <1>1. NumBlocks \in Int /\ NumBlocks * BLOCK_SIZE \in Int
    BY NumBlocksAssumption, BlockProduct
  <1>2. /\ num_blocks(q) \in Nat
        /\ NumBlocks < num_blocks(q) <=> NumBlocks * BLOCK_SIZE < Len(q)
    BY <1>1, NumBlocksCeil
  <1>3. Len(q) \in Nat
    BY LenProperties
  <1> QED  BY <1>1, <1>2, <1>3

\* When nothing runs the first of the queue can be admitted.
LEMMA HeadAdmitted ==
    ASSUME SInv, LengthOK, WorkLeft, pc = "admit",
           scheduled_seqs = << >>, running = << >>
    PROVE  CanAdmit
  <1> DEFINE h == Head(waiting)
  <1>0. TypeOK /\ waiting \in Seq(SeqId) /\ call = NoCall
    BY QuietCall DEF SInv, QInv, TypeOK
  <1>1. waiting # << >> /\ num_batched_tokens = 0
    BY DEF WorkLeft
  <1>2. h \in SeqId /\ status[h] = "WAITING"
    <2>1. h \in SeqId
      BY <1>0, <1>1, HeadBeforeTail
    <2>2. ToSet(waiting) = {h} \cup ToSet(Tail(waiting))
      BY <1>0, <1>1, EndElements
    <2> QED  BY <2>1, <2>2 DEF SInv, QInv, QueuesMatchStatus
  <1>3. num_seqs < max_num_seqs
    <2>1. num_seqs = Len(scheduled_seqs) /\ Len(scheduled_seqs) = 0
      BY DEF SInv, QInv, CountOK
    <2> QED  BY <2>1, BudgetAssumption
  <1>4. /\ token_ids[h] \in Seq(Token) /\ len(h) \in Nat
        /\ len(h) <= max_num_batched_tokens
        /\ len(h) <= NumBlocks * BLOCK_SIZE
    <2>1. /\ token_ids[h] \in Seq(Token) /\ len(h) \in Nat
          /\ num_prompt_tokens[h] \in Nat /\ max_tokens[h] \in Nat
          /\ NumBlocks * BLOCK_SIZE \in Int
          /\ max_num_batched_tokens \in Nat
      BY <1>0, <1>2, FitTypes
    <2>2. LET longest == num_prompt_tokens[h] + max_tokens[h] - 1 IN
          /\ len(h) <= longest
          /\ longest <= NumBlocks * BLOCK_SIZE
          /\ longest <= max_num_batched_tokens
      BY <1>2 DEF LengthOK
    <2> QED  BY <2>1, <2>2
  <1>5. can_allocate(h)
    <2>1. \A s \in SeqId : block_table[s] = << >>
      <3>1. InHand \o running = << >>
        <4>1. << >> \o << >> = << >>
          OBVIOUS
        <4> QED  BY <4>1 DEF InHand
      <3>2. \A s \in SeqId : status[s] # "RUNNING"
        BY <3>1, EmptyElements DEF SInv, QInv, QueuesMatchStatus
      <3> QED  BY <1>0, <3>2, QuietTables DEF SInv, QInv
    <2>2. Len(free_block_ids) = NumBlocks
      BY <2>1, ManagerAssumptions, Manager!AllBlocksFree DEF SInv, QInv
    <2>3. num_blocks(token_ids[h]) <= NumBlocks
      BY <1>4, BlocksWithinPool DEF len
    <2> QED  BY <2>2, <2>3 DEF can_allocate
  <1>6. num_batched_tokens + len(h) <= max_num_batched_tokens
    BY <1>1, <1>4
  <1> QED  BY <1>1, <1>3, <1>5, <1>6 DEF CanAdmit

\* A sequence that is alone with its blocks can append.
LEMMA AloneAppends ==
    ASSUME SInv, LengthOK, pc = "append", call = NoCall,
           scheduled_seqs = << >>, running = << >>
    PROVE  can_append(cur)
  <1>0. TypeOK /\ cur \in SeqId
    BY DEF SInv, QInv, CurOK
  <1>1. status[cur] = "RUNNING"
    BY <1>0, CurInHand DEF SInv, QInv
  <1>2. \A s \in SeqId : s # cur => block_table[s] = << >>
    <2>1. InHand \o running = << cur >>
      <3>1. InHand = << cur >>
        <4>1. InHand = Append(<< >>, cur)
          BY DEF InHand
        <4> QED  BY <4>1
      <3>2. << cur >> \o << >> = << cur >>
        OBVIOUS
      <3> QED  BY <3>1, <3>2
    <2>2. ToSet(InHand \o running) = {cur}
      BY <1>0, <2>1, Singleton
    <2>3. \A s \in SeqId : s # cur => status[s] # "RUNNING"
      BY <2>2 DEF SInv, QInv, QueuesMatchStatus
    <2> QED  BY <1>0, <2>3, QuietTables DEF SInv, QInv
  <1>3. Pending[cur]
    <2>1. block_table[cur] # << >>
      BY <1>0, <1>1, QuietTables DEF SInv, QInv
    <2>2. call.seq # cur
      BY <1>0, SeqIdAssumption DEF NoCall
    <2>3. Unrun = {}
      BY EmptyElements DEF Unrun
    <2> QED  BY <1>0, <2>1, <2>2, <2>3 DEF Pending
  <1> SUFFICES ASSUME ~can_append(cur)
               PROVE  FALSE
    OBVIOUS
  <1>4. rem(cur) = 1 /\ free_block_ids = << >>
    <2>1. free_block_ids \in Seq(BlockId) /\ Len(free_block_ids) \in Nat
      BY <1>0, LenProperties DEF TypeOK, BMTypeOK
    <2>2. rem(cur) = 1 /\ Len(free_block_ids) = 0
      BY <2>1 DEF can_append
    <2> QED  BY <2>1, <2>2, EmptySeq
  <1> DEFINE n == Len(block_table[cur])
             l == len(cur)
  <1>5. n \in Nat /\ NumBlocks <= n
    <2>1. call = Manager!NoCall
      BY SameOperators
    <2>2. Manager!IInv
      BY DEF SInv, QInv
    <2>3. NumBlocks <= n
      BY <1>0, <1>2, <1>4, <2>1, <2>2, ManagerAssumptions, Manager!TableHoldsAll
    <2> QED  BY <1>0, <2>3, LenProperties DEF TypeOK, BMTypeOK
  <1>6. l = n * BLOCK_SIZE + 1
    <2>1. call = Manager!NoCall
      BY SameOperators
    <2>2. Manager!IInv /\ Manager!ContentInv
      BY DEF SInv, QInv
    <2>3. /\ l = Manager!Covered(cur) + 1
          /\ Manager!rem(cur) = 1 <=> Manager!Covered(cur) = n * BLOCK_SIZE
      BY <1>0, <1>3, <2>1, <2>2, ManagerAssumptions, Manager!PendingTable DEF len
    <2> QED  BY <1>4, <2>3, SameBlockOperators
  <1>7. /\ l \in Nat /\ l <= NumBlocks * BLOCK_SIZE
        /\ NumBlocks * BLOCK_SIZE \in Int
    <2>1. /\ l \in Nat
          /\ num_prompt_tokens[cur] \in Nat /\ max_tokens[cur] \in Nat
          /\ NumBlocks * BLOCK_SIZE \in Int
      BY <1>0, FitTypes
    <2>2. LET longest == num_prompt_tokens[cur] + max_tokens[cur] - 1 IN
          l <= longest /\ longest <= NumBlocks * BLOCK_SIZE
      BY <1>0, <1>1 DEF LengthOK
    <2> HIDE DEF l
    <2> QED  BY <2>1, <2>2
  <1>8. n * BLOCK_SIZE \in Int /\ NumBlocks * BLOCK_SIZE <= n * BLOCK_SIZE
    <2> HIDE DEF n
    <2> QED  BY <1>5, NumBlocksAssumption, BlockMultiples
  <1> HIDE DEF n, l
  <1> QED  BY <1>6, <1>7, <1>8

LEMMA WorkLeftKept ==
    ASSUME SInv, LengthOK, WorkLeft, [Next]_vars
    PROVE  WorkLeft'
  <1>0. TypeOK /\ scheduled_seqs \in Seq(SeqId) /\ running \in Seq(SeqId)
    BY DEF SInv, QInv, TypeOK
  <1>1. CASE \E s \in SeqId, r \in Requests : add(s, r)
    BY <1>1 DEF add, localVars, WorkLeft
  <1>2. CASE schedule
    BY <1>2 DEF schedule, is_finished, queueVars, WorkLeft
  <1>3. CASE Admit \/ TakeFront
    BY <1>3 DEF Admit, TakeFront, WorkLeft
  <1>4. CASE Admitted
    <2>1. /\ pc' = "admit" /\ cur \in SeqId
          /\ running' = Append(running, cur)
          /\ scheduled_seqs' = Append(scheduled_seqs, cur)
      BY <1>4 DEF Admitted, SInv, QInv, CurOK
    <2>2. running' # << >> /\ scheduled_seqs' # << >>
      BY <1>0, <2>1, AppendNonempty
    <2> QED  BY <2>1, <2>2 DEF WorkLeft
  <1>5. CASE EndAdmission
    <2>1. /\ pc = "admit" /\ ~CanAdmit
          /\ UNCHANGED << waiting, running, scheduled_seqs >>
          /\ \/ scheduled_seqs # << >> /\ pc' = "run"
             \/ scheduled_seqs = << >> /\ pc' = "decode"
      BY <1>5 DEF EndAdmission, queueVars
    <2>2. scheduled_seqs = << >> => running # << >>
      BY <2>1, HeadAdmitted
    <2> QED  BY <2>1, <2>2 DEF WorkLeft
  <1>6. CASE PreemptVictim
    BY <1>6 DEF PreemptVictim, localVars, WorkLeft
  <1>7. CASE PreemptSelf
    <2>1. /\ pc = "append" /\ call = NoCall /\ ~can_append(cur) /\ running = << >>
          /\ pc' = "decode" /\ scheduled_seqs' = scheduled_seqs
      BY <1>7 DEF PreemptSelf
    <2>2. scheduled_seqs # << >>
      BY <2>1, AloneAppends
    <2> QED  BY <2>1, <2>2 DEF WorkLeft
  <1>8. CASE ScheduleDecode
    <2>1. /\ pc' = "decode" /\ scheduled_seqs' = Append(scheduled_seqs, cur)
      BY <1>8 DEF ScheduleDecode
    <2>2. scheduled_seqs' # << >>
      BY <1>0, <2>1, AppendNonempty
    <2> QED  BY <2>1, <2>2 DEF WorkLeft
  <1>9. CASE EndDecode
    <2>1. /\ pc = "decode" /\ pc' = "run" /\ UNCHANGED scheduled_seqs
          /\ running = << >> \/ num_seqs >= max_num_seqs
      BY <1>9 DEF EndDecode
    <2>2. scheduled_seqs # << >>
      <3>1. num_seqs = Len(scheduled_seqs)
        BY <2>1 DEF SInv, QInv, CountOK
      <3>2. scheduled_seqs = << >> => Len(scheduled_seqs) = 0
        OBVIOUS
      <3>3. max_num_seqs \in Nat /\ max_num_seqs >= 1
        BY BudgetAssumption
      <3> QED  BY <2>1, <3>1, <3>2, <3>3 DEF WorkLeft
    <2> QED  BY <2>1, <2>2 DEF WorkLeft
  <1>10. CASE \/ run \/ Finish \/ EndStep \/ \E t \in Sampled : postprocess(t)
    <2>1. pc' \in {"post", "finish", "idle"}
      BY <1>10 DEF run, Finish, EndStep, postprocess
    <2> QED  BY <2>1 DEF WorkLeft
  <1>11. CASE BlockManagerStep \/ UNCHANGED vars
    BY <1>11 DEF BlockManagerStep, vars, queueVars, localVars, WorkLeft
  <1> QED  BY <1>1, <1>2, <1>3, <1>4, <1>5, <1>6, <1>7, <1>8, <1>9, <1>10, <1>11
           DEF Next, EngineStep, schedule_default, DecodeLoop, PostProcess

\* When every request fits alone in the pool and in a step's budget, schedule
\* never returns an empty batch: the first of the queue can always be admitted
\* once nothing runs, and a sequence never has to preempt itself while it is
\* the only one left.  (With one that does not, SchedulerOversized.cfg shows an
\* empty batch.)
THEOREM BatchesNotEmpty ==
    ASSUME \A r \in Requests : Fits(r)
    PROVE  Spec => []BatchNotEmpty
  <1>1. Init => LengthOK /\ WorkLeft
    BY DEF Init, LengthOK, WorkLeft
  <1>2. SInv /\ LengthOK /\ WorkLeft /\ [Next]_vars => LengthOK' /\ WorkLeft'
    BY LengthKept, WorkLeftKept
  <1>3. WorkLeft => BatchNotEmpty
    BY DEF WorkLeft, BatchNotEmpty
  <1> QED  BY <1>1, <1>2, <1>3, SchedulerInvariant, PTL DEF Spec
=============================================================================
