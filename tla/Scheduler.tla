------------------------------ MODULE Scheduler ------------------------------
(***************************************************************************)
(* The continuous-batching scheduler (class Scheduler, default path) and   *)
(* the engine step that drives it: schedule a prefill or a decode batch,   *)
(* run the model, postprocess the sampled tokens.  Each loop iteration of  *)
(* schedule_default and postprocess is one action; `pc` says which comes   *)
(* next, and the block manager's own loops run to their end in between.    *)
(* Requests arrive between steps.  The model is external: it may sample    *)
(* any token of Sampled.                                                   *)
(***************************************************************************)
EXTENDS BlockManager

CONSTANTS Requests,               \* what a request may ask for
          Sampled,                \* the tokens the model may sample
          eos,                    \* eos_
          max_num_seqs,           \* max_num_seqs_
          max_num_batched_tokens  \* max_num_batched_tokens_

ASSUME RequestsAssumption ==
    Requests \subseteq [prompt : Seq(Token) \ {<< >>}, max_tokens : Nat,
                        ignore_eos : BOOLEAN]
ASSUME SampledAssumption == Sampled \subseteq Token
ASSUME BudgetAssumption ==
    max_num_seqs \in Nat \ {0} /\ max_num_batched_tokens \in Nat \ {0}

VARIABLES
    status,                 \* Sequence::status; FINISHED when not in use
    num_prompt_tokens,      \* Sequence::num_prompt_tokens
    max_tokens,             \* Sequence::max_tokens
    ignore_eos,             \* Sequence::ignore_eos
    num_computed_tokens,    \* Sequence::num_computed_tokens
    num_tokens_to_process,  \* Sequence::num_tokens_to_process
    waiting,                \* waiting_
    running,                \* running_
    scheduled_seqs,         \* the batch of the current step
    is_prefill,             \* its kind
    num_seqs,               \* locals of schedule_default
    num_batched_tokens,
    cur,                    \* `seq` of the loop being executed
    post_i,                 \* `i` of postprocess, from 1
    pc

seqVars == << status, num_prompt_tokens, max_tokens, ignore_eos,
              num_computed_tokens, num_tokens_to_process >>
requestVars == << num_prompt_tokens, max_tokens, ignore_eos >>
queueVars == << waiting, running, scheduled_seqs >>
localVars == << is_prefill, num_seqs, num_batched_tokens, cur, post_i, pc >>
vars == << bmVars, seqVars, queueVars, localVars >>

Status == {"WAITING", "RUNNING", "FINISHED"}
PC == {"idle", "admit", "admitted", "decode", "append", "run", "post",
       "finish"}

TypeOK ==
    /\ BMTypeOK
    /\ status \in [SeqId -> Status]
    /\ num_prompt_tokens \in [SeqId -> Nat]
    /\ max_tokens \in [SeqId -> Nat]
    /\ ignore_eos \in [SeqId -> BOOLEAN]
    /\ num_computed_tokens \in [SeqId -> Nat]
    /\ num_tokens_to_process \in [SeqId -> Nat]
    /\ waiting \in Seq(SeqId)
    /\ running \in Seq(SeqId)
    /\ scheduled_seqs \in Seq(SeqId)
    /\ is_prefill \in BOOLEAN
    /\ num_seqs \in Nat
    /\ num_batched_tokens \in Nat
    /\ cur \in SeqId \cup {NoSeq}
    /\ post_i \in Nat
    /\ pc \in PC

Init ==
    /\ BMInit
    /\ status = [s \in SeqId |-> "FINISHED"]
    /\ num_prompt_tokens = [s \in SeqId |-> 0]
    /\ max_tokens = [s \in SeqId |-> 0]
    /\ ignore_eos = [s \in SeqId |-> FALSE]
    /\ num_computed_tokens = [s \in SeqId |-> 0]
    /\ num_tokens_to_process = [s \in SeqId |-> 0]
    /\ waiting = << >>
    /\ running = << >>
    /\ scheduled_seqs = << >>
    /\ is_prefill = FALSE
    /\ num_seqs = 0
    /\ num_batched_tokens = 0
    /\ cur = NoSeq
    /\ post_i = 0
    /\ pc = "idle"

len(s) == Len(token_ids[s])

\* Fault: the prompt counts as generated.
num_completion_tokensWithPrompt(s) == len(s)

num_completion_tokens(s) == len(s) - num_prompt_tokens[s]

-----------------------------------------------------------------------------
(* The caller, between steps *)

\* add_request: a new Sequence object at the back of waiting_.
add(s, r) ==
    /\ pc = "idle"
    /\ status[s] = "FINISHED"
    /\ token_ids' = [token_ids EXCEPT ![s] = r.prompt]
    /\ num_prompt_tokens' = [num_prompt_tokens EXCEPT ![s] = Len(r.prompt)]
    /\ max_tokens' = [max_tokens EXCEPT ![s] = r.max_tokens]
    /\ ignore_eos' = [ignore_eos EXCEPT ![s] = r.ignore_eos]
    /\ num_computed_tokens' = [num_computed_tokens EXCEPT ![s] = 0]
    /\ num_tokens_to_process' = [num_tokens_to_process EXCEPT ![s] = 0]
    /\ status' = [status EXCEPT ![s] = "WAITING"]
    /\ waiting' = Append(waiting, s)
    /\ UNCHANGED << blocks, free_block_ids, used_block_ids, hash_to_block_id,
                    block_table, num_cached_tokens, call,
                    running, scheduled_seqs, localVars >>

is_finished == waiting = << >> /\ running = << >>

\* The engine calls schedule() while there is a request.
schedule ==
    /\ pc = "idle"
    /\ ~is_finished
    /\ pc' = "admit"
    /\ num_seqs' = 0
    /\ num_batched_tokens' = 0
    /\ UNCHANGED << bmVars, seqVars, queueVars, is_prefill, cur, post_i >>

-----------------------------------------------------------------------------
(* schedule_default: admit from waiting_ *)

\* Fault: the number of sequences is not checked.
CanAdmitAnyNumber ==
    /\ waiting # << >>
    /\ num_batched_tokens + len(Head(waiting)) <= max_num_batched_tokens
    /\ can_allocate(Head(waiting))

\* The condition of the admission loop and of its break.
CanAdmit ==
    /\ waiting # << >>
    /\ num_seqs < max_num_seqs
    /\ num_batched_tokens + len(Head(waiting)) <= max_num_batched_tokens
    /\ can_allocate(Head(waiting))

Admit ==
    /\ pc = "admit"
    /\ CanAdmit
    /\ BeginAllocate(Head(waiting))
    /\ num_seqs' = num_seqs + 1
    /\ cur' = Head(waiting)
    /\ pc' = "admitted"
    /\ UNCHANGED << seqVars, queueVars, is_prefill, num_batched_tokens,
                    post_i >>

\* Fault: a fully cached sequence has nothing left to compute.
ComputedWhenCached(s) == num_cached_tokens[s]

\* The tokens of an admitted sequence that need no computing: what the cache
\* holds, short of the last token.
ComputedAtAdmission(s) ==
    IF num_cached_tokens[s] < len(s) - 1
    THEN num_cached_tokens[s] ELSE len(s) - 1

\* After allocate returned.
Admitted ==
    LET computed == ComputedAtAdmission(cur) IN
    /\ pc = "admitted"
    /\ call = NoCall
    /\ num_batched_tokens' =
           num_batched_tokens + len(cur) - num_cached_tokens[cur]
    /\ num_computed_tokens' = [num_computed_tokens EXCEPT ![cur] = computed]
    /\ num_tokens_to_process' =
           [num_tokens_to_process EXCEPT ![cur] = len(cur) - computed]
    /\ status' = [status EXCEPT ![cur] = "RUNNING"]
    /\ waiting' = Tail(waiting)
    /\ running' = Append(running, cur)
    /\ scheduled_seqs' = Append(scheduled_seqs, cur)
    /\ cur' = NoSeq
    /\ pc' = "admit"
    /\ UNCHANGED << bmVars, requestVars, is_prefill, num_seqs, post_i >>

\* Anything admitted makes the step a prefill step; otherwise it decodes.
EndAdmission ==
    /\ pc = "admit"
    /\ ~CanAdmit
    /\ IF scheduled_seqs # << >>
       THEN is_prefill' = TRUE /\ pc' = "run"
       ELSE pc' = "decode" /\ UNCHANGED is_prefill
    /\ UNCHANGED << bmVars, seqVars, queueVars, num_seqs, num_batched_tokens,
                    cur, post_i >>

-----------------------------------------------------------------------------
(* schedule_default: the decode loop *)

TakeFront ==
    /\ pc = "decode"
    /\ call = NoCall
    /\ running # << >>
    /\ num_seqs < max_num_seqs
    /\ cur' = Head(running)
    /\ running' = Tail(running)
    /\ pc' = "append"
    /\ UNCHANGED << bmVars, seqVars, waiting, scheduled_seqs, is_prefill,
                    num_seqs, num_batched_tokens, post_i >>

\* Faults in preempt: the sequence is lost, keeps its blocks, or is queued
\* behind the newcomers.
preemptLost(s) ==
    /\ status' = [status EXCEPT ![s] = "WAITING"]
    /\ BeginDeallocate(s)
    /\ UNCHANGED waiting

preemptKeepingBlocks(s) ==
    /\ status' = [status EXCEPT ![s] = "WAITING"]
    /\ waiting' = << s >> \o waiting
    /\ UNCHANGED bmVars

preemptToBack(s) ==
    /\ status' = [status EXCEPT ![s] = "WAITING"]
    /\ BeginDeallocate(s)
    /\ waiting' = Append(waiting, s)

\* Release the blocks and go back to the front of waiting_, tokens kept.
preempt(s) ==
    /\ status' = [status EXCEPT ![s] = "WAITING"]
    /\ BeginDeallocate(s)
    /\ waiting' = << s >> \o waiting

\* Fault: the oldest running sequence gives way.
PreemptOldest ==
    /\ pc = "append"
    /\ call = NoCall
    /\ ~can_append(cur)
    /\ running # << >>
    /\ preempt(Head(running))
    /\ running' = Tail(running)
    /\ UNCHANGED << requestVars, num_computed_tokens, num_tokens_to_process,
                    scheduled_seqs, localVars >>

\* Out of blocks: the youngest running sequence gives way.
PreemptVictim ==
    /\ pc = "append"
    /\ call = NoCall
    /\ ~can_append(cur)
    /\ running # << >>
    /\ preempt(Last(running))
    /\ running' = Front(running)
    /\ UNCHANGED << requestVars, num_computed_tokens, num_tokens_to_process,
                    scheduled_seqs, localVars >>

\* Nobody is left to give way but the sequence itself.
PreemptSelf ==
    /\ pc = "append"
    /\ call = NoCall
    /\ ~can_append(cur)
    /\ running = << >>
    /\ preempt(cur)
    /\ cur' = NoSeq
    /\ pc' = "decode"
    /\ UNCHANGED << requestVars, num_computed_tokens, num_tokens_to_process,
                    running, scheduled_seqs, is_prefill, num_seqs,
                    num_batched_tokens, post_i >>

ScheduleDecode ==
    /\ pc = "append"
    /\ can_append(cur)
    /\ may_append(cur)
    /\ num_seqs' = num_seqs + 1
    /\ num_tokens_to_process' = [num_tokens_to_process EXCEPT ![cur] = 0]
    /\ scheduled_seqs' = Append(scheduled_seqs, cur)
    /\ cur' = NoSeq
    /\ pc' = "decode"
    /\ UNCHANGED << status, requestVars, num_computed_tokens, waiting,
                    running, is_prefill, num_batched_tokens, post_i >>

\* Fault: the batch never goes back to running_.
EndDecodeDropped ==
    /\ pc = "decode"
    /\ call = NoCall
    /\ running = << >> \/ num_seqs >= max_num_seqs
    /\ is_prefill' = FALSE
    /\ pc' = "run"
    /\ UNCHANGED << bmVars, seqVars, queueVars, num_seqs, num_batched_tokens,
                    cur, post_i >>

\* The batch goes back to the front of running_, in its order.
EndDecode ==
    /\ pc = "decode"
    /\ call = NoCall
    /\ running = << >> \/ num_seqs >= max_num_seqs
    /\ running' = scheduled_seqs \o running
    /\ is_prefill' = FALSE
    /\ pc' = "run"
    /\ UNCHANGED << bmVars, seqVars, waiting, scheduled_seqs, num_seqs,
                    num_batched_tokens, cur, post_i >>

-----------------------------------------------------------------------------
(* The rest of LLMEngine::step *)

\* ModelRunner::run computes the batch and returns one token per sequence
\* (none for an empty batch).
run ==
    /\ pc = "run"
    /\ post_i' = 1
    /\ pc' = "post"
    /\ UNCHANGED << bmVars, seqVars, queueVars, is_prefill, num_seqs,
                    num_batched_tokens, cur >>

new_computed(s) == num_computed_tokens[s] + num_tokens_to_process[s]

\* Fault: the last token is forgotten.
finished_prefillOneShort(s) == new_computed(s) >= len(s) - 1

finished_prefill(s) == new_computed(s) = len(s)

\* One iteration of postprocess for the token sampled for seqs[i].  In the
\* middle of a chunked prefill the token means nothing and is dropped.
postprocess(t) ==
    LET s == scheduled_seqs[post_i]
        kept == num_tokens_to_process[s] > 0 => finished_prefill(s)
        done == \/ ~ignore_eos[s] /\ t = eos
                \/ num_completion_tokens(s) + 1 = max_tokens[s]
    IN
    /\ pc = "post"
    /\ call = NoCall
    /\ post_i <= Len(scheduled_seqs)
    /\ num_computed_tokens' = [num_computed_tokens EXCEPT ![s] = new_computed(s)]
    /\ num_tokens_to_process' = [num_tokens_to_process EXCEPT ![s] = 0]
    /\ token_ids' = IF kept THEN [token_ids EXCEPT ![s] = Append(@, t)]
                    ELSE token_ids
    /\ post_i' = post_i + 1
    /\ IF kept /\ done
       THEN /\ status' = [status EXCEPT ![s] = "FINISHED"]
            /\ cur' = s
            /\ pc' = "finish"
       ELSE UNCHANGED << status, cur, pc >>
    /\ UNCHANGED << blocks, free_block_ids, used_block_ids, hash_to_block_id,
                    block_table, num_cached_tokens, call, requestVars,
                    queueVars, is_prefill, num_seqs, num_batched_tokens >>

\* The finished sequence gives its blocks back and leaves running_.
Finish ==
    /\ pc = "finish"
    /\ BeginDeallocate(cur)
    /\ running' = RemoveFirst(running, cur)
    /\ cur' = NoSeq
    /\ pc' = "post"
    /\ UNCHANGED << seqVars, waiting, scheduled_seqs, is_prefill, num_seqs,
                    num_batched_tokens, post_i >>

EndStep ==
    /\ pc = "post"
    /\ call = NoCall
    /\ post_i > Len(scheduled_seqs)
    /\ scheduled_seqs' = << >>
    /\ post_i' = 0
    /\ pc' = "idle"
    /\ UNCHANGED << bmVars, seqVars, waiting, running, is_prefill, num_seqs,
                    num_batched_tokens, cur >>

-----------------------------------------------------------------------------
DecodeLoop ==
    TakeFront \/ PreemptVictim \/ PreemptSelf \/ ScheduleDecode \/ EndDecode

schedule_default == Admit \/ Admitted \/ EndAdmission \/ DecodeLoop

PostProcess ==
    \/ \E t \in Sampled : postprocess(t)
    \/ Finish \/ EndStep

BlockManagerStep == BMStep /\ UNCHANGED << seqVars, queueVars, localVars >>

EngineStep ==
    \/ schedule
    \/ schedule_default
    \/ run
    \/ PostProcess
    \/ BlockManagerStep

Next ==
    \/ \E s \in SeqId, r \in Requests : add(s, r)
    \/ EngineStep

Spec == Init /\ [][Next]_vars

\* generate_stream calls step() as long as is_finished() is false.
FairSpec == Spec /\ WF_vars(EngineStep)

-----------------------------------------------------------------------------
(* Safety *)

\* The sequences that are in the hands of the step: taken from running_ by
\* the decode loop, not yet given back.
InHand == CASE pc = "decode" -> scheduled_seqs
            [] pc = "append" -> Append(scheduled_seqs, cur)
            [] OTHER -> << >>

\* All live requests in the order the scheduler serves them.
ServiceOrder == InHand \o running \o waiting

\* Every unfinished request is in exactly one place, once: waiting_ if it is
\* WAITING, running_ or the batch being built if it is RUNNING, and no queue
\* keeps a finished one, which postprocess must have found in running_
\* (docs/scheduler.html, key invariants 7.2-7.4).
QueuesMatchStatus ==
    /\ IsInjective(ServiceOrder)
    /\ ToSet(waiting) = { s \in SeqId : status[s] = "WAITING" }
    /\ ToSet(InHand \o running) =
           { s \in SeqId : \/ status[s] = "RUNNING"
                           \/ pc = "finish" /\ s = cur }

\* Exactly the running sequences hold blocks: a waiting or finished one has
\* given them all back, once the call that does so has returned (no block
\* leaks through preemption or completion).
TablesMatchStatus ==
    call = NoCall =>
        \A s \in SeqId :
            block_table[s] # << >> <=>
                \/ status[s] = "RUNNING"
                \/ pc \in {"admitted", "finish"} /\ s = cur

\* assert(!scheduled_seqs.empty()), scheduler.cpp:96: schedule() never
\* returns an empty batch while there are requests.
BatchNotEmpty == pc = "run" => scheduled_seqs # << >>

\* A batch is of one kind and within max_num_seqs, it runs only RUNNING
\* sequences that still have their table, and each of them once: none was
\* preempted after it was scheduled (docs/scheduler.html 7.1, 7.3).
BatchIsRunnable ==
    pc = "run" =>
        /\ Len(scheduled_seqs) <= max_num_seqs
        /\ IsInjective(scheduled_seqs)
        /\ \A s \in ToSet(scheduled_seqs) :
               /\ status[s] = "RUNNING"
               /\ Len(block_table[s]) = num_blocks(token_ids[s])
               /\ is_prefill <=> num_tokens_to_process[s] > 0

\* A prefill on this path computes every token the cache does not hold, and
\* at least one: what is computed and what is to be processed make up the
\* whole sequence, even one that comes back after a preemption.
SingleChunk ==
    pc = "run" /\ is_prefill =>
        \A s \in ToSet(scheduled_seqs) :
            /\ num_tokens_to_process[s] >= 1
            /\ num_computed_tokens[s] + num_tokens_to_process[s] = len(s)
            /\ num_computed_tokens[s] <= num_cached_tokens[s]

\* First come, first served, through every admission, decode and preemption:
\* the service order only ever changes by a request arriving at its back and
\* by one that finished leaving it.
FirstComeFirstServed ==
    [][\/ ServiceOrder' = ServiceOrder
       \/ \E s \in SeqId : status[s] = "FINISHED"
                           /\ ServiceOrder' = Append(ServiceOrder, s)
       \/ \E s \in SeqId : status'[s] = "FINISHED"
                           /\ ServiceOrder' = RemoveFirst(ServiceOrder, s)]_vars

\* Preemption takes the youngest running sequence, and never one that is in
\* the batch already (docs/scheduler.html section 4).
PreemptYoungest ==
    [][\A s \in SeqId : status[s] = "RUNNING" /\ status'[s] = "WAITING" =>
           \A t \in SeqId : status'[t] = "RUNNING" =>
               \E i, j \in DOMAIN ServiceOrder :
                   i < j /\ ServiceOrder[i] = t /\ ServiceOrder[j] = s]_vars

-----------------------------------------------------------------------------
(* Refinement and progress *)

\* A sequence appended to and not yet handed to may_append: it has a table,
\* no call is at work on it, and it is not waiting to be run in this batch.
Unrun ==
    CASE pc \in {"post", "finish"} ->
             { scheduled_seqs[i] : i \in post_i .. Len(scheduled_seqs) }
      [] pc = "admitted" -> ToSet(scheduled_seqs) \cup {cur}
      [] OTHER -> ToSet(scheduled_seqs)

Pending == [s \in SeqId |-> block_table[s] # << >> /\ call.seq # s
                            /\ s \notin Unrun]

Client == INSTANCE BlockClient
            WITH pending <- Pending,
                 Prompts <- { r.prompt : r \in Requests },
                 Lengths <- Nat

\* The scheduler keeps to the block manager's protocol: every behaviour of
\* it is one of the client's, so that what holds of that client holds here.
KeepsProtocol == Client!Spec

Generation == INSTANCE Generation
            WITH active <- { s \in SeqId : status[s] # "FINISHED" }

\* Batching, prefix sharing, preemption and recomputation are invisible in
\* what a request gets: its prompt, then one sampled token at a time, up to
\* and with the first end token or max_tokens of them.  Which token is sampled
\* is left open: what the attention reads is AttendsToItsPrefix's business.
ImplementsGeneration == Generation!Spec

\* A request that fits alone in the block pool and in a step's budget.
Fits(r) ==
    LET longest == Len(r.prompt) + r.max_tokens - 1
    IN  /\ r.max_tokens > 0
        /\ longest <= NumBlocks * BLOCK_SIZE
        /\ longest <= max_num_batched_tokens

\* When requests stop arriving every one of them finishes, however often it
\* is preempted, if each one alone fits: preempting and recomputing never
\* turns in circles.  (With arrivals without end it need not: schedule_default
\* prefers a prefill to a decode every time.)
ArrivalsStop == <>[][\A s \in SeqId, r \in Requests : ~add(s, r)]_vars
EveryRequestFinishes ==
    (\A r \in Requests : Fits(r)) /\ ArrivalsStop =>
        \A s \in SeqId : status[s] = "WAITING" ~> status[s] = "FINISHED"
=============================================================================
