----------------------------- MODULE BlockClient -----------------------------
(***************************************************************************)
(* The block manager under every client that keeps to the protocol its     *)
(* scheduler follows: allocate a sequence that has no table only when      *)
(* can_allocate said yes; append one token at a time and call may_append   *)
(* for it, after can_append, before the next; release a sequence between   *)
(* two calls.  In which order, and for which sequences, is left open.      *)
(***************************************************************************)
EXTENDS BlockManager

CONSTANTS Prompts,      \* the prompts a request may bring
          Sampled,      \* the tokens the model may sample
          Lengths       \* the lengths a sequence may grow to: Nat, or a
                        \* bounded part of it for TLC

ASSUME PromptsAssumption == Prompts \subseteq Seq(Token) \ {<< >>}
ASSUME SampledAssumption == Sampled \subseteq Token
ASSUME LengthsAssumption == Lengths \subseteq Nat

VARIABLE pending   \* pending[s]: a token was appended, may_append is due

vars == << bmVars, pending >>

TypeOK ==
    /\ BMTypeOK
    /\ pending \in [SeqId -> BOOLEAN]

Init ==
    /\ BMInit
    /\ pending = [s \in SeqId |-> FALSE]

-----------------------------------------------------------------------------
\* A request takes a Sequence object that holds no blocks: a new one, or in
\* the place of one that finished or was given up.
NewRequest(s, prompt) ==
    /\ call = NoCall
    /\ block_table[s] = << >>
    /\ token_ids' = [token_ids EXCEPT ![s] = prompt]
    /\ UNCHANGED << blocks, free_block_ids, used_block_ids, hash_to_block_id,
                    block_table, num_cached_tokens, call, pending >>

Allocate(s) ==
    /\ block_table[s] = << >>
    /\ can_allocate(s)
    /\ BeginAllocate(s)
    /\ UNCHANGED pending

\* Sequence::append_token of a sampled token.
append_token(s, t) ==
    /\ call = NoCall
    /\ block_table[s] # << >>
    /\ ~pending[s]
    /\ Len(token_ids[s]) + 1 \in Lengths
    /\ token_ids' = [token_ids EXCEPT ![s] = Append(@, t)]
    /\ pending' = [pending EXCEPT ![s] = TRUE]
    /\ UNCHANGED << blocks, free_block_ids, used_block_ids, hash_to_block_id,
                    block_table, num_cached_tokens, call >>

MayAppend(s) ==
    /\ pending[s]
    /\ can_append(s)
    /\ may_append(s)
    /\ pending' = [pending EXCEPT ![s] = FALSE]

\* Preemption or completion.
Release(s) ==
    /\ BeginDeallocate(s)
    /\ pending' = [pending EXCEPT ![s] = FALSE]

Next ==
    \/ \E s \in SeqId :
          \/ \E p \in Prompts : NewRequest(s, p)
          \/ Allocate(s)
          \/ \E t \in Sampled : append_token(s, t)
          \/ MayAppend(s)
          \/ Release(s)
    \/ BMStep /\ UNCHANGED pending

Spec == Init /\ [][Next]_vars

-----------------------------------------------------------------------------
(* Safety *)

\* The table entries of s that still hold a reference: deallocate drops them
\* from the last to the first before it clears the table.
Held(s) == IF call.op = "deallocate" /\ call.seq = s
           THEN 1 .. call.it ELSE DOMAIN block_table[s]

Refs(b) == UNION { { << s, i >> : i \in { j \in Held(s) :
                                            block_table[s][j] = b } } :
                   s \in SeqId }

\* Every block's ref_count is exactly the number of table entries that hold
\* it, counting a block that appears twice in one table twice, and counting
\* the entries deallocate has not reached yet: no block is freed under a
\* sequence that reads it, and none leaks (block_manager.cpp allocate,
\* deallocate, may_append).
RefCountExact ==
    \A b \in BlockId : blocks[b].ref_count = Cardinality(Refs(b))

\* The free deque lists each unreferenced block once and no other, and the
\* used set is the rest: a block is never handed out twice, even when a hit
\* takes one from the middle of the deque (allocate_block, deallocate_block).
FreeUsedPartition ==
    /\ IsInjective(free_block_ids)
    /\ ToSet(free_block_ids) = { b \in BlockId : blocks[b].ref_count = 0 }
    /\ used_block_ids = { b \in BlockId : blocks[b].ref_count > 0 }

\* can_allocate is asked once, before the loop: at every iteration the deque
\* still has a block for each logical block to come, so that
\* free_block_ids_.front() never reads an empty deque (allocate lines 64-110).
AllocateNeverStarves ==
    call.op = "allocate" =>
        Len(free_block_ids) >=
            num_blocks(token_ids[call.seq]) - Len(block_table[call.seq])

Settled(s) == block_table[s] # << >> /\ call.seq # s

\* The number of tokens the table of s accounts for.
Covered(s) == Len(token_ids[s]) - (IF pending[s] THEN 1 ELSE 0)

\* A settled table has an entry for every logical block of the tokens the
\* manager was told of, no more and no less (prepare_prefill refuses another
\* size and prepare_decode writes at the last entry).
TableCovers ==
    \A s \in SeqId : Settled(s) =>
        Len(block_table[s]) =
            num_blocks(SubSeq(token_ids[s], 1, Covered(s)))

\* A block of a table that its sequence has filled is sealed with exactly
\* that sequence's tokens, and a block still being filled is sealed with
\* none: what a later hit compares against is what was computed
\* (allocate, may_append; whatever the sharing and the reuse in between).
SealedMatchesTokens ==
    \A s \in SeqId : Settled(s) =>
        \A i \in DOMAIN block_table[s] :
            LET blk == blocks[block_table[s][i]] IN
            IF i * BLOCK_SIZE <= Covered(s)
            THEN /\ blk.hash # kNoHash
                 /\ blk.token_ids = block(token_ids[s], i - 1)
            ELSE blk.hash = kNoHash /\ blk.token_ids = << >>

\* The block a sequence will write its next token's KV to belongs to it
\* alone (the write goes to block_table.back(), model_runner.cpp
\* prepare_decode): a partial block is never shared.
PartialBlockPrivate ==
    \A s \in SeqId :
        Settled(s) /\ Covered(s) % BLOCK_SIZE # 0 =>
            blocks[Last(block_table[s])].ref_count = 1

\* The asserts of may_append (lines 138, 144, 154), which the Release build
\* drops: when it is called the last block is sealed if the token opens a
\* new block and unsealed if it does not.
MayAppendAsserts ==
    \A s \in SeqId : pending[s] /\ call = NoCall =>
        (blocks[Last(block_table[s])].hash # kNoHash <=> rem(s) = 1)

\* Cached tokens are whole blocks at the front of the table, and never more
\* than the tokens (prepare_prefill starts its queries behind them).
CachedWithinTable ==
    \A s \in SeqId :
        /\ num_cached_tokens[s] % BLOCK_SIZE = 0
        /\ num_cached_tokens[s] <= Len(token_ids[s])
        /\ num_cached_tokens[s] <= BLOCK_SIZE * Len(block_table[s])

\* A sealed block that stays referenced keeps its tokens: nobody rewrites a
\* block under a sequence that shares it (Block::update, Block::reset).
SharedBlockFrozen ==
    [][\A b \in BlockId :
          /\ blocks[b].ref_count > 0 /\ blocks[b].hash # kNoHash
          /\ blocks'[b].ref_count > 0
          => blocks'[b].token_ids = blocks[b].token_ids]_vars

\* A cache hit finds the block as it was indexed: not only the tokens, which
\* the lookup compares, but the chain hash of every token before them, which
\* it does not (block_manager.cpp:84).
HitsKnowTheirChain ==
    call.op = "allocate" /\ CacheHit =>
        blocks[hash_to_block_id[LoopHash]].hash = LoopHash

\* What the documentation says of a cache hit: requests that share a block
\* share the whole prefix up to its end (ARCHITECTURE.md:347,
\* docs/block_manager.html:273).  The KV of a block depends on every token
\* before it.
SharedOnlySamePrefix ==
    \A s, t \in SeqId : s # t /\ Settled(s) /\ Settled(t) =>
        \A i \in DOMAIN block_table[s], j \in DOMAIN block_table[t] :
            block_table[s][i] = block_table[t][j] =>
                /\ i = j
                /\ \A k \in 0 .. i - 1 :
                       block(token_ids[s], k) = block(token_ids[t], k)
=============================================================================
