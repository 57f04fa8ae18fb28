---------------------------- MODULE BlockManager ----------------------------
(***************************************************************************)
(* The paged KV-cache allocator (class BlockManager) and the fields of a   *)
(* Sequence it reads and writes.  A logical block of a sequence is mapped  *)
(* by block_table to a physical block; full blocks are indexed by a        *)
(* chained hash so that a later sequence with the same prefix shares them. *)
(*                                                                         *)
(* allocate() and deallocate() are loops: each iteration is one action,    *)
(* and `call` holds the loop's local variables.  The program is single     *)
(* threaded, so a module that extends this one takes no other step while   *)
(* call # NoCall.  Asserts are compiled out of the Release build: they are *)
(* properties in BlockClient, not guards here.                             *)
(***************************************************************************)
EXTENDS Sequence, FiniteSets, SequencesExt

CONSTANTS NumBlocks,    \* num_kvcache_blocks
          SeqId,        \* the Sequence objects
          NoSeq         \* no sequence

ASSUME NumBlocksAssumption == NumBlocks \in Nat \ {0}
ASSUME SeqIdAssumption == IsFiniteSet(SeqId) /\ NoSeq \notin SeqId

VARIABLES
    blocks,             \* blocks_: one Block record per physical block
    free_block_ids,     \* free_block_ids_, a deque
    used_block_ids,     \* used_block_ids_
    hash_to_block_id,   \* hash_to_block_id_, a map that only grows
    token_ids,          \* Sequence::token_ids, <<>> for an object not in use
    block_table,        \* Sequence::block_table
    num_cached_tokens,  \* Sequence::num_cached_tokens
    call                \* the locals of the running allocate or deallocate

bmVars == << blocks, free_block_ids, used_block_ids, hash_to_block_id,
             token_ids, block_table, num_cached_tokens, call >>

BlockId == 0 .. NumBlocks - 1

\* The 64-bit digest of a chain of blocks is taken to identify the chain
\* (XXH64 without collisions): a hash is the sequence of its blocks' tokens.
Hash == Seq(Seq(Token))
kNoHash == << >>
compute_hash(tokens, prefix) == Append(prefix, tokens)

Block == [ref_count : Nat, hash : Hash, token_ids : Seq(Token)]

NoCall == [op |-> "none", seq |-> NoSeq, it |-> 0,
           h |-> kNoHash, cache_miss |-> FALSE]

Call == [op : {"none", "allocate", "deallocate"}, seq : SeqId \cup {NoSeq},
         it : Nat, h : Hash, cache_miss : BOOLEAN]

BMTypeOK ==
    /\ blocks \in [BlockId -> Block]
    /\ free_block_ids \in Seq(BlockId)
    /\ used_block_ids \subseteq BlockId
    /\ DOMAIN hash_to_block_id \subseteq Hash
    /\ hash_to_block_id \in [DOMAIN hash_to_block_id -> BlockId]
    /\ token_ids \in [SeqId -> Seq(Token)]
    /\ block_table \in [SeqId -> Seq(BlockId)]
    /\ num_cached_tokens \in [SeqId -> Nat]
    /\ call \in Call
    /\ IF call.op = "none" THEN call = NoCall ELSE call.seq \in SeqId

BMInit ==
    /\ blocks = [b \in BlockId |->
                    [ref_count |-> 0, hash |-> kNoHash, token_ids |-> << >>]]
    /\ free_block_ids = [i \in 1 .. NumBlocks |-> i - 1]
    /\ used_block_ids = {}
    /\ hash_to_block_id = << >>
    /\ token_ids = [s \in SeqId |-> << >>]
    /\ block_table = [s \in SeqId |-> << >>]
    /\ num_cached_tokens = [s \in SeqId |-> 0]
    /\ call = NoCall

-----------------------------------------------------------------------------
(* Block bookkeeping *)

\* Fault: a hit that does not count its reference.
AddRefUncounted(blk) == blk

\* block.ref_count++: one more table entry holds the block.
AddRef(blk) == [blk EXCEPT !.ref_count = @ + 1]

\* Block::reset: the block becomes the caller's, unsealed.
reset == [ref_count |-> 1, hash |-> kNoHash, token_ids |-> << >>]

\* Fault: the hash is renewed, the tokens it is checked against are not.
updateHashOnly(blk, h, tokens) == [blk EXCEPT !.hash = h]

\* Block::update: seal a full block under its chain hash.
update(blk, h, tokens) == [blk EXCEPT !.hash = h, !.token_ids = tokens]

\* hash_to_block_id_[h] = b
Index(h, b) ==
    [x \in DOMAIN hash_to_block_id \cup {h} |->
        IF x = h THEN b ELSE hash_to_block_id[x]]

\* The queue and set effects of allocate_block.
TakeFree(b) ==
    /\ free_block_ids' = RemoveFirst(free_block_ids, b)
    /\ used_block_ids' = used_block_ids \cup {b}

\* Fault: the block stays in the used set.
GiveBackStillUsed(b) ==
    /\ free_block_ids' = Append(free_block_ids, b)
    /\ UNCHANGED used_block_ids

\* The queue and set effects of deallocate_block.
GiveBack(b) ==
    /\ free_block_ids' = Append(free_block_ids, b)
    /\ used_block_ids' = used_block_ids \ {b}

-----------------------------------------------------------------------------
(* allocate *)

\* Fault: off by one.
can_allocateOneShort(s) == Len(free_block_ids) + 1 >= num_blocks(token_ids[s])

can_allocate(s) == Len(free_block_ids) >= num_blocks(token_ids[s])

BeginAllocate(s) ==
    /\ call = NoCall
    /\ num_blocks(token_ids[s]) > 0
    /\ call' = [NoCall EXCEPT !.op = "allocate", !.seq = s]
    /\ UNCHANGED << blocks, free_block_ids, used_block_ids, hash_to_block_id,
                    token_ids, block_table, num_cached_tokens >>

\* The logical block the loop is at and its tokens.
LoopIndex == Len(block_table[call.seq])
LoopTokens == block(token_ids[call.seq], LoopIndex)

\* Fault: a partial block is hashed too.
LoopHashAlways == compute_hash(LoopTokens, call.h)

\* Only a full block is hashed.
LoopHash == IF Len(LoopTokens) = BLOCK_SIZE
            THEN compute_hash(LoopTokens, call.h) ELSE kNoHash

\* Fault: the hash is trusted, the tokens are not compared.
CacheHitByHash == ~call.cache_miss /\ LoopHash \in DOMAIN hash_to_block_id

\* The cache lookup hits only if the indexed block still holds these tokens.
CacheHit ==
    /\ ~call.cache_miss
    /\ LoopHash \in DOMAIN hash_to_block_id
    /\ blocks[hash_to_block_id[LoopHash]].token_ids = LoopTokens

\* The end of an iteration: block b, whose record so far is blk, is sealed
\* if it is full and becomes the next entry of the table.
EndIteration(b, blk, miss) ==
    LET s == call.seq IN
    /\ IF LoopHash # kNoHash
       THEN /\ blocks' = [blocks EXCEPT
                            ![b] = update(blk, LoopHash, LoopTokens)]
            /\ hash_to_block_id' = Index(LoopHash, b)
       ELSE /\ blocks' = [blocks EXCEPT ![b] = blk]
            /\ UNCHANGED hash_to_block_id
    /\ block_table' = [block_table EXCEPT ![s] = Append(@, b)]
    /\ call' = IF LoopIndex + 1 < num_blocks(token_ids[s])
               THEN [call EXCEPT !.h = LoopHash, !.cache_miss = miss]
               ELSE NoCall
    /\ UNCHANGED token_ids

\* A hit on a block some sequence holds: one more reference.
AllocateHitUsed ==
    /\ call.op = "allocate"
    /\ CacheHit
    /\ LET b == hash_to_block_id[LoopHash] IN
       /\ b \in used_block_ids
       /\ EndIteration(b, AddRef(blocks[b]), FALSE)
    /\ num_cached_tokens' =
           [num_cached_tokens EXCEPT ![call.seq] = @ + BLOCK_SIZE]
    /\ UNCHANGED << free_block_ids, used_block_ids >>

\* A hit on a freed block nobody has taken since: revived in place.
AllocateHitFree ==
    /\ call.op = "allocate"
    /\ CacheHit
    /\ LET b == hash_to_block_id[LoopHash] IN
       /\ b \notin used_block_ids
       /\ TakeFree(b)
       /\ EndIteration(b, reset, FALSE)
    /\ num_cached_tokens' =
           [num_cached_tokens EXCEPT ![call.seq] = @ + BLOCK_SIZE]

\* A miss, which every later block of the call inherits: the oldest free
\* block.
AllocateMiss ==
    /\ call.op = "allocate"
    /\ ~CacheHit
    /\ LET b == Head(free_block_ids) IN
       /\ TakeFree(b)
       /\ EndIteration(b, reset, TRUE)
    /\ UNCHANGED num_cached_tokens

-----------------------------------------------------------------------------
(* deallocate: from the last entry of the table to the first *)

BeginDeallocate(s) ==
    /\ call = NoCall
    /\ block_table[s] # << >>
    /\ call' = [NoCall EXCEPT !.op = "deallocate", !.seq = s,
                              !.it = Len(block_table[s])]
    /\ UNCHANGED << blocks, free_block_ids, used_block_ids, hash_to_block_id,
                    token_ids, block_table, num_cached_tokens >>

DeallocateStep ==
    LET s == call.seq
        b == block_table[s][call.it]
    IN
    /\ call.op = "deallocate"
    /\ blocks' = [blocks EXCEPT ![b].ref_count = @ - 1]
    /\ IF blocks[b].ref_count = 1
       THEN GiveBack(b)
       ELSE UNCHANGED << free_block_ids, used_block_ids >>
    /\ IF call.it > 1
       THEN /\ call' = [call EXCEPT !.it = @ - 1]
            /\ UNCHANGED << block_table, num_cached_tokens >>
       ELSE /\ call' = NoCall
            /\ block_table' = [block_table EXCEPT ![s] = << >>]
            /\ num_cached_tokens' = [num_cached_tokens EXCEPT ![s] = 0]
    /\ UNCHANGED << hash_to_block_id, token_ids >>

-----------------------------------------------------------------------------
(* may_append: called once for each token appended *)

\* Fault: the length before the token.
remBefore(s) == (Len(token_ids[s]) - 1) % BLOCK_SIZE

rem(s) == Len(token_ids[s]) % BLOCK_SIZE

can_append(s) == Len(free_block_ids) >= IF rem(s) = 1 THEN 1 ELSE 0

\* The token opened a new logical block.
GrowTable(s) ==
    LET b == Head(free_block_ids) IN
    /\ rem(s) = 1
    /\ TakeFree(b)
    /\ blocks' = [blocks EXCEPT ![b] = reset]
    /\ block_table' = [block_table EXCEPT ![s] = Append(@, b)]
    /\ UNCHANGED hash_to_block_id

\* Fault: a block filled by decoding is never sealed.
SealLastSkipped(s) ==
    /\ rem(s) = 0
    /\ UNCHANGED << blocks, hash_to_block_id, free_block_ids, used_block_ids,
                    block_table >>

\* The token filled the last block: seal it under the hash its predecessor
\* in the table has now.
SealLast(s) ==
    LET table  == block_table[s]
        tokens == block(token_ids[s], num_blocks(token_ids[s]) - 1)
        prefix == IF Len(table) > 1 THEN blocks[table[Len(table) - 1]].hash
                  ELSE kNoHash
        h      == compute_hash(tokens, prefix)
    IN
    /\ rem(s) = 0
    /\ blocks' = [blocks EXCEPT ![Last(table)] = update(@, h, tokens)]
    /\ hash_to_block_id' = Index(h, Last(table))
    /\ UNCHANGED << free_block_ids, used_block_ids, block_table >>

KeepFilling(s) ==
    /\ rem(s) \notin {0, 1}
    /\ UNCHANGED << blocks, free_block_ids, used_block_ids, hash_to_block_id,
                    block_table >>

may_append(s) ==
    /\ call = NoCall
    /\ GrowTable(s) \/ SealLast(s) \/ KeepFilling(s)
    /\ UNCHANGED << token_ids, num_cached_tokens, call >>

BMStep == AllocateHitUsed \/ AllocateHitFree \/ AllocateMiss \/ DeallocateStep
=============================================================================
