--------------------------- MODULE KVCacheProofs ---------------------------
(***************************************************************************)
(* Proofs about the contents of the KV cache, on the default path: as long *)
(* as a cache hit finds the block as it was indexed, every slot a table    *)
(* covers holds the K and V of its own token behind its own prefix, or is  *)
(* about to be written by the batch being made up.                         *)
(***************************************************************************)
EXTENDS ModelRunnerProofs

-----------------------------------------------------------------------------
(* The inductive invariant of the slots *)

Offsets == 0 .. BLOCK_SIZE - 1

\* The position of a token, from its entry in the table and its offset there.
At(i, off) == (i - 1) * BLOCK_SIZE + off

\* The sequences the model is going to run, and whether it will be a prefill.
ToRun == { s \in SeqId :
             \/ pc \notin {"post", "finish"} /\ s \in ToSet(scheduled_seqs)
             \/ pc = "admitted" /\ s = cur }
ForPrefill == pc \in {"admit", "admitted"} \/ (pc = "run" /\ is_prefill)

\* The run will compute this position: all that is not cached, or the last.
Due(s, i, off) ==
    /\ At(i, off) < len(s)
    /\ IF ForPrefill THEN num_cached_tokens[s] <= At(i, off)
                     ELSE At(i, off) = len(s) - 1

\* The run will write this slot.
Owed(b, off) ==
    \E s \in ToRun : \E i \in DOMAIN block_table[s] :
        block_table[s][i] = b /\ Due(s, i, off)

\* The slot holds what entry i of a sequence with tokens t needs there, or
\* will once the batch has run.
Upto(t, i, off) == SubSeq(t, 1, At(i, off) + 1)
Holds(b, off, t, i) == kv[<< b, off >>] = {Upto(t, i, off)}
Filled(b, off, t, i) == Owed(b, off) \/ Holds(b, off, t, i)

\* A block is filled with the tokens whose chain it is sealed under, in use or
\* not: this is what makes a later hit on it right.
FilledFor(b, t, i) ==
    i >= 1 /\ i * BLOCK_SIZE <= Len(t) /\ blocks[b].hash = Chain(t, i) =>
        \A off \in Offsets : Filled(b, off, t, i)
SealedFilled ==
    \A b \in BlockId, t \in Seq(Token), i \in Nat : FilledFor(b, t, i)

\* A block that is not full yet is filled as far as its sequence goes.
PartialFilled ==
    \A s \in SeqId : Manager!Live(s) =>
        \A i \in DOMAIN block_table[s], off \in Offsets :
            /\ ~(i * BLOCK_SIZE <= Manager!Covered(s))
            /\ At(i, off) < Manager!Covered(s)
            => Filled(block_table[s][i], off, token_ids[s], i)

\* What counts as computed, or will after this step, is in the table.
ComputedOK ==
    \A s \in SeqId : status[s] = "RUNNING" =>
        new_computed(s) <= Manager!Covered(s)

KVInv ==
    /\ SInv
    /\ Manager!ChainInv
    /\ SealedFilled
    /\ PartialFilled
    /\ ComputedOK

\* A step keeps what the run owes.
OwedOn == \A b, off : off \in Offsets /\ Owed(b, off) => Owed(b, off)'

-----------------------------------------------------------------------------
(* Positions and chains *)

LEMMA SameChain == \A t, i : Manager!Chain(t, i) = Chain(t, i)
  BY SameBlockOperators DEF Manager!Chain, Chain

LEMMA SameHits == HitsKnowTheirPrefix <=> Manager!HitsKnowTheirChain
  BY DEF HitsKnowTheirPrefix, Client!HitsKnowTheirChain,
         Manager!HitsKnowTheirChain, Client!CacheHit, Manager!CacheHit,
         Client!LoopHash, Manager!LoopHash, Client!LoopTokens,
         Manager!LoopTokens, Client!LoopIndex, Manager!LoopIndex,
         Client!compute_hash, Manager!compute_hash, Client!kNoHash,
         Manager!kNoHash, Client!block, Manager!block

\* A position lies in its block, and determines entry and offset.
LEMMA AtPosition ==
    ASSUME NEW i \in Int, NEW off \in Offsets
    PROVE  /\ At(i, off) \in Int /\ i * BLOCK_SIZE \in Int
           /\ (i - 1) * BLOCK_SIZE \in Int
           /\ (i - 1) * BLOCK_SIZE = i * BLOCK_SIZE - BLOCK_SIZE
           /\ (i - 1) * BLOCK_SIZE <= At(i, off)
           /\ At(i, off) + 1 <= i * BLOCK_SIZE
           /\ At(i, off) \div BLOCK_SIZE + 1 = i
           /\ At(i, off) % BLOCK_SIZE = off
           /\ i >= 1 => At(i, off) \in Nat
  <1> DEFINE q == i - 1
             p == q * BLOCK_SIZE
  <1>1. /\ q \in Int /\ p \in Int /\ i * BLOCK_SIZE \in Int
        /\ p = i * BLOCK_SIZE - BLOCK_SIZE
        /\ BLOCK_SIZE \in Nat /\ BLOCK_SIZE >= 2
    BY BlockMultiples, BlockSizeAssumption
  <1>2. off \in 0 .. BLOCK_SIZE - 1 /\ off \in Int
    BY <1>1 DEF Offsets
  <1>3. At(i, off) = p + off /\ p = q * BLOCK_SIZE /\ q + 1 = i
    BY DEF At
  <1>4. i >= 1 => p >= 0
    <2>1. 0 <= q <=> 0 * BLOCK_SIZE <= q * BLOCK_SIZE
      BY <1>1, BlockMultiples
    <2>2. 0 * BLOCK_SIZE = 0
      BY <1>1
    <2> HIDE DEF p
    <2> QED  BY <1>1, <1>3, <2>1, <2>2
  <1> HIDE DEF p, q
  <1>5. At(i, off) \div BLOCK_SIZE = q /\ At(i, off) % BLOCK_SIZE = off
    <2>1. At(i, off) \in Int /\ At(i, off) = q * BLOCK_SIZE + off
      BY <1>1, <1>2, <1>3
    <2> QED  BY <1>1, <1>2, <2>1, BlockQuotient
  <1>6. /\ At(i, off) \in Int /\ p <= At(i, off)
        /\ At(i, off) + 1 <= i * BLOCK_SIZE
        /\ i >= 1 => At(i, off) \in Nat
    BY <1>1, <1>2, <1>3, <1>4
  <1> QED  BY <1>1, <1>3, <1>5, <1>6 DEF p, q

\* Every position has an entry and an offset.
LEMMA PositionAt ==
    ASSUME NEW p \in Nat
    PROVE  LET i == p \div BLOCK_SIZE + 1
               off == p % BLOCK_SIZE IN
           i \in Nat /\ i >= 1 /\ off \in Offsets /\ At(i, off) = p
  <1> DEFINE q == p \div BLOCK_SIZE
             off == p % BLOCK_SIZE
  <1>1. /\ q \in Int /\ off \in 0 .. BLOCK_SIZE - 1
        /\ p = q * BLOCK_SIZE + off
    BY BlockDivision
  <1>2. BLOCK_SIZE \in Nat
    BY BlockSizeAssumption
  <1>3. p \in Nat
    OBVIOUS
  <1> HIDE DEF q, off
  <1>4. q >= 0
    <2>1. /\ q * BLOCK_SIZE \in Int
          /\ q < 0 => q * BLOCK_SIZE + BLOCK_SIZE <= 0 * BLOCK_SIZE
      BY <1>1, BlockMultiples
    <2>2. 0 * BLOCK_SIZE = 0
      BY <1>2
    <2> QED  BY <1>1, <1>2, <1>3, <2>1, <2>2
  <1>5. (q + 1) - 1 = q /\ q + 1 \in Nat /\ q + 1 >= 1
    BY <1>1, <1>4
  <1>6. At(q + 1, off) = p
    BY <1>1, <1>5 DEF At
  <1> QED  BY <1>1, <1>5, <1>6 DEF q, off, Offsets

\* A chain of blocks is not "no hash", and tells how many they are.
LEMMA ChainLength ==
    ASSUME NEW t \in Seq(Token), NEW i \in Nat
    PROVE  /\ Len(Chain(t, i)) = i
           /\ i >= 1 => Chain(t, i) # kNoHash
  <1>1. Len(Chain(t, i)) = i
    BY ChainAppend
  <1>2. Len(<< >>) = 0
    OBVIOUS
  <1> QED  BY <1>1, <1>2 DEF kNoHash

\* Sequences under the same chain need the same in its blocks.
LEMMA SameChainSameSlots ==
    ASSUME NEW t \in Seq(Token), NEW u \in Seq(Token), NEW i \in Nat, NEW j \in Nat,
           i >= 1,
           i * BLOCK_SIZE <= Len(t), j * BLOCK_SIZE <= Len(u),
           Chain(t, i) = Chain(u, j)
    PROVE  /\ i = j
           /\ \A off \in Offsets : Upto(t, i, off) = Upto(u, j, off)
  <1>1. i = j
    BY ChainLength
  <1>2. ASSUME NEW off \in Offsets
        PROVE  Upto(t, i, off) = Upto(u, j, off)
    <2>1. i \in Int /\ off \in Offsets
      OBVIOUS
    <2>2. At(i, off) \in Nat /\ At(i, off) + 1 <= i * BLOCK_SIZE /\ i * BLOCK_SIZE \in Int
      BY <2>1, AtPosition
    <2>3. At(i, off) + 1 \in 0 .. i * BLOCK_SIZE
      BY <2>2
    <2> QED  BY <1>1, <2>3, ChainPrefix DEF Upto
  <1> QED  BY <1>1, <1>2

-----------------------------------------------------------------------------
(* What the invariant says of one table *)

LEMMA TableTypes ==
    ASSUME Manager!IInv, NEW s \in SeqId
    PROVE  /\ block_table[s] \in Seq(BlockId)
           /\ Len(block_table[s]) \in Nat
           /\ DOMAIN block_table[s] = 1 .. Len(block_table[s])
           /\ block_table[s] = << >> <=> Len(block_table[s]) = 0
           /\ token_ids[s] \in Seq(Token)
           /\ len(s) \in Nat
           /\ num_cached_tokens[s] \in Nat
           /\ Manager!Covered(s) \in Nat /\ Manager!Covered(s) <= len(s)
           /\ \A i \in DOMAIN block_table[s] :
                  block_table[s][i] \in BlockId /\ i \in Nat /\ i >= 1
  <1>1. /\ block_table[s] \in Seq(BlockId)
        /\ Len(block_table[s]) \in Nat
        /\ DOMAIN block_table[s] = 1 .. Len(block_table[s])
        /\ block_table[s] = << >> <=> Len(block_table[s]) = 0
        /\ token_ids[s] \in Seq(Token)
        /\ len(s) \in Nat
        /\ num_cached_tokens[s] \in Nat
        /\ Manager!Covered(s) \in Nat
        /\ ~Pending[s] => Manager!Covered(s) = len(s)
        /\ Pending[s] => Manager!Covered(s) + 1 = len(s)
    BY ManagerAssumptions, Manager!SequenceTypes, SameOperators DEF len
  <1>2. \A i \in DOMAIN block_table[s] :
            block_table[s][i] \in BlockId /\ i \in Nat /\ i >= 1
    BY <1>1, ElementOfSeq
  <1>3. Manager!Covered(s) <= len(s)
    <2>1. Pending[s] \/ ~Pending[s]
      OBVIOUS
    <2> QED  BY <1>1, <2>1
  <1> QED  BY <1>1, <1>2, <1>3

\* A full entry is sealed under its own chain, a partial one is not sealed.
LEMMA EntrySealed ==
    ASSUME KVInv, NEW s \in SeqId, Manager!Live(s), NEW i \in DOMAIN block_table[s]
    PROVE  /\ i * BLOCK_SIZE <= Manager!Covered(s) =>
                  blocks[block_table[s][i]].hash = Chain(token_ids[s], i)
           /\ ~(i * BLOCK_SIZE <= Manager!Covered(s)) =>
                  blocks[block_table[s][i]].hash = kNoHash
  <1>1. Manager!ChainOK(s, i) /\ Manager!EntryOK(s, i)
    BY DEF KVInv, SInv, Manager!ChainInv, Manager!ChainsOK, Manager!ContentInv,
           Manager!EntriesOK
  <1> QED  BY <1>1, SameChain
           DEF Manager!ChainOK, Manager!EntryOK, Manager!kNoHash, kNoHash

\* Every covered position of a table is filled.
LEMMA TableFilled ==
    ASSUME KVInv, NEW s \in SeqId, Manager!Live(s), NEW i \in DOMAIN block_table[s],
           NEW off \in Offsets, At(i, off) < Manager!Covered(s)
    PROVE  Filled(block_table[s][i], off, token_ids[s], i)
  <1>1. /\ block_table[s][i] \in BlockId /\ i \in Nat /\ i >= 1
        /\ token_ids[s] \in Seq(Token)
        /\ Manager!Covered(s) \in Nat /\ Len(token_ids[s]) \in Nat
        /\ Manager!Covered(s) <= Len(token_ids[s])
    BY TableTypes DEF KVInv, SInv, len
  <1>2. CASE i * BLOCK_SIZE <= Manager!Covered(s)
    <2>1. blocks[block_table[s][i]].hash = Chain(token_ids[s], i)
      BY <1>2, EntrySealed
    <2>2. i * BLOCK_SIZE <= Len(token_ids[s])
      <3>1. i * BLOCK_SIZE \in Int
        BY <1>1, AtPosition
      <3> QED  BY <1>1, <1>2, <3>1
    <2>3. FilledFor(block_table[s][i], token_ids[s], i)
      BY <1>1 DEF KVInv, SealedFilled
    <2> QED  BY <1>1, <2>1, <2>2, <2>3 DEF FilledFor
  <1>3. CASE ~(i * BLOCK_SIZE <= Manager!Covered(s))
    BY <1>3 DEF KVInv, PartialFilled
  <1> QED  BY <1>2, <1>3

\* The table of a running sequence is at rest and has an entry for each of its
\* covered positions.
LEMMA RunningTable ==
    ASSUME SInv, NEW s \in SeqId, status[s] = "RUNNING"
    PROVE  /\ Manager!Live(s) /\ block_table[s] # << >> /\ call.seq # s
           /\ Manager!Covered(s) <= Len(block_table[s]) * BLOCK_SIZE
           /\ (Len(block_table[s]) - 1) * BLOCK_SIZE < Manager!Covered(s)
           /\ \A p \in Nat : p < Manager!Covered(s) =>
                  p \div BLOCK_SIZE + 1 \in DOMAIN block_table[s]
  <1>1. ~(call.op = "allocate" /\ call.seq = s)
    <2> SUFFICES ASSUME call.op = "allocate", call.seq = s
                 PROVE  FALSE
      OBVIOUS
    <2>1. cur = s /\ waiting # << >> /\ cur = Head(waiting)
      BY DEF SInv, QInv, CallAtPc, CurOK
    <2>2. s \in ToSet(waiting)
      BY <2>1, EndElements DEF SInv, QInv, TypeOK
    <2> QED  BY <2>2 DEF SInv, QInv, QueuesMatchStatus
  <1>2. ~(call.op = "deallocate" /\ call.seq = s)
    BY DEF SInv, QInv, CallAtPc
  <1>3. block_table[s] # << >>
    BY <1>1 DEF SInv, QInv, TablesOK, HasTable
  <1>4. call.seq # s
    <2>1. CASE call.op = "none"
      <3>1. call = NoCall
        BY <2>1 DEF SInv, QInv, TypeOK, BMTypeOK
      <3> QED  BY <3>1, SeqIdAssumption DEF NoCall
    <2>2. call.op \in {"none", "allocate", "deallocate"}
      BY DEF SInv, QInv, TypeOK, BMTypeOK, Call
    <2> QED  BY <1>1, <1>2, <2>1, <2>2
  <1>5. /\ Manager!Covered(s) <= Len(block_table[s]) * BLOCK_SIZE
        /\ (Len(block_table[s]) - 1) * BLOCK_SIZE < Manager!Covered(s)
    <2>1. Manager!Settled(s)
      BY <1>3, <1>4 DEF Manager!Settled
    <2> QED  BY <2>1 DEF SInv, Manager!ContentInv, Manager!TableSize
  <1>6. ASSUME NEW p \in Nat, p < Manager!Covered(s)
        PROVE  p \div BLOCK_SIZE + 1 \in DOMAIN block_table[s]
    <2> DEFINE i == p \div BLOCK_SIZE + 1
               n == Len(block_table[s])
               c == Manager!Covered(s)
    <2>1. i \in Nat /\ i >= 1 /\ p % BLOCK_SIZE \in Offsets /\ At(i, p % BLOCK_SIZE) = p
      BY PositionAt
    <2>2. n \in Nat /\ DOMAIN block_table[s] = 1 .. n /\ c \in Nat
      BY TableTypes DEF SInv
    <2>3. c <= n * BLOCK_SIZE /\ p \in Nat /\ p < c
      BY <1>5, <1>6
    <2> HIDE DEF i, n, c
    <2>4. (i - 1) * BLOCK_SIZE \in Int /\ (i - 1) * BLOCK_SIZE <= p
      BY <2>1, AtPosition
    <2>5. n <= i - 1 => n * BLOCK_SIZE <= (i - 1) * BLOCK_SIZE
      <3>1. n \in Int /\ i - 1 \in Int
        BY <2>1, <2>2
      <3> QED  BY <3>1, BlockMultiples
    <2>6. n * BLOCK_SIZE \in Int
      BY <2>2, BlockProduct
    <2>7. ~(n <= i - 1)
      BY <2>2, <2>3, <2>4, <2>5, <2>6
    <2>8. i \in 1 .. n
      BY <2>1, <2>2, <2>7
    <2> QED  BY <2>2, <2>8 DEF i
  <1> QED  BY <1>1, <1>2, <1>3, <1>4, <1>5, <1>6 DEF Manager!Live

-----------------------------------------------------------------------------
(* Steps that write nothing *)

\* What was owed stays owed while its sequence, its entry and its being due do.
LEMMA OwedKept ==
    ASSUME ToRun \subseteq ToRun',
           \A s \in ToRun : \A i \in DOMAIN block_table[s] :
               /\ i \in DOMAIN block_table'[s]
               /\ block_table'[s][i] = block_table[s][i]
               /\ \A off \in Offsets : Due(s, i, off) => Due(s, i, off)'
    PROVE  OwedOn
  BY DEF OwedOn, Owed

\* A sealed block stays filled while its hash stays, or goes.
LEMMA SealedKept ==
    ASSUME SealedFilled, UNCHANGED kv, OwedOn,
           \A b \in BlockId :
               \/ blocks'[b].hash = blocks[b].hash
               \/ blocks'[b].hash = kNoHash
               \/ \A t \in Seq(Token), i \in Nat : FilledFor(b, t, i)'
    PROVE  SealedFilled'
  <1> SUFFICES ASSUME NEW b \in BlockId, NEW t \in Seq(Token), NEW i \in Nat
               PROVE  FilledFor(b, t, i)'
    BY DEF SealedFilled
  <1>1. CASE blocks'[b].hash = blocks[b].hash
    <2> SUFFICES ASSUME i >= 1, i * BLOCK_SIZE <= Len(t),
                        blocks'[b].hash = Chain(t, i), NEW off \in Offsets
                 PROVE  Filled(b, off, t, i)'
      BY DEF FilledFor
    <2>1. FilledFor(b, t, i)
      BY DEF SealedFilled
    <2>2. Filled(b, off, t, i)
      BY <1>1, <2>1 DEF FilledFor
    <2> QED  BY <2>2 DEF Filled, Holds, OwedOn
  <1>2. CASE blocks'[b].hash = kNoHash
    BY <1>2, ChainLength DEF FilledFor
  <1> QED  BY <1>1, <1>2

\* A partial block stays filled while its table keeps it, and what is new in
\* it is owed.
LEMMA PartialKept ==
    ASSUME PartialFilled, UNCHANGED kv, OwedOn,
           \A s \in SeqId : Manager!Live(s)' =>
               \A i \in DOMAIN block_table'[s], off \in Offsets :
                   /\ ~(i * BLOCK_SIZE <= Manager!Covered(s)')
                   /\ At(i, off) < Manager!Covered(s)'
                   => \/ Owed(block_table[s][i], off)'
                      \/ /\ Manager!Live(s) /\ i \in DOMAIN block_table[s]
                         /\ block_table'[s][i] = block_table[s][i]
                         /\ ~(i * BLOCK_SIZE <= Manager!Covered(s))
                         /\ At(i, off) < Manager!Covered(s)
                         /\ SubSeq(token_ids'[s], 1, At(i, off) + 1) =
                                SubSeq(token_ids[s], 1, At(i, off) + 1)
    PROVE  PartialFilled'
  <1> SUFFICES ASSUME NEW s \in SeqId, Manager!Live(s)',
                      NEW i \in DOMAIN block_table'[s], NEW off \in Offsets,
                      ~(i * BLOCK_SIZE <= Manager!Covered(s)'),
                      At(i, off) < Manager!Covered(s)'
               PROVE  Filled(block_table[s][i], off, token_ids[s], i)'
    BY DEF PartialFilled
  <1>1. CASE Owed(block_table[s][i], off)'
    BY <1>1 DEF Filled
  <1>2. CASE ~Owed(block_table[s][i], off)'
    <2>1. /\ Manager!Live(s) /\ i \in DOMAIN block_table[s]
          /\ block_table'[s][i] = block_table[s][i]
          /\ ~(i * BLOCK_SIZE <= Manager!Covered(s))
          /\ At(i, off) < Manager!Covered(s)
          /\ SubSeq(token_ids'[s], 1, At(i, off) + 1) =
                 SubSeq(token_ids[s], 1, At(i, off) + 1)
      BY <1>2
    <2>2. Filled(block_table[s][i], off, token_ids[s], i)
      BY <2>1 DEF PartialFilled
    <2>3. ~Owed(block_table[s][i], off)
      <3> SUFFICES ASSUME Owed(block_table[s][i], off)
                   PROVE  Owed(block_table[s][i], off)'
        BY <1>2
      <3>1. PICK b : b = block_table[s][i]
        OBVIOUS
      <3>2. Owed(b, off)'
        BY <3>1 DEF OwedOn
      <3> QED  BY <2>1, <3>1, <3>2 DEF Owed
    <2>4. Holds(block_table[s][i], off, token_ids[s], i)
      BY <2>2, <2>3 DEF Filled
    <2> QED  BY <2>1, <2>4 DEF Filled, Holds, Upto
  <1> QED  BY <1>1, <1>2

\* A step that leaves blocks and tables, and the prefixes the tables cover.
LEMMA QuietKept ==
    ASSUME KVInv, UNCHANGED << kv, blocks, block_table >>, OwedOn,
           \A s \in SeqId : block_table[s] # << >> /\ Manager!Live(s)' =>
               /\ Manager!Live(s)
               /\ Manager!Covered(s)' = Manager!Covered(s)
               /\ \A m \in 0 .. Manager!Covered(s) :
                      SubSeq(token_ids'[s], 1, m) = SubSeq(token_ids[s], 1, m)
    PROVE  SealedFilled' /\ PartialFilled'
  <1>1. SealedFilled'
    BY SealedKept DEF KVInv
  <1>2. ASSUME NEW s \in SeqId, Manager!Live(s)', NEW i \in DOMAIN block_table'[s],
               NEW off \in Offsets,
               ~(i * BLOCK_SIZE <= Manager!Covered(s)'),
               At(i, off) < Manager!Covered(s)'
        PROVE  /\ Manager!Live(s) /\ i \in DOMAIN block_table[s]
               /\ block_table'[s][i] = block_table[s][i]
               /\ ~(i * BLOCK_SIZE <= Manager!Covered(s))
               /\ At(i, off) < Manager!Covered(s)
               /\ SubSeq(token_ids'[s], 1, At(i, off) + 1) =
                      SubSeq(token_ids[s], 1, At(i, off) + 1)
    <2>1. i \in DOMAIN block_table[s] /\ block_table[s] # << >>
      BY <1>2, EmptySeq
    <2>2. /\ Manager!Live(s)
          /\ Manager!Covered(s)' = Manager!Covered(s)
          /\ \A m \in 0 .. Manager!Covered(s) :
                 SubSeq(token_ids'[s], 1, m) = SubSeq(token_ids[s], 1, m)
      BY <1>2, <2>1
    <2>3. At(i, off) + 1 \in 0 .. Manager!Covered(s)
      <3>1. i \in Int /\ i >= 1 /\ Manager!Covered(s) \in Nat
        BY <2>1, TableTypes DEF KVInv, SInv
      <3>2. At(i, off) \in Nat
        BY <3>1, AtPosition
      <3> QED  BY <1>2, <2>2, <3>1, <3>2
    <2> QED  BY <1>2, <2>1, <2>2, <2>3
  <1>3. PartialFilled'
    BY <1>2, PartialKept DEF KVInv
  <1> QED  BY <1>1, <1>3

\* The batch being made up only grows, and stays what it is for.
Grows ==
    \/ ToRun = {}
    \/ /\ ToRun \subseteq ToRun' /\ ForPrefill' = ForPrefill
       /\ UNCHANGED token_ids

LEMMA OwedQuiet ==
    ASSUME UNCHANGED << block_table, num_cached_tokens >>, Grows
    PROVE  OwedOn
  <1>1. CASE ToRun = {}
    BY <1>1 DEF OwedOn, Owed
  <1>2. CASE ToRun # {}
    <2>1. \A s, i, off : Due(s, i, off) => Due(s, i, off)'
      BY <1>2 DEF Due, len, Grows
    <2>2. ToRun \subseteq ToRun'
      BY <1>2 DEF Grows
    <2> QED  BY <2>1, <2>2, OwedKept
  <1> QED  BY <1>1, <1>2

LEMMA RunNothing ==
    ASSUME SInv, pc \in {"idle", "post", "finish"}
    PROVE  ToRun = {}
  <1>1. CASE pc = "idle"
    <2>1. ToSet(scheduled_seqs) = {}
      BY <1>1, EmptyElements DEF SInv, QInv, BatchOK
    <2> QED  BY <1>1, <2>1 DEF ToRun
  <1>2. CASE pc \in {"post", "finish"}
    BY <1>2 DEF ToRun
  <1> QED  BY <1>1, <1>2

LEMMA StepGrows ==
    ASSUME SInv,
           \/ \E s \in SeqId, r \in Requests : add(s, r)
           \/ schedule \/ Admit \/ Admitted \/ EndAdmission
           \/ TakeFront \/ PreemptVictim \/ PreemptSelf \/ ScheduleDecode
           \/ EndDecode \/ PostProcess \/ UNCHANGED vars
    PROVE  Grows
  <1>1. CASE \/ \E s \in SeqId, r \in Requests : add(s, r)
             \/ schedule \/ PostProcess
    <2>1. pc \in {"idle", "post", "finish"}
      BY <1>1 DEF add, schedule, PostProcess, postprocess, Finish, EndStep
    <2> QED  BY <2>1, RunNothing DEF Grows
  <1>2. CASE Admit
    <2>1. UNCHANGED << scheduled_seqs, token_ids >> /\ pc = "admit" /\ pc' = "admitted"
      BY <1>2 DEF Admit, BeginAllocate, queueVars
    <2> QED  BY <2>1 DEF Grows, ToRun, ForPrefill
  <1>3. CASE Admitted
    <2>1. /\ cur \in SeqId /\ pc = "admitted" /\ pc' = "admit"
          /\ UNCHANGED token_ids
          /\ scheduled_seqs' = Append(scheduled_seqs, cur)
      BY <1>3 DEF SInv, QInv, CurOK, Admitted, bmVars
    <2>2. ToSet(scheduled_seqs') = ToSet(scheduled_seqs) \cup {cur}
      BY <2>1, AppendElements DEF SInv, QInv, TypeOK
    <2> QED  BY <2>1, <2>2 DEF Grows, ToRun, ForPrefill
  <1>4. CASE EndAdmission
    <2>1. UNCHANGED << scheduled_seqs, token_ids, cur >> /\ pc = "admit"
      BY <1>4 DEF EndAdmission, bmVars, queueVars
    <2>2. CASE scheduled_seqs # << >>
      <3>1. is_prefill' = TRUE /\ pc' = "run"
        BY <1>4, <2>2 DEF EndAdmission
      <3> QED  BY <2>1, <3>1 DEF Grows, ToRun, ForPrefill
    <2>3. CASE scheduled_seqs = << >>
      BY <2>1, <2>3, EmptyElements DEF Grows, ToRun
    <2> QED  BY <2>2, <2>3
  <1>5. CASE TakeFront \/ PreemptVictim \/ PreemptSelf
    <2>1. /\ UNCHANGED << scheduled_seqs, token_ids >>
          /\ pc \in {"decode", "append"} /\ pc' \in {"decode", "append"}
      BY <1>5 DEF TakeFront, PreemptVictim, PreemptSelf, preempt, BeginDeallocate,
                  bmVars, localVars
    <2> QED  BY <2>1 DEF Grows, ToRun, ForPrefill
  <1>6. CASE ScheduleDecode
    <2>1. /\ cur \in SeqId /\ pc = "append" /\ pc' = "decode"
          /\ UNCHANGED token_ids
          /\ scheduled_seqs' = Append(scheduled_seqs, cur)
      BY <1>6 DEF SInv, QInv, CurOK, ScheduleDecode, may_append
    <2>2. ToSet(scheduled_seqs') = ToSet(scheduled_seqs) \cup {cur}
      BY <2>1, AppendElements DEF SInv, QInv, TypeOK
    <2> QED  BY <2>1, <2>2 DEF Grows, ToRun, ForPrefill
  <1>7. CASE EndDecode
    <2>1. /\ UNCHANGED << scheduled_seqs, token_ids, cur >>
          /\ pc = "decode" /\ pc' = "run" /\ is_prefill' = FALSE
      BY <1>7 DEF EndDecode, bmVars
    <2> QED  BY <2>1 DEF Grows, ToRun, ForPrefill
  <1>8. CASE UNCHANGED vars
    BY <1>8 DEF vars, bmVars, queueVars, localVars, Grows, ToRun, ForPrefill
  <1> QED  BY <1>1, <1>2, <1>3, <1>4, <1>5, <1>6, <1>7, <1>8

\* The steps of the scheduler that leave blocks and tables alone.
LEMMA QuietStepKept ==
    ASSUME KVInv, UNCHANGED kv,
           \/ \E s \in SeqId, r \in Requests : add(s, r)
           \/ schedule \/ Admit \/ Admitted \/ EndAdmission
           \/ TakeFront \/ PreemptVictim \/ PreemptSelf
           \/ EndDecode \/ PostProcess \/ UNCHANGED vars
    PROVE  /\ SealedFilled' /\ PartialFilled'
           /\ UNCHANGED block_table
           /\ \A s \in SeqId : block_table[s] # << >> /\ Manager!Live(s)' =>
                  Manager!Covered(s)' = Manager!Covered(s)
  <1>0. SInv /\ QInv /\ Manager!IInv
    BY DEF KVInv, SInv
  <1>1. Manager!QuietStep \/ UNCHANGED Manager!vars
    <2>1. ASSUME NEW s \in SeqId, NEW r \in Requests, add(s, r)
          PROVE  Manager!QuietStep
      <3>1. Manager!NewRequest(s, r.prompt)
        BY <1>0, <2>1, addClient
      <3> QED  BY <3>1 DEF Manager!QuietStep
    <2>2. CASE Admit
      BY <1>0, <2>2, AdmitClient DEF Manager!QuietStep
    <2>3. CASE PreemptVictim
      BY <1>0, <2>3, PreemptVictimClient DEF Manager!QuietStep
    <2>4. CASE PreemptSelf
      BY <1>0, <2>4, PreemptSelfClient DEF Manager!QuietStep
    <2>5. CASE Finish
      BY <1>0, <2>5, FinishClient DEF Manager!QuietStep
    <2>6. ASSUME NEW t \in Sampled, postprocess(t)
          PROVE  Manager!QuietStep
      <3> DEFINE s == scheduled_seqs[post_i]
      <3>1. num_tokens_to_process[s] > 0 => finished_prefill(s)
        BY <1>0, <2>6, ComputesWhole
      <3>2. s \in SeqId /\ Manager!append_token(s, t)
        BY <1>0, <2>6, <3>1, postprocessClient
      <3> QED  BY <3>2 DEF Manager!QuietStep
    <2>7. CASE \/ schedule \/ Admitted \/ EndAdmission \/ TakeFront
               \/ EndDecode \/ EndStep \/ UNCHANGED vars
      BY <1>0, <2>7, LocalClient
    <2> QED  BY <2>1, <2>2, <2>3, <2>4, <2>5, <2>6, <2>7 DEF PostProcess
  <1>2. /\ UNCHANGED << blocks, block_table, num_cached_tokens >>
        /\ \A s \in SeqId : block_table[s] # << >> /\ Manager!Live(s)' =>
               /\ Manager!Live(s)
               /\ Manager!Covered(s)' = Manager!Covered(s)
               /\ \A m \in 0 .. Manager!Covered(s) :
                      SubSeq(token_ids'[s], 1, m) = SubSeq(token_ids[s], 1, m)
    <2>1. CASE Manager!QuietStep
      BY <1>0, <2>1, ManagerAssumptions, Manager!QuietTokens
    <2>2. CASE UNCHANGED Manager!vars
      <3>1. UNCHANGED << blocks, block_table, num_cached_tokens, token_ids, call,
                         Pending >>
        BY <2>2 DEF Manager!vars, Manager!bmVars
      <3> QED  BY <3>1 DEF Manager!Live, Manager!Covered
    <2> QED  BY <1>1, <2>1, <2>2
  <1>3. OwedOn
    BY <1>0, <1>2, StepGrows, OwedQuiet
  <1> QED  BY <1>2, <1>3, QuietKept

-----------------------------------------------------------------------------
(* allocate: a block that is hit is filled, or about to be; a new one is the *)
(* batch's to fill                                                           *)

LEMMA AllocateKept ==
    ASSUME KVInv, HitsKnowTheirPrefix, UNCHANGED kv,
           BlockManagerStep, call.op = "allocate"
    PROVE  /\ SealedFilled' /\ PartialFilled'
           /\ \A t \in SeqId : Manager!Covered(t)' = Manager!Covered(t)
  <1>0. /\ SInv /\ QInv /\ Manager!IInv /\ Manager!ContentInv /\ Manager!ChainInv
        /\ Manager!HitsKnowTheirChain
    BY SameHits DEF KVInv, SInv
  <1>1. /\ UNCHANGED << Pending, scheduled_seqs, pc, cur >>
        /\ Manager!AllocateHitUsed \/ Manager!AllocateHitFree \/ Manager!AllocateMiss
    <2>1. Manager!BMStep /\ UNCHANGED Pending
      BY <1>0, BlockManagerClient
    <2>2. ~Manager!DeallocateStep
      BY DEF Manager!DeallocateStep
    <2> QED  BY <2>1, <2>2 DEF Manager!BMStep, BlockManagerStep, queueVars, localVars
  <1>2. PICK s \in SeqId, n \in Nat, b \in BlockId :
               /\ call.op = "allocate" /\ call.seq = s
               /\ n = Len(block_table[s])
               /\ UNCHANGED token_ids
               /\ \A t \in SeqId : /\ Manager!Live(t) /\ Manager!Live(t)'
                                   /\ Manager!Covered(t)' = Manager!Covered(t)
               /\ \A t \in SeqId : t # s =>
                      /\ block_table'[t] = block_table[t]
                      /\ num_cached_tokens'[t] = num_cached_tokens[t]
               /\ Manager!Covered(s) = Len(token_ids[s])
               /\ DOMAIN block_table'[s] = DOMAIN block_table[s] \cup {n + 1}
               /\ \A i \in DOMAIN block_table[s] :
                      block_table'[s][i] = block_table[s][i]
               /\ block_table'[s][n + 1] = b
               /\ \A c \in BlockId : c # b => blocks'[c].hash = blocks[c].hash
               /\ num_cached_tokens[s] <= n * BLOCK_SIZE
               /\ \/ /\ blocks'[b].hash = blocks[b].hash
                     /\ (n + 1) * BLOCK_SIZE <= Len(token_ids[s])
                     /\ num_cached_tokens[s] = n * BLOCK_SIZE
                  \/ /\ num_cached_tokens'[s] = num_cached_tokens[s]
                     /\ \/ blocks'[b].hash = kNoHash
                        \/ /\ blocks'[b].hash = Chain(token_ids[s], n + 1)
                           /\ (n + 1) * BLOCK_SIZE <= Len(token_ids[s])
    <2>1. Manager!BlockId = BlockId /\ Manager!kNoHash = kNoHash
      BY SameOperators DEF Manager!kNoHash, kNoHash
    <2> QED  BY <1>0, <1>1, <2>1, SameChain, ManagerAssumptions,
                Manager!IterationEntries
  <1>3. /\ n = Len(block_table[s]) /\ DOMAIN block_table[s] = 1 .. n
        /\ token_ids[s] \in Seq(Token) /\ Len(token_ids[s]) \in Nat
        /\ num_cached_tokens[s] \in Nat
    BY <1>0, <1>2, TableTypes DEF len
  <1>4. pc = "admitted" /\ cur = s
    BY <1>0, <1>2 DEF QInv, CallAtPc
  <1>5. s \in ToRun /\ ToRun' = ToRun /\ ForPrefill /\ ForPrefill'
    BY <1>1, <1>4 DEF ToRun, ForPrefill
  <1>6. ASSUME NEW off \in Offsets
        PROVE  /\ At(n + 1, off) \in Int
               /\ num_cached_tokens[s] <= At(n + 1, off)
               /\ (n + 1) * BLOCK_SIZE \in Int
               /\ At(n + 1, off) + 1 <= (n + 1) * BLOCK_SIZE
    <2>1. /\ At(n + 1, off) \in Int /\ (n + 1) * BLOCK_SIZE \in Int
          /\ ((n + 1) - 1) * BLOCK_SIZE <= At(n + 1, off)
          /\ At(n + 1, off) + 1 <= (n + 1) * BLOCK_SIZE
      <3>1. n + 1 \in Int
        OBVIOUS
      <3> QED  BY <3>1, AtPosition
    <2>2. (n + 1) - 1 = n /\ n * BLOCK_SIZE \in Int
      BY BlockProduct
    <2>3. num_cached_tokens[s] <= n * BLOCK_SIZE
      BY <1>2
    <2> QED  BY <1>3, <2>1, <2>2, <2>3
  <1>7. ASSUME NEW off \in Offsets, num_cached_tokens'[s] = num_cached_tokens[s],
               At(n + 1, off) < Len(token_ids[s])
        PROVE  Owed(b, off)'
    <2>1. Due(s, n + 1, off)'
      BY <1>2, <1>5, <1>6, <1>7 DEF Due, len
    <2> QED  BY <1>2, <1>5, <2>1 DEF Owed
  <1>8. OwedOn
    <2>1. ASSUME NEW t \in ToRun, NEW i \in DOMAIN block_table[t]
          PROVE  /\ i \in DOMAIN block_table'[t]
                 /\ block_table'[t][i] = block_table[t][i]
                 /\ \A off \in Offsets : Due(t, i, off) => Due(t, i, off)'
      <3>0. t \in SeqId
        BY DEF ToRun
      <3>1. CASE t # s
        BY <1>2, <1>5, <3>0, <3>1 DEF Due, len
      <3>2. CASE t = s
        <4>1. CASE num_cached_tokens'[s] = num_cached_tokens[s]
          BY <1>2, <1>5, <3>2, <4>1 DEF Due, len
        <4>2. CASE num_cached_tokens[s] = n * BLOCK_SIZE
          <5> SUFFICES ASSUME NEW off \in Offsets
                       PROVE  ~Due(s, i, off)
            BY <1>2, <3>2
          <5>1. i \in Int /\ n \in Int /\ i <= n
            BY <1>3, <3>2
          <5>2. /\ i * BLOCK_SIZE <= n * BLOCK_SIZE
                /\ i * BLOCK_SIZE \in Int /\ n * BLOCK_SIZE \in Int
            BY <5>1, BlockMultiples
          <5>3. At(i, off) \in Int /\ At(i, off) + 1 <= i * BLOCK_SIZE
            BY <5>1, AtPosition
          <5>4. ~(num_cached_tokens[s] <= At(i, off))
            BY <1>3, <4>2, <5>2, <5>3
          <5> QED  BY <1>5, <5>4 DEF Due
        <4> QED  BY <1>2, <4>1, <4>2
      <3> QED  BY <3>1, <3>2
    <2> QED  BY <1>5, <2>1, OwedKept
  <1>9. SealedFilled'
    <2> SUFFICES ASSUME NEW c \in BlockId,
                        blocks'[c].hash # blocks[c].hash,
                        blocks'[c].hash # kNoHash,
                        NEW t \in Seq(Token), NEW i \in Nat
                 PROVE  FilledFor(c, t, i)'
      BY <1>8, SealedKept DEF KVInv
    <2> SUFFICES ASSUME i >= 1, i * BLOCK_SIZE <= Len(t),
                        blocks'[c].hash = Chain(t, i), NEW off \in Offsets
                 PROVE  Filled(c, off, t, i)'
      BY DEF FilledFor
    <2>1. /\ c = b /\ num_cached_tokens'[s] = num_cached_tokens[s]
          /\ blocks'[b].hash = Chain(token_ids[s], n + 1)
          /\ (n + 1) * BLOCK_SIZE <= Len(token_ids[s])
      BY <1>2
    <2>2. Owed(b, off)'
      BY <1>3, <1>6, <1>7, <2>1
    <2> QED  BY <2>1, <2>2 DEF Filled
  <1>10. PartialFilled'
    <2> SUFFICES ASSUME NEW t \in SeqId, NEW i \in DOMAIN block_table'[t],
                        NEW off \in Offsets,
                        ~(i * BLOCK_SIZE <= Manager!Covered(t)'),
                        At(i, off) < Manager!Covered(t)'
                 PROVE  \/ Owed(block_table[t][i], off)'
                        \/ /\ Manager!Live(t) /\ i \in DOMAIN block_table[t]
                           /\ block_table'[t][i] = block_table[t][i]
                           /\ ~(i * BLOCK_SIZE <= Manager!Covered(t))
                           /\ At(i, off) < Manager!Covered(t)
                           /\ SubSeq(token_ids'[t], 1, At(i, off) + 1) =
                                  SubSeq(token_ids[t], 1, At(i, off) + 1)
      BY <1>8, PartialKept DEF KVInv
    <2>1. CASE i \in DOMAIN block_table[t]
      <3>1. /\ Manager!Live(t) /\ Manager!Covered(t)' = Manager!Covered(t)
            /\ block_table'[t][i] = block_table[t][i] /\ token_ids'[t] = token_ids[t]
        BY <1>2, <2>1
      <3> QED  BY <2>1, <3>1
    <2>2. CASE i \notin DOMAIN block_table[t]
      <3>1. t = s /\ i = n + 1 /\ Manager!Covered(s)' = Len(token_ids[s])
        BY <1>2, <2>2
      <3>2. num_cached_tokens'[s] = num_cached_tokens[s]
        BY <1>2, <3>1
      <3>3. Owed(b, off)'
        BY <1>7, <3>1, <3>2
      <3>4. block_table'[t][i] = b
        BY <1>2, <3>1
      <3> QED  BY <3>3, <3>4 DEF Owed
    <2> QED  BY <2>1, <2>2
  <1> QED  BY <1>2, <1>9, <1>10

-----------------------------------------------------------------------------
(* deallocate: what is dropped is not the batch's *)

LEMMA DeallocateKept ==
    ASSUME KVInv, UNCHANGED kv, BlockManagerStep, call.op = "deallocate"
    PROVE  /\ SealedFilled' /\ PartialFilled'
           /\ \A t \in SeqId : Manager!Covered(t)' = Manager!Covered(t)
  <1>0. SInv /\ QInv /\ Manager!IInv
    BY DEF KVInv, SInv
  <1>1. /\ UNCHANGED << Pending, scheduled_seqs, pc, cur, is_prefill >>
        /\ DeallocateStep
    <2>1. UNCHANGED Pending
      BY <1>0, BlockManagerClient
    <2> QED  BY <2>1 DEF BlockManagerStep, BMStep, AllocateHitUsed, AllocateHitFree,
                         AllocateMiss, queueVars, localVars
  <1>2. PICK s \in SeqId : s = call.seq /\ status[s] # "RUNNING"
    BY <1>0 DEF QInv, CallAtPc, TypeOK, BMTypeOK
  <1>3. /\ UNCHANGED token_ids
        /\ \A t \in SeqId : t # s =>
               /\ block_table'[t] = block_table[t]
               /\ num_cached_tokens'[t] = num_cached_tokens[t]
        /\ call' = NoCall \/ (call'.op = "deallocate" /\ call'.seq = s)
        /\ call' = NoCall => block_table'[s] = << >>
    BY <1>0, <1>2, BMStepCall DEF BlockManagerStep, QInv
  <1>4. \A b \in BlockId : blocks'[b].hash = blocks[b].hash
    <2> TAKE b \in BlockId
    <2> DEFINE d == block_table[call.seq][call.it]
    <2>1. blocks' = [blocks EXCEPT ![d].ref_count = @ - 1]
      BY <1>1 DEF DeallocateStep
    <2>2. blocks \in [BlockId -> Block]
      BY <1>0 DEF QInv, TypeOK, BMTypeOK
    <2> HIDE DEF d
    <2>3. CASE b # d
      BY <2>1, <2>2, <2>3
    <2>4. CASE b = d
      BY <2>1, <2>2, <2>4 DEF Block
    <2> QED  BY <2>3, <2>4
  <1>5. \A t \in SeqId : Manager!Covered(t)' = Manager!Covered(t)
    BY <1>1, <1>3 DEF Manager!Covered
  <1>6. s \notin ToRun
    <2>1. pc \in {"append", "decode", "post"}
      BY <1>0 DEF QInv, CallAtPc
    <2>2. CASE pc = "post"
      BY <2>2 DEF ToRun
    <2>3. CASE pc \in {"append", "decode"}
      <3>1. ASSUME s \in ToSet(scheduled_seqs)
            PROVE  s \in Unrun
        BY <2>3, <3>1 DEF Unrun
      <3>2. ASSUME s \in Unrun
            PROVE  FALSE
        BY <1>0, <1>2, <2>3, <3>2, UnrunRuns DEF QInv
      <3> QED  BY <2>3, <3>1, <3>2 DEF ToRun
    <2> QED  BY <2>1, <2>2, <2>3
  <1>7. OwedOn
    <2>1. ToRun' = ToRun /\ (ForPrefill' <=> ForPrefill)
      BY <1>1 DEF ToRun, ForPrefill
    <2>2. ASSUME NEW t \in ToRun, NEW i \in DOMAIN block_table[t]
          PROVE  /\ i \in DOMAIN block_table'[t]
                 /\ block_table'[t][i] = block_table[t][i]
                 /\ \A off \in Offsets : Due(t, i, off) => Due(t, i, off)'
      <3>1. t \in SeqId /\ t # s
        BY <1>6 DEF ToRun
      <3> QED  BY <1>3, <2>1, <3>1 DEF Due, len
    <2> QED  BY <2>1, <2>2, OwedKept
  <1>8. SealedFilled'
    BY <1>4, <1>7, SealedKept DEF KVInv
  <1>9. PartialFilled'
    <2> SUFFICES ASSUME NEW t \in SeqId, Manager!Live(t)',
                        NEW i \in DOMAIN block_table'[t], NEW off \in Offsets,
                        ~(i * BLOCK_SIZE <= Manager!Covered(t)'),
                        At(i, off) < Manager!Covered(t)'
                 PROVE  /\ Manager!Live(t) /\ i \in DOMAIN block_table[t]
                        /\ block_table'[t][i] = block_table[t][i]
                        /\ ~(i * BLOCK_SIZE <= Manager!Covered(t))
                        /\ At(i, off) < Manager!Covered(t)
                        /\ SubSeq(token_ids'[t], 1, At(i, off) + 1) =
                               SubSeq(token_ids[t], 1, At(i, off) + 1)
      BY <1>7, PartialKept DEF KVInv
    <2>1. t # s
      <3>1. ASSUME t = s
            PROVE  FALSE
        <4>1. call' = NoCall
          BY <1>3, <3>1 DEF Manager!Live
        <4> QED  BY <1>3, <3>1, <4>1
      <3> QED  BY <3>1
    <2> QED  BY <1>2, <1>3, <1>5, <2>1 DEF Manager!Live
  <1> QED  BY <1>5, <1>8, <1>9

-----------------------------------------------------------------------------
(* may_append: the position it makes room for is the batch's to fill *)

LEMMA ScheduleDecodeKept ==
    ASSUME KVInv, UNCHANGED kv, ScheduleDecode
    PROVE  /\ SealedFilled' /\ PartialFilled'
           /\ \A t \in SeqId : Manager!Covered(t) <= Manager!Covered(t)'
           /\ \A t \in SeqId : num_cached_tokens'[t] = num_cached_tokens[t]
  <1>0. /\ SInv /\ QInv /\ Manager!IInv /\ Manager!ContentInv /\ Manager!ChainInv
    BY DEF KVInv, SInv
  <1>1. cur \in SeqId /\ Manager!MayAppend(cur)
    BY <1>0, ScheduleDecodeClient
  <1>2. PICK s \in SeqId, n \in Nat :
               /\ s = cur /\ n = Len(block_table[s])
               /\ UNCHANGED << token_ids, num_cached_tokens >>
               /\ Len(token_ids[s]) = Manager!Covered(s) + 1
               /\ \A t \in SeqId : Manager!Live(t) /\ Manager!Live(t)'
               /\ \A t \in SeqId : t # s =>
                      /\ Manager!Covered(t)' = Manager!Covered(t)
                      /\ block_table'[t] = block_table[t]
               /\ Manager!Covered(s)' = Manager!Covered(s) + 1
               /\ DOMAIN block_table[s] \subseteq DOMAIN block_table'[s]
               /\ \A i \in DOMAIN block_table[s] :
                      block_table'[s][i] = block_table[s][i]
               /\ \A i \in DOMAIN block_table'[s] \ DOMAIN block_table[s] :
                      i = n + 1 /\ n * BLOCK_SIZE = Manager!Covered(s)
               /\ \A b \in BlockId :
                      \/ blocks'[b].hash = blocks[b].hash
                      \/ blocks'[b].hash = kNoHash
                      \/ /\ n \in DOMAIN block_table[s] /\ b = block_table[s][n]
                         /\ n * BLOCK_SIZE = Manager!Covered(s) + 1
                         /\ blocks'[b].hash = Chain(token_ids[s], n)
    <2>1. Manager!BlockId = BlockId /\ Manager!kNoHash = kNoHash
      BY SameOperators DEF Manager!kNoHash, kNoHash
    <2>2. Len(block_table[cur]) \in Nat
      BY <1>0, <1>1, TableTypes
    <2> QED  BY <1>0, <1>1, <2>1, <2>2, SameChain, ManagerAssumptions,
                Manager!MayAppendEntries
  <1>3. /\ token_ids[s] \in Seq(Token) /\ Manager!Covered(s) \in Nat
        /\ DOMAIN block_table[s] = 1 .. n
    BY <1>0, <1>2, TableTypes
  <1>4. /\ ToRun \subseteq ToRun' /\ s \in ToRun'
        /\ ~ForPrefill /\ ~ForPrefill'
    <2>1. /\ pc = "append" /\ pc' = "decode"
          /\ scheduled_seqs' = Append(scheduled_seqs, cur)
      BY DEF ScheduleDecode
    <2>2. ToSet(scheduled_seqs') = ToSet(scheduled_seqs) \cup {cur}
      BY <1>0, <1>1, <2>1, AppendElements DEF QInv, TypeOK
    <2> QED  BY <1>2, <2>1, <2>2 DEF ToRun, ForPrefill
  <1>5. OwedOn
    <2>1. ASSUME NEW t \in ToRun, NEW i \in DOMAIN block_table[t]
          PROVE  /\ i \in DOMAIN block_table'[t]
                 /\ block_table'[t][i] = block_table[t][i]
                 /\ \A off \in Offsets : Due(t, i, off) => Due(t, i, off)'
      <3>1. t \in SeqId
        BY DEF ToRun
      <3>2. i \in DOMAIN block_table'[t] /\ block_table'[t][i] = block_table[t][i]
        BY <1>2, <3>1
      <3>3. \A off \in Offsets : Due(t, i, off) => Due(t, i, off)'
        BY <1>2, <1>4 DEF Due, len
      <3> QED  BY <3>2, <3>3
    <2> QED  BY <1>4, <2>1, OwedKept
  <1>6. ASSUME NEW i \in DOMAIN block_table'[s], NEW off \in Offsets,
               At(i, off) = Manager!Covered(s)
        PROVE  Owed(block_table[s][i], off)'
    <2>1. Due(s, i, off)'
      BY <1>2, <1>3, <1>4, <1>6 DEF Due, len
    <2> QED  BY <1>4, <2>1 DEF Owed
  <1>7. SealedFilled'
    <2>1. ASSUME NEW b \in BlockId, n \in DOMAIN block_table[s], b = block_table[s][n],
                 n * BLOCK_SIZE = Manager!Covered(s) + 1,
                 blocks'[b].hash = Chain(token_ids[s], n),
                 NEW t \in Seq(Token), NEW i \in Nat
          PROVE  FilledFor(b, t, i)'
      <3> SUFFICES ASSUME i >= 1, i * BLOCK_SIZE <= Len(t),
                          blocks'[b].hash = Chain(t, i), NEW off \in Offsets
                   PROVE  Filled(b, off, t, i)'
        BY DEF FilledFor
      <3>1. n \in Nat /\ n >= 1 /\ n * BLOCK_SIZE <= Len(token_ids[s])
        BY <1>2, <1>3, <2>1
      <3>2. i = n /\ Upto(t, i, off) = Upto(token_ids[s], n, off)
        <4>1. Chain(t, i) = Chain(token_ids[s], n) /\ token_ids[s] \in Seq(Token)
          BY <1>3, <2>1
        <4> QED  BY <3>1, <4>1, SameChainSameSlots
      <3>3. At(n, off) \in Int /\ At(n, off) <= Manager!Covered(s)
        <4>1. n \in Int
          BY <3>1
        <4>2. At(n, off) \in Int /\ At(n, off) + 1 <= n * BLOCK_SIZE
          BY <4>1, AtPosition
        <4> QED  BY <1>3, <2>1, <4>2
      <3>4. CASE At(n, off) = Manager!Covered(s)
        <4>1. n \in DOMAIN block_table'[s] /\ block_table'[s][n] = b
          BY <1>2, <2>1
        <4>2. Owed(block_table[s][n], off)'
          BY <1>6, <3>4, <4>1
        <4>3. Owed(b, off)'
          BY <4>1, <4>2 DEF Owed
        <4> QED  BY <3>2, <4>3 DEF Filled
      <3>5. CASE At(n, off) # Manager!Covered(s)
        <4>1. At(n, off) < Manager!Covered(s) /\ ~(n * BLOCK_SIZE <= Manager!Covered(s))
          BY <1>3, <2>1, <3>3, <3>5
        <4>2. Filled(b, off, token_ids[s], n)
          BY <1>2, <2>1, <4>1 DEF KVInv, PartialFilled
        <4>3. Filled(b, off, t, i)
          BY <3>2, <4>2 DEF Filled, Holds, Upto
        <4> QED  BY <1>5, <4>3 DEF Filled, Holds, OwedOn
      <3> QED  BY <3>4, <3>5
    <2>2. ASSUME NEW b \in BlockId
          PROVE  \/ blocks'[b].hash = blocks[b].hash
                 \/ blocks'[b].hash = kNoHash
                 \/ \A t \in Seq(Token), i \in Nat : FilledFor(b, t, i)'
      <3>1. CASE /\ n \in DOMAIN block_table[s] /\ b = block_table[s][n]
                 /\ n * BLOCK_SIZE = Manager!Covered(s) + 1
                 /\ blocks'[b].hash = Chain(token_ids[s], n)
        <4>1. \A t \in Seq(Token), i \in Nat : FilledFor(b, t, i)'
          BY <2>1, <3>1
        <4> QED  BY <3>1, <4>1
      <3> QED  BY <1>2, <3>1
    <2> QED  BY <1>5, <2>2, SealedKept DEF KVInv
  <1>8. PartialFilled'
    <2> SUFFICES ASSUME NEW t \in SeqId, NEW i \in DOMAIN block_table'[t],
                        NEW off \in Offsets,
                        ~(i * BLOCK_SIZE <= Manager!Covered(t)'),
                        At(i, off) < Manager!Covered(t)'
                 PROVE  \/ Owed(block_table[t][i], off)'
                        \/ /\ Manager!Live(t) /\ i \in DOMAIN block_table[t]
                           /\ block_table'[t][i] = block_table[t][i]
                           /\ ~(i * BLOCK_SIZE <= Manager!Covered(t))
                           /\ At(i, off) < Manager!Covered(t)
                           /\ SubSeq(token_ids'[t], 1, At(i, off) + 1) =
                                  SubSeq(token_ids[t], 1, At(i, off) + 1)
      BY <1>5, PartialKept DEF KVInv
    <2>1. CASE t # s
      <3>1. /\ Manager!Live(t) /\ Manager!Covered(t)' = Manager!Covered(t)
            /\ block_table'[t] = block_table[t] /\ token_ids'[t] = token_ids[t]
        BY <1>2, <2>1
      <3> QED  BY <3>1
    <2>2. CASE t = s /\ At(i, off) = Manager!Covered(s)
      BY <1>6, <2>2
    <2>3. CASE t = s /\ At(i, off) # Manager!Covered(s)
      <3>1. i \in Int
        <4>1. i \in DOMAIN block_table[s] \/ i = n + 1
          BY <1>2, <2>3
        <4> QED  BY <1>3, <4>1
      <3>2. /\ At(i, off) \in Int /\ i * BLOCK_SIZE \in Int
            /\ (i - 1) * BLOCK_SIZE <= At(i, off)
        BY <3>1, AtPosition
      <3>3. At(i, off) < Manager!Covered(s) /\ ~(i * BLOCK_SIZE <= Manager!Covered(s))
        BY <1>2, <1>3, <2>3, <3>2
      <3>4. i \in DOMAIN block_table[s]
        <4> SUFFICES ASSUME i \notin DOMAIN block_table[s]
                     PROVE  FALSE
          OBVIOUS
        <4>1. i = n + 1 /\ n * BLOCK_SIZE = Manager!Covered(s)
          BY <1>2, <2>3
        <4>2. i - 1 = n
          BY <4>1
        <4> QED  BY <1>3, <3>2, <3>3, <4>1, <4>2
      <3>5. /\ Manager!Live(t) /\ block_table'[t][i] = block_table[t][i]
            /\ token_ids'[t] = token_ids[t]
        BY <1>2, <2>3, <3>4
      <3> QED  BY <2>3, <3>3, <3>4, <3>5
    <2> QED  BY <2>1, <2>2, <2>3
  <1>9. ASSUME NEW t \in SeqId
        PROVE  Manager!Covered(t) <= Manager!Covered(t)'
    <2>1. CASE t = s
      BY <1>2, <1>3, <2>1
    <2>2. CASE t # s
      <3>1. Manager!Covered(t) \in Nat
        BY <1>0, TableTypes
      <3> QED  BY <1>2, <2>2, <3>1
    <2> QED  BY <2>1, <2>2
  <1> QED  BY <1>2, <1>7, <1>8, <1>9

-----------------------------------------------------------------------------
(* What counts as computed *)

LEMMA RunningLive ==
    \A s \in SeqId : SInv' /\ status'[s] = "RUNNING" => Manager!Live(s)'
  BY DEF SInv, QInv, CallAtPc, Manager!Live

\* No step but the end of an admission makes a sequence run, and none but it
\* adds to what a running sequence will have computed.
LEMMA NewComputedFalls ==
    ASSUME SInv, [Next]_vars, ~Admitted,
           NEW s \in SeqId, status'[s] = "RUNNING"
    PROVE  status[s] = "RUNNING" /\ new_computed(s)' <= new_computed(s)
  <1>0. /\ status \in [SeqId -> Status]
        /\ num_computed_tokens \in [SeqId -> Nat]
        /\ num_tokens_to_process \in [SeqId -> Nat]
    BY DEF SInv, QInv, TypeOK
  <1>1. CASE \/ schedule \/ Admit \/ EndAdmission \/ TakeFront \/ EndDecode
             \/ run \/ Finish \/ EndStep \/ BlockManagerStep \/ UNCHANGED vars
    <2>1. UNCHANGED << status, num_computed_tokens, num_tokens_to_process >>
      BY <1>1 DEF schedule, Admit, EndAdmission, TakeFront, EndDecode, run,
                  Finish, EndStep, BlockManagerStep, vars, seqVars
    <2> QED  BY <1>0, <2>1 DEF new_computed
  <1>2. CASE PreemptVictim \/ PreemptSelf
    <2>1. /\ UNCHANGED << num_computed_tokens, num_tokens_to_process >>
          /\ \E t : status' = [status EXCEPT ![t] = "WAITING"]
      BY <1>2 DEF PreemptVictim, PreemptSelf, preempt
    <2> QED  BY <1>0, <2>1 DEF new_computed
  <1>3. CASE ScheduleDecode
    <2>1. /\ UNCHANGED << num_computed_tokens, status >>
          /\ num_tokens_to_process' = [num_tokens_to_process EXCEPT ![cur] = 0]
      BY <1>3 DEF ScheduleDecode
    <2>2. num_tokens_to_process'[s] <= num_tokens_to_process[s]
      BY <1>0, <2>1
    <2>3. num_tokens_to_process'[s] \in Nat
      BY <1>0, <2>1
    <2> QED  BY <1>0, <2>1, <2>2, <2>3 DEF new_computed
  <1>4. ASSUME NEW t \in SeqId, NEW r \in Requests, add(t, r)
        PROVE  status[s] = "RUNNING" /\ new_computed(s)' <= new_computed(s)
    <2>1. s # t /\ status[s] = "RUNNING"
      BY <1>0, <1>4 DEF add
    <2>2. /\ num_computed_tokens'[s] = num_computed_tokens[s]
          /\ num_tokens_to_process'[s] = num_tokens_to_process[s]
      BY <1>0, <1>4, <2>1 DEF add
    <2> QED  BY <1>0, <2>1, <2>2 DEF new_computed
  <1>5. ASSUME NEW t \in Sampled, postprocess(t)
        PROVE  status[s] = "RUNNING" /\ new_computed(s)' <= new_computed(s)
    <2> DEFINE u == scheduled_seqs[post_i]
    <2>1. /\ u \in SeqId /\ status[u] = "RUNNING"
      BY <1>5, PostprocessedSequence DEF SInv
    <2>2. /\ num_computed_tokens' = [num_computed_tokens EXCEPT ![u] = new_computed(u)]
          /\ num_tokens_to_process' = [num_tokens_to_process EXCEPT ![u] = 0]
          /\ \/ status' = [status EXCEPT ![u] = "FINISHED"]
             \/ status' = status
      BY <1>5 DEF postprocess
    <2>3. new_computed(u) \in Nat
      BY <2>1, NewComputed DEF SInv, QInv
    <2> HIDE DEF u
    <2>4. status[s] = "RUNNING"
      BY <1>0, <2>1, <2>2
    <2>5. CASE s = u
      BY <1>0, <2>2, <2>3, <2>4, <2>5 DEF new_computed
    <2>6. CASE s # u
      BY <1>0, <2>2, <2>4, <2>6 DEF new_computed
    <2> QED  BY <2>5, <2>6
  <1> QED  BY <1>1, <1>2, <1>3, <1>4, <1>5
           DEF Next, EngineStep, schedule_default, DecodeLoop, PostProcess

LEMMA ComputedKept ==
    ASSUME SInv, ComputedOK, SInv', [Next]_vars,
           \A s \in SeqId : block_table[s] # << >> /\ Manager!Live(s)' =>
               Manager!Covered(s) <= Manager!Covered(s)'
    PROVE  ComputedOK'
  <1> SUFFICES ASSUME NEW s \in SeqId, status'[s] = "RUNNING"
               PROVE  new_computed(s)' <= Manager!Covered(s)'
    BY DEF ComputedOK
  <1>0. TypeOK /\ TypeOK' /\ Manager!IInv
    BY DEF SInv, QInv
  <1>1. new_computed(s)' \in Nat
    <2>1. num_computed_tokens'[s] \in Nat /\ num_tokens_to_process'[s] \in Nat
      BY <1>0 DEF TypeOK
    <2> QED  BY <2>1 DEF new_computed
  <1>2. Manager!Covered(s)' \in Int
    <2>1. token_ids'[s] \in Seq(Token)
      BY <1>0 DEF TypeOK, BMTypeOK
    <2>2. Len(token_ids'[s]) \in Nat
      BY <2>1, LenProperties
    <2> QED  BY <2>2 DEF Manager!Covered
  <1>3. CASE status[s] = "RUNNING" /\ new_computed(s)' <= new_computed(s)
    <2>1. Manager!Covered(s) <= Manager!Covered(s)'
      BY <1>3, RunningTable, RunningLive
    <2>2. new_computed(s) <= Manager!Covered(s)
      BY <1>3 DEF ComputedOK
    <2>3. new_computed(s) \in Nat /\ Manager!Covered(s) \in Nat
      BY <1>0, NewComputed, TableTypes
    <2> QED  BY <1>1, <1>2, <1>3, <2>1, <2>2, <2>3
  <1>4. CASE Admitted
    <2>1. /\ pc = "admitted" /\ call = NoCall /\ pc' = "admit"
          /\ UNCHANGED bmVars
          /\ scheduled_seqs' = Append(scheduled_seqs, cur)
          /\ num_computed_tokens' =
                 [num_computed_tokens EXCEPT ![cur] = ComputedAtAdmission(cur)]
          /\ num_tokens_to_process' =
                 [num_tokens_to_process EXCEPT
                     ![cur] = len(cur) - ComputedAtAdmission(cur)]
          /\ status' = [status EXCEPT ![cur] = "RUNNING"]
      BY <1>4 DEF Admitted
    <2>2. cur \in SeqId /\ len(cur) \in Nat /\ ComputedAtAdmission(cur) \in Nat
      BY <2>1, AdmittedWork
    <2>3. CASE s = cur
      <3>1. new_computed(s)' = len(cur)
        <4> DEFINE m == ComputedAtAdmission(cur)
        <4> HIDE DEF m
        <4>1. num_computed_tokens'[s] = m /\ num_tokens_to_process'[s] = len(cur) - m
          BY <1>0, <2>1, <2>2, <2>3 DEF TypeOK, m
        <4>2. m \in Nat
          BY <2>2 DEF m
        <4> QED  BY <2>2, <4>1, <4>2 DEF new_computed
      <3>2. cur \in ToSet(scheduled_seqs')
        <4>1. scheduled_seqs \in Seq(SeqId)
          BY <1>0 DEF TypeOK
        <4>2. ToSet(scheduled_seqs') = ToSet(scheduled_seqs) \cup {cur}
          BY <2>1, <2>2, <4>1, AppendElements
        <4> QED  BY <4>2
      <3>3. ~Pending'[s]
        BY <2>1, <2>3, <3>2 DEF Pending, Unrun
      <3>4. Manager!Covered(s)' = len(cur)
        BY <2>1, <2>2, <2>3, <3>3 DEF Manager!Covered, len, bmVars
      <3> QED  BY <2>2, <3>1, <3>4
    <2>4. CASE s # cur
      <3>1. status[s] = "RUNNING" /\ new_computed(s)' = new_computed(s)
        BY <1>0, <2>1, <2>4 DEF TypeOK, new_computed
      <3> QED  BY <1>0, <1>3, <3>1, NewComputed
    <2> QED  BY <2>3, <2>4
  <1> QED  BY <1>3, <1>4, NewComputedFalls

-----------------------------------------------------------------------------
(* The run: every slot it owes is written, and none with anything else *)

\* A sequence of the batch is covered to its last token, by a table that has
\* the entry of every position.
LEMMA BatchSequence ==
    ASSUME SInv, pc = "run", NEW s \in Batch
    PROVE  /\ s \in SeqId /\ status[s] = "RUNNING" /\ Manager!Live(s)
           /\ Manager!Covered(s) = len(s) /\ len(s) \in Nat /\ len(s) >= 1
           /\ Len(block_table[s]) = num_blocks(token_ids[s])
           /\ block_table[s] # << >>
           /\ IF is_prefill THEN Prefilling(s) ELSE Decoding(s)
  <1>1. s \in SeqId /\ status[s] = "RUNNING"
    BY BatchRuns DEF Batch, SInv, QInv
  <1>2. Manager!Live(s) /\ block_table[s] # << >>
    BY <1>1, RunningTable
  <1>3. ~Pending[s]
    BY <1>1 DEF Pending, Unrun, Batch
  <1>4. token_ids[s] \in Seq(Token) /\ len(s) \in Nat
    BY <1>1, TableTypes DEF SInv
  <1>5. Manager!Covered(s) = len(s)
    BY <1>3, <1>4 DEF Manager!Covered, len
  <1>6. len(s) >= 1
    <2>1. token_ids[s] # << >>
      BY <1>1, <1>2 DEF SInv, Manager!IInv, Manager!ClientOK
    <2> QED  BY <1>4, <2>1, EmptySeq DEF len
  <1>7. Len(block_table[s]) = num_blocks(token_ids[s])
    BY RunnableBatch DEF BatchIsRunnable, Batch
  <1>8. IF is_prefill THEN Prefilling(s) ELSE Decoding(s)
    BY DEF SInv, WorkOK, Batch
  <1> QED  BY <1>1, <1>2, <1>4, <1>5, <1>6, <1>7, <1>8

\* What it computes: all but what is computed already, or its last token.
LEMMA BatchQueries ==
    ASSUME SInv, pc = "run", NEW s \in Batch
    PROVE  /\ query_end(s) = len(s)
           /\ is_prefill =>
                  /\ query_begin(s) \in Nat /\ query_begin(s) < len(s)
                  /\ query_begin(s) = num_computed_tokens[s]
                  /\ query_begin(s) <= num_cached_tokens[s]
                  /\ num_cached_tokens[s] \in Nat
           /\ \A p : p \in Queries(s) <=>
                  /\ p \in Nat /\ p < len(s)
                  /\ IF is_prefill THEN query_begin(s) <= p ELSE p = len(s) - 1
  <1>1. /\ s \in SeqId /\ len(s) \in Nat /\ len(s) >= 1
        /\ IF is_prefill THEN Prefilling(s) ELSE Decoding(s)
    BY BatchSequence
  <1>2. /\ num_cached_tokens[s] \in Nat /\ num_computed_tokens[s] \in Nat
        /\ num_tokens_to_process[s] \in Nat
    BY <1>1 DEF SInv, QInv, TypeOK, BMTypeOK
  <1>3. CASE is_prefill
    <2>1. /\ num_tokens_to_process[s] >= 1
          /\ num_computed_tokens[s] + num_tokens_to_process[s] = len(s)
          /\ num_computed_tokens[s] <= num_cached_tokens[s]
      BY <1>1, <1>3 DEF Prefilling, new_computed
    <2>2. query_begin(s) = num_computed_tokens[s]
      BY <1>2, <2>1 DEF query_begin
    <2>3. query_end(s) = len(s)
      BY <1>1, <1>2, <2>1, <2>2 DEF query_end
    <2>4. Queries(s) = num_computed_tokens[s] .. len(s) - 1
      BY <1>3, <2>2, <2>3 DEF Queries
    <2> QED  BY <1>1, <1>2, <1>3, <2>1, <2>2, <2>3, <2>4
  <1>4. CASE ~is_prefill
    BY <1>1, <1>4 DEF query_end, Queries
  <1> QED  BY <1>3, <1>4

\* The slot it writes for a position is the one its table has for it.
LEMMA BatchSlot ==
    ASSUME SInv, pc = "run", NEW s \in Batch, NEW p \in Nat, p < len(s)
    PROVE  LET i == p \div BLOCK_SIZE + 1
               off == p % BLOCK_SIZE IN
           /\ i \in DOMAIN block_table[s] /\ i \in Nat /\ i >= 1
           /\ off \in Offsets /\ At(i, off) = p
           /\ Slot(s, p) = << block_table[s][i], off >>
           /\ p \in Queries(s) =>
                  slot_mapping(s, p) = << block_table[s][i], off >>
  <1> DEFINE i == p \div BLOCK_SIZE + 1
             off == p % BLOCK_SIZE
             n == Len(block_table[s])
  <1>1. /\ s \in SeqId /\ status[s] = "RUNNING" /\ Manager!Covered(s) = len(s)
        /\ len(s) \in Nat /\ n = num_blocks(token_ids[s])
        /\ len(s) = Len(token_ids[s]) /\ len(s) >= 1
        /\ block_table[s] # << >>
    BY BatchSequence DEF len
  <1>2. i \in DOMAIN block_table[s]
    BY <1>1, RunningTable
  <1>3. i \in Nat /\ i >= 1 /\ off \in Offsets /\ At(i, off) = p
    BY PositionAt
  <1>4. Slot(s, p) = << block_table[s][i], off >>
    BY <1>2 DEF Slot
  <1>5. n \in Nat /\ DOMAIN block_table[s] = 1 .. n
    BY <1>1, TableTypes DEF SInv
  <1>6. ASSUME p \in Queries(s)
        PROVE  slot_mapping(s, p) = << block_table[s][i], off >>
    <2>1. CASE is_prefill
      BY <1>4, <2>1 DEF slot_mapping
    <2>2. CASE ~is_prefill
      <3>1. p = len(s) - 1
        BY <1>6, <2>2, BatchQueries
      <3>2. token_ids[s] # << >>
        BY <1>1
      <3>3. /\ slot_mapping(s, p) =
                  << block_table[s][n], last_block_num_tokens(token_ids[s]) - 1 >>
            /\ last_block_num_tokens(token_ids[s]) = len(s) - (n - 1) * BLOCK_SIZE
        BY <1>1, <2>2, <3>2 DEF slot_mapping, Last, last_block_num_tokens
      <3>4. /\ len(s) <= n * BLOCK_SIZE /\ (n - 1) * BLOCK_SIZE < len(s)
        BY <1>1, RunningTable
      <3>5. /\ (i - 1) * BLOCK_SIZE <= p /\ p + 1 <= i * BLOCK_SIZE
            /\ (i - 1) * BLOCK_SIZE \in Int /\ i * BLOCK_SIZE \in Int
            /\ p = (i - 1) * BLOCK_SIZE + off
        <4>1. i \in Int /\ off \in Offsets /\ At(i, off) = p
          BY <1>3
        <4> HIDE DEF i, off
        <4> QED  BY <4>1, AtPosition DEF At
      <3>6. n \in Int /\ i \in Int /\ n - 1 \in Int /\ i - 1 \in Int /\ i <= n
        BY <1>2, <1>3, <1>5
      <3>7. off \in Int
        BY <1>3, BlockSizeAssumption DEF Offsets
      <3> HIDE DEF i, off, n
      <3>8. n * BLOCK_SIZE \in Int /\ (n - 1) * BLOCK_SIZE \in Int
        BY <3>6, BlockMultiples
      <3>9. i <= n - 1 => i * BLOCK_SIZE <= (n - 1) * BLOCK_SIZE
        BY <3>6, BlockMultiples
      <3>10. i = n
        BY <1>1, <3>1, <3>4, <3>5, <3>6, <3>8, <3>9, SMTT(30)
      <3>11. last_block_num_tokens(token_ids[s]) - 1 = off
        BY <1>1, <3>1, <3>3, <3>5, <3>7, <3>8, <3>10
      <3> QED  BY <3>3, <3>10, <3>11
    <2> QED  BY <2>1, <2>2
  <1> QED  BY <1>2, <1>3, <1>4, <1>6

\* So a write names the entry it goes to.
LEMMA WrittenEntry ==
    ASSUME SInv, pc = "run", NEW s \in Batch, NEW p \in Queries(s),
           NEW b, NEW off, slot_mapping(s, p) = << b, off >>
    PROVE  \E i \in DOMAIN block_table[s] :
               /\ i \in Nat /\ i >= 1 /\ block_table[s][i] = b
               /\ off \in Offsets /\ At(i, off) = p
               /\ Prefix(s, p) = Upto(token_ids[s], i, off)
  <1>1. p \in Nat /\ p < len(s)
    BY BatchQueries
  <1> DEFINE i == p \div BLOCK_SIZE + 1
  <1>2. /\ i \in DOMAIN block_table[s] /\ i \in Nat /\ i >= 1
        /\ p % BLOCK_SIZE \in Offsets /\ At(i, p % BLOCK_SIZE) = p
        /\ slot_mapping(s, p) = << block_table[s][i], p % BLOCK_SIZE >>
    BY <1>1, BatchSlot
  <1>3. b = block_table[s][i] /\ off = p % BLOCK_SIZE
    BY <1>2
  <1> HIDE DEF i
  <1>4. Prefix(s, p) = Upto(token_ids[s], i, off)
    BY <1>2, <1>3 DEF Prefix, Upto
  <1> QED  BY <1>2, <1>3, <1>4

\* And what is owed is written.
LEMMA OwedWritten ==
    ASSUME SInv, pc = "run", NEW b, NEW off \in Offsets, Owed(b, off)
    PROVE  \E s \in Batch : \E p \in Queries(s) : slot_mapping(s, p) = << b, off >>
  <1>0. PICK s \in ToRun : \E i \in DOMAIN block_table[s] :
            block_table[s][i] = b /\ Due(s, i, off)
    BY DEF Owed
  <1>1. PICK i \in DOMAIN block_table[s] : block_table[s][i] = b /\ Due(s, i, off)
    BY <1>0
  <1>2. s \in Batch
    BY DEF ToRun, Batch
  <1>3. s \in SeqId /\ len(s) \in Nat /\ i \in Nat /\ i >= 1
    BY <1>2, BatchSequence, TableTypes DEF SInv
  <1> DEFINE p == At(i, off)
  <1>4. /\ p \in Nat /\ p < len(s)
        /\ p \div BLOCK_SIZE + 1 = i /\ p % BLOCK_SIZE = off
    BY <1>1, <1>3, AtPosition DEF Due
  <1>5. p \in Queries(s)
    <2>1. CASE is_prefill
      <3>1. num_cached_tokens[s] <= p
        BY <1>1, <2>1 DEF Due, ForPrefill
      <3>2. /\ query_begin(s) \in Nat /\ query_begin(s) <= num_cached_tokens[s]
            /\ num_cached_tokens[s] \in Nat
        BY <1>2, <2>1, BatchQueries
      <3> HIDE DEF p
      <3>3. query_begin(s) <= p
        BY <1>4, <3>1, <3>2
      <3> QED  BY <1>2, <1>4, <2>1, <3>3, BatchQueries
    <2>2. CASE ~is_prefill
      <3>1. p = len(s) - 1
        BY <1>1, <2>2 DEF Due, ForPrefill
      <3> HIDE DEF p
      <3> QED  BY <1>2, <1>4, <2>2, <3>1, BatchQueries
    <2> QED  BY <2>1, <2>2
  <1> HIDE DEF p
  <1>6. slot_mapping(s, p) = << block_table[s][i], off >>
    BY <1>2, <1>4, <1>5, BatchSlot
  <1> QED  BY <1>1, <1>2, <1>5, <1>6

\* A slot whose writes of this batch are all the same holds that after it.
LEMMA StoreOne ==
    ASSUME NEW b \in BlockId, NEW off \in Offsets, NEW x,
           \A s \in Batch : \A p \in Queries(s) :
               slot_mapping(s, p) = << b, off >> => Prefix(s, p) = x,
           \/ kv[<< b, off >>] = {x}
           \/ \E s \in Batch : \E p \in Queries(s) :
                  slot_mapping(s, p) = << b, off >>
    PROVE  store_kvcache[<< b, off >>] = {x}
  <1> DEFINE Written(c) == UNION { { Prefix(s, pos) : pos \in
                              { p \in Queries(s) : slot_mapping(s, p) = c } } :
                          s \in Batch }
             c == << b, off >>
  <1>1. c \in Slots
    BY DEF Slots, Offsets
  <1>2. \A y : y \in Written(c) <=>
            \E s \in Batch : \E p \in Queries(s) :
                slot_mapping(s, p) = c /\ y = Prefix(s, p)
    <2>1. ASSUME NEW y, y \in Written(c)
          PROVE  \E s \in Batch : \E p \in Queries(s) :
                     slot_mapping(s, p) = c /\ y = Prefix(s, p)
      <3>1. PICK s \in Batch :
              y \in { Prefix(s, pos) : pos \in
                         { p \in Queries(s) : slot_mapping(s, p) = c } }
        BY <2>1
      <3> QED  BY <3>1
    <2>2. ASSUME NEW y, NEW s \in Batch, NEW p \in Queries(s),
                 slot_mapping(s, p) = c, y = Prefix(s, p)
          PROVE  y \in Written(c)
      <3>1. y \in { Prefix(s, pos) : pos \in
                       { q \in Queries(s) : slot_mapping(s, q) = c } }
        BY <2>2
      <3> QED  BY <3>1
    <2> QED  BY <2>1, <2>2
  <1>3. store_kvcache[c] = IF Written(c) = {} THEN kv[c] ELSE Written(c)
    <2>1. store_kvcache =
              [d \in Slots |-> IF Written(d) = {} THEN kv[d] ELSE Written(d)]
      BY DEF store_kvcache
    <2> HIDE DEF Written, c
    <2> QED  BY <1>1, <2>1
  <1> HIDE DEF Written
  <1>4. \A y \in Written(c) : y = x
    BY <1>2
  <1>5. CASE Written(c) = {}
    <2>1. kv[c] = {x}
      BY <1>2, <1>5
    <2> QED  BY <1>3, <1>5, <2>1
  <1>6. CASE Written(c) # {}
    <2>1. Written(c) = {x}
      BY <1>4, <1>6
    <2> QED  BY <1>3, <1>6, <2>1
  <1> QED  BY <1>5, <1>6

\* A sealed block is only ever written with what it is sealed for.
LEMMA SealedWrites ==
    ASSUME KVInv, pc = "run", NEW b \in BlockId, NEW off \in Offsets,
           NEW t \in Seq(Token), NEW j \in Nat, j >= 1,
           j * BLOCK_SIZE <= Len(t), blocks[b].hash = Chain(t, j),
           NEW s \in Batch, NEW p \in Queries(s), slot_mapping(s, p) = << b, off >>
    PROVE  Prefix(s, p) = Upto(t, j, off)
  <1>0. SInv
    BY DEF KVInv
  <1>1. PICK i \in DOMAIN block_table[s] :
               /\ i \in Nat /\ i >= 1 /\ block_table[s][i] = b
               /\ off \in Offsets /\ At(i, off) = p
               /\ Prefix(s, p) = Upto(token_ids[s], i, off)
    BY <1>0, WrittenEntry
  <1>2. /\ s \in SeqId /\ Manager!Live(s) /\ Manager!Covered(s) = Len(token_ids[s])
        /\ token_ids[s] \in Seq(Token)
    BY <1>0, BatchSequence, TableTypes DEF len, SInv
  <1>3. blocks[b].hash # kNoHash
    BY ChainLength
  <1>4. i * BLOCK_SIZE <= Manager!Covered(s)
    BY <1>1, <1>2, <1>3, EntrySealed
  <1>5. blocks[b].hash = Chain(token_ids[s], i)
    BY <1>1, <1>2, <1>4, EntrySealed
  <1>6. i * BLOCK_SIZE <= Len(token_ids[s]) /\ Chain(token_ids[s], i) = Chain(t, j)
    BY <1>2, <1>4, <1>5
  <1>7. Upto(token_ids[s], i, off) = Upto(t, j, off)
    BY <1>1, <1>2, <1>6, SameChainSameSlots
  <1> QED  BY <1>1, <1>7

\* A partial block is only ever written by the sequence it belongs to.
LEMMA PartialWrites ==
    ASSUME KVInv, pc = "run", NEW s \in SeqId, Manager!Live(s),
           NEW i \in DOMAIN block_table[s], NEW off \in Offsets,
           ~(i * BLOCK_SIZE <= Manager!Covered(s)),
           NEW u \in Batch, NEW p \in Queries(u),
           slot_mapping(u, p) = << block_table[s][i], off >>
    PROVE  Prefix(u, p) = Upto(token_ids[s], i, off)
  <1>0. SInv /\ Manager!IInv /\ Manager!UnsealedPrivate
    BY DEF KVInv, SInv, Manager!ContentInv
  <1>1. PICK j \in DOMAIN block_table[u] :
               /\ j \in Nat /\ j >= 1 /\ block_table[u][j] = block_table[s][i]
               /\ Prefix(u, p) = Upto(token_ids[u], j, off)
    BY <1>0, WrittenEntry
  <1>2. u \in SeqId /\ Manager!Live(u)
    BY <1>0, BatchSequence
  <1>3. PICK b : b = block_table[s][i]
    OBVIOUS
  <1>4. blocks[b].hash = kNoHash
    BY <1>3, EntrySealed
  <1>5. /\ b \in Manager!BlockId /\ blocks[b].ref_count > 0
        /\ << s, i >> \in Manager!Refs(b)
    BY <1>0, <1>3, ManagerAssumptions, Manager!EntryReferenced
  <1>6. << u, j >> \in Manager!Refs(b)
    BY <1>0, <1>1, <1>2, <1>3, ManagerAssumptions, Manager!EntryReferenced
  <1>7. blocks[b].ref_count = 1
    BY <1>0, <1>4, <1>5 DEF Manager!UnsealedPrivate, Manager!kNoHash, kNoHash
  <1>8. << s, i >> = << u, j >>
    BY <1>0, <1>5, <1>6, <1>7, ManagerAssumptions, Manager!OnlyReference
  <1> QED  BY <1>1, <1>8

\* After the batch nothing is owed: every slot a block is sealed for holds
\* what it is sealed for ...
LEMMA StoreFillsSealed ==
    ASSUME KVInv, pc = "run", NEW b \in BlockId, NEW off \in Offsets,
           NEW t \in Seq(Token), NEW j \in Nat, j >= 1,
           j * BLOCK_SIZE <= Len(t), blocks[b].hash = Chain(t, j)
    PROVE  store_kvcache[<< b, off >>] = {Upto(t, j, off)}
  <1>1. \A s \in Batch : \A p \in Queries(s) :
            slot_mapping(s, p) = << b, off >> => Prefix(s, p) = Upto(t, j, off)
    BY SealedWrites
  <1>2. Filled(b, off, t, j)
    <2>1. FilledFor(b, t, j)
      BY DEF KVInv, SealedFilled
    <2> QED  BY <2>1 DEF FilledFor
  <1>3. \/ kv[<< b, off >>] = {Upto(t, j, off)}
        \/ \E s \in Batch : \E p \in Queries(s) : slot_mapping(s, p) = << b, off >>
    <2>1. CASE Owed(b, off)
      BY <2>1, OwedWritten DEF KVInv
    <2>2. CASE ~Owed(b, off)
      BY <1>2, <2>2 DEF Filled, Holds
    <2> QED  BY <2>1, <2>2
  <1> QED  BY <1>1, <1>3, StoreOne

\* ... and every covered slot of a partial block what its sequence needs.
LEMMA StoreFillsPartial ==
    ASSUME KVInv, pc = "run", NEW s \in SeqId, Manager!Live(s),
           NEW i \in DOMAIN block_table[s], NEW off \in Offsets,
           ~(i * BLOCK_SIZE <= Manager!Covered(s)), At(i, off) < Manager!Covered(s)
    PROVE  store_kvcache[<< block_table[s][i], off >>] = {Upto(token_ids[s], i, off)}
  <1>0. block_table[s][i] \in BlockId
    BY TableTypes DEF KVInv, SInv
  <1>1. \A u \in Batch : \A p \in Queries(u) :
            slot_mapping(u, p) = << block_table[s][i], off >> =>
                Prefix(u, p) = Upto(token_ids[s], i, off)
    BY PartialWrites
  <1>2. Filled(block_table[s][i], off, token_ids[s], i)
    BY DEF KVInv, PartialFilled
  <1>3. \/ kv[<< block_table[s][i], off >>] = {Upto(token_ids[s], i, off)}
        \/ \E u \in Batch : \E p \in Queries(u) :
               slot_mapping(u, p) = << block_table[s][i], off >>
    <2>1. CASE Owed(block_table[s][i], off)
      BY <2>1, OwedWritten DEF KVInv
    <2>2. CASE ~Owed(block_table[s][i], off)
      BY <1>2, <2>2 DEF Filled, Holds
    <2> QED  BY <2>1, <2>2
  <1> QED  BY <1>0, <1>1, <1>3, StoreOne

\* So the attention finds every covered position of a table.
LEMMA StoreFills ==
    ASSUME KVInv, pc = "run", NEW s \in SeqId, Manager!Live(s),
           NEW i \in DOMAIN block_table[s], NEW off \in Offsets,
           At(i, off) < Manager!Covered(s)
    PROVE  store_kvcache[<< block_table[s][i], off >>] = {Upto(token_ids[s], i, off)}
  <1>1. /\ block_table[s][i] \in BlockId /\ i \in Nat /\ i >= 1
        /\ token_ids[s] \in Seq(Token)
        /\ Manager!Covered(s) \in Nat /\ Len(token_ids[s]) \in Nat
        /\ Manager!Covered(s) <= Len(token_ids[s])
    BY TableTypes DEF KVInv, SInv, len
  <1>2. CASE i * BLOCK_SIZE <= Manager!Covered(s)
    <2>1. blocks[block_table[s][i]].hash = Chain(token_ids[s], i)
      BY <1>2, EntrySealed
    <2>2. i * BLOCK_SIZE <= Len(token_ids[s])
      <3>1. i * BLOCK_SIZE \in Int
        BY <1>1, AtPosition
      <3> QED  BY <1>1, <1>2, <3>1
    <2> QED  BY <1>1, <2>1, <2>2, StoreFillsSealed
  <1>3. CASE ~(i * BLOCK_SIZE <= Manager!Covered(s))
    BY <1>3, StoreFillsPartial
  <1> QED  BY <1>2, <1>3

LEMMA RunModelKept ==
    ASSUME KVInv, RunModel
    PROVE  /\ SealedFilled' /\ PartialFilled'
           /\ \A t \in SeqId : Manager!Covered(t)' = Manager!Covered(t)
  <1>0. SInv /\ Manager!IInv /\ pc = "run"
    BY DEF KVInv, SInv, RunModel, run
  <1>1. /\ kv' = store_kvcache
        /\ UNCHANGED << blocks, block_table, token_ids, call, Pending >>
    <2>1. UNCHANGED Manager!vars
      BY <1>0, LocalClient DEF SInv, RunModel
    <2> QED  BY <2>1 DEF RunModel, Manager!vars, Manager!bmVars
  <1>2. ASSUME NEW b \in BlockId, NEW t \in Seq(Token), NEW i \in Nat
        PROVE  FilledFor(b, t, i)'
    <2> SUFFICES ASSUME i >= 1, i * BLOCK_SIZE <= Len(t),
                        blocks'[b].hash = Chain(t, i), NEW off \in Offsets
                 PROVE  Filled(b, off, t, i)'
      BY DEF FilledFor
    <2>1. blocks[b].hash = Chain(t, i)
      BY <1>1
    <2>2. store_kvcache[<< b, off >>] = {Upto(t, i, off)}
      BY <1>0, <2>1, StoreFillsSealed
    <2> QED  BY <1>1, <2>2 DEF Filled, Holds
  <1>3. ASSUME NEW s \in SeqId, Manager!Live(s)', NEW i \in DOMAIN block_table'[s],
               NEW off \in Offsets,
               ~(i * BLOCK_SIZE <= Manager!Covered(s)'),
               At(i, off) < Manager!Covered(s)'
        PROVE  Filled(block_table[s][i], off, token_ids[s], i)'
    <2>1. /\ Manager!Live(s) /\ i \in DOMAIN block_table[s]
          /\ Manager!Covered(s)' = Manager!Covered(s)
      BY <1>1, <1>3 DEF Manager!Live, Manager!Covered
    <2>2. store_kvcache[<< block_table[s][i], off >>] = {Upto(token_ids[s], i, off)}
      BY <1>0, <1>3, <2>1, StoreFillsPartial
    <2> QED  BY <1>1, <2>2 DEF Filled, Holds, Upto
  <1>4. \A t \in SeqId : Manager!Covered(t)' = Manager!Covered(t)
    BY <1>1 DEF Manager!Covered
  <1>5. SealedFilled'
    BY <1>2 DEF SealedFilled
  <1>6. PartialFilled'
    BY <1>3 DEF PartialFilled
  <1> QED  BY <1>4, <1>5, <1>6

-----------------------------------------------------------------------------
(* The invariant *)

LEMMA KVInitially ==
    ASSUME RunnerInit
    PROVE  KVInv
  <1>1. SInv
    BY InitS DEF RunnerInit
  <1>2. Manager!ChainInv
    <2>1. Manager!Init
      BY InitClient DEF RunnerInit
    <2> QED  BY <2>1, ManagerAssumptions, Manager!InitChains
  <1>3. SealedFilled
    <2>1. \A b \in BlockId : blocks[b].hash = kNoHash
      BY DEF RunnerInit, Init, BMInit
    <2> QED  BY <2>1, ChainLength DEF SealedFilled, FilledFor
  <1>4. \A s \in SeqId : block_table[s] = << >> /\ status[s] = "FINISHED"
    BY DEF RunnerInit, Init, BMInit
  <1>5. PartialFilled
    BY <1>4 DEF PartialFilled
  <1>6. ComputedOK
    BY <1>4 DEF ComputedOK
  <1> QED  BY <1>1, <1>2, <1>3, <1>5, <1>6 DEF KVInv

LEMMA KVNext ==
    ASSUME KVInv, HitsKnowTheirPrefix, ~enable_chunked_prefill,
           [RunnerNext]_runnerVars
    PROVE  KVInv'
  <1>0. SInv /\ QInv
    BY DEF KVInv, SInv
  <1>1. [Next]_vars
    BY <1>0, DefaultStep
  <1>2. SInv'
    BY <1>0, <1>1, NextS
  <1>3. Manager!ChainInv'
    <2>1. [Manager!Next]_(Manager!vars)
      BY <1>0, <1>1, NextClient
    <2>2. /\ Manager!IInv /\ Manager!ContentInv /\ Manager!ChainInv
          /\ Manager!HitsKnowTheirChain
      BY SameHits DEF KVInv, SInv
    <2> QED  BY <2>1, <2>2, ManagerAssumptions, Manager!NextChains
  <1>4. /\ SealedFilled' /\ PartialFilled'
        /\ \A s \in SeqId : block_table[s] # << >> /\ Manager!Live(s)' =>
               Manager!Covered(s) <= Manager!Covered(s)'
    <2>0. \A s \in SeqId : Manager!Covered(s) \in Nat
      BY <1>0, TableTypes DEF SInv
    <2>1. CASE RunModel
      BY <2>0, <2>1, RunModelKept
    <2>2. CASE UNCHANGED kv /\ BlockManagerStep
      <3>1. call.op \in {"allocate", "deallocate"}
        BY <1>0, <2>2, BMStepCall DEF BlockManagerStep, QInv
      <3>2. CASE call.op = "allocate"
        BY <2>0, <2>2, <3>2, AllocateKept
      <3>3. CASE call.op = "deallocate"
        BY <2>0, <2>2, <3>3, DeallocateKept
      <3> QED  BY <3>1, <3>2, <3>3
    <2>3. CASE UNCHANGED kv /\ ScheduleDecode
      BY <2>3, ScheduleDecodeKept
    <2>4. CASE /\ UNCHANGED kv
               /\ \/ \E s \in SeqId, r \in Requests : add(s, r)
                  \/ schedule \/ Admit \/ Admitted \/ EndAdmission
                  \/ TakeFront \/ PreemptVictim \/ PreemptSelf
                  \/ EndDecode \/ PostProcess \/ UNCHANGED vars
      BY <2>0, <2>4, QuietStepKept
    <2>5. ~RunThrows
      <3> SUFFICES ASSUME pc = "run", NEW s \in Batch
                   PROVE  ~Refused(s)
        BY DEF RunThrows
      <3> QED  BY <1>0, BatchSequence DEF Refused
    <2> QED  BY <2>1, <2>2, <2>3, <2>4, <2>5
             DEF RunnerNext, OutsideRun, SchedulePath, schedule_default,
                 DecodeLoop, runnerVars
  <1>5. ComputedOK'
    BY <1>0, <1>1, <1>2, <1>4, ComputedKept DEF KVInv
  <1> QED  BY <1>2, <1>3, <1>4, <1>5 DEF KVInv

\* Slot by slot, the KV cache of the default path is right as long as every
\* cache hit finds its block as it was indexed: shared, reused, preempted and
\* recomputed as they may be, no block is ever filled with anything but what
\* it is sealed for and what its sequences need.
THEOREM CacheHolds ==
    ASSUME ~enable_chunked_prefill
    PROVE  RunnerSpec /\ []HitsKnowTheirPrefix => []KVInv
  <1>1. RunnerInit => KVInv
    BY KVInitially
  <1>2. KVInv /\ HitsKnowTheirPrefix /\ [RunnerNext]_runnerVars => KVInv'
    BY KVNext
  <1> QED  BY <1>1, <1>2, PTL DEF RunnerSpec

\* num_computed_tokens counts tokens whose K and V really are in the cache
\* when a step is over (sequence.h:39).
THEOREM ComputedMaterialized ==
    ASSUME ~enable_chunked_prefill
    PROVE  RunnerSpec /\ []HitsKnowTheirPrefix => []ComputedIsMaterialized
  <1>1. KVInv => ComputedIsMaterialized
    <2> SUFFICES ASSUME KVInv, pc = "idle", NEW s \in SeqId, status[s] = "RUNNING",
                        NEW pos \in 0 .. num_computed_tokens[s] - 1
                 PROVE  kv[Slot(s, pos)] = {Prefix(s, pos)}
      BY DEF ComputedIsMaterialized
    <2>0. SInv /\ TypeOK /\ Manager!IInv
      BY DEF KVInv, SInv, QInv
    <2>1. pos \in Nat /\ pos < Manager!Covered(s)
      <3>1. /\ num_computed_tokens[s] \in Nat /\ num_tokens_to_process[s] \in Nat
            /\ Manager!Covered(s) \in Nat
        BY <2>0, TableTypes DEF TypeOK
      <3>2. new_computed(s) <= Manager!Covered(s)
        BY DEF KVInv, ComputedOK
      <3> QED  BY <3>1, <3>2 DEF new_computed
    <2> DEFINE i == pos \div BLOCK_SIZE + 1
               off == pos % BLOCK_SIZE
    <2>2. i \in DOMAIN block_table[s] /\ Manager!Live(s)
      BY <2>0, <2>1, RunningTable
    <2>3. off \in Offsets /\ At(i, off) = pos
      BY <2>1, PositionAt
    <2>4. Slot(s, pos) = << block_table[s][i], off >>
      BY <2>2 DEF Slot
    <2>5. Prefix(s, pos) = Upto(token_ids[s], i, off)
      <3> HIDE DEF i, off
      <3> QED  BY <2>3 DEF Prefix, Upto
    <2> HIDE DEF i, off
    <2>6. Filled(block_table[s][i], off, token_ids[s], i)
      BY <2>1, <2>2, <2>3, TableFilled
    <2>7. ~Owed(block_table[s][i], off)
      <3>1. ToRun = {}
        BY <2>0, RunNothing
      <3> QED  BY <3>1 DEF Owed
    <2> QED  BY <2>4, <2>5, <2>6, <2>7 DEF Filled, Holds
  <1> QED  BY <1>1, CacheHolds, PTL

-----------------------------------------------------------------------------
(* What the attention reads *)

\* A prefill that has no block tables computes every sequence of its batch
\* from the start: the rows of its keys are the sequences, one after another.
LEMMA RowsOfBatch ==
    ASSUME SInv, pc = "run", is_prefill, ~block_tables_defined,
           NEW i \in DOMAIN scheduled_seqs,
           NEW pos \in 0 .. len(scheduled_seqs[i]) - 1
    PROVE  LET row == cu_seqlens_k(i) + pos + 1 IN
           /\ row \in DOMAIN BatchRows
           /\ BatchRows[row] = Prefix(scheduled_seqs[i], pos)
  <1> DEFINE q == [j \in DOMAIN scheduled_seqs |->
                      LET s == scheduled_seqs[j] IN
                      [k \in 1 .. query_end(s) - query_begin(s) |->
                          Prefix(s, query_begin(s) + k - 1)]]
             f == [j \in DOMAIN scheduled_seqs |-> query_end(scheduled_seqs[j])]
             n == Len(scheduled_seqs)
  <1>1. /\ n \in Nat /\ DOMAIN scheduled_seqs = 1 .. n
        /\ \A j \in 1 .. n : scheduled_seqs[j] \in Batch
    <2>1. scheduled_seqs \in Seq(SeqId)
      BY DEF SInv, QInv, TypeOK
    <2> QED  BY <2>1, LenProperties, ElementPositions DEF Batch
  <1>2. ASSUME NEW s \in Batch
        PROVE  /\ query_begin(s) = 0 /\ query_end(s) = len(s)
               /\ len(s) \in Nat /\ len(s) >= 1
               /\ \A k \in 1 .. len(s) : Prefix(s, k - 1) \in Seq(Token)
    <2>1. query_begin(s) \in Nat /\ query_end(s) = len(s) /\ ~(query_begin(s) > 0)
      BY BatchQueries DEF block_tables_defined
    <2>2. query_begin(s) = 0
      BY <2>1
    <2>3. len(s) \in Nat /\ len(s) >= 1
      BY BatchSequence
    <2>4. ASSUME NEW k \in 1 .. len(s)
          PROVE  Prefix(s, k - 1) \in Seq(Token)
      <3>1. k - 1 \in Queries(s)
        <4>1. k - 1 \in Nat /\ k - 1 < len(s) /\ query_begin(s) <= k - 1
          BY <2>2, <2>3
        <4> QED  BY <4>1, BatchQueries
      <3> QED  BY <3>1, PrefixType DEF SInv
    <2> QED  BY <2>1, <2>2, <2>3, <2>4
  <1>3. ASSUME NEW j \in 1 .. n
        PROVE  /\ q[j] = [k \in 1 .. len(scheduled_seqs[j]) |->
                             Prefix(scheduled_seqs[j], k - 1)]
               /\ q[j] \in Seq(Seq(Token)) /\ Len(q[j]) = len(scheduled_seqs[j])
               /\ f[j] = Len(q[j])
    <2>1. PICK s \in Batch : s = scheduled_seqs[j]
      BY <1>1
    <2>2. /\ query_begin(s) = 0 /\ query_end(s) = len(s) /\ len(s) \in Nat
          /\ \A k \in 1 .. len(s) : Prefix(s, k - 1) \in Seq(Token)
      BY <1>2
    <2>3. q[j] = [k \in 1 .. query_end(s) - query_begin(s) |->
                     Prefix(s, query_begin(s) + k - 1)]
      BY <1>1, <2>1
    <2>4. /\ query_end(s) - query_begin(s) = len(s)
          /\ \A k \in 1 .. len(s) : query_begin(s) + k - 1 = k - 1
      BY <2>2
    <2>5. q[j] = [k \in 1 .. len(s) |-> Prefix(s, k - 1)]
      <3> HIDE DEF q
      <3> QED  BY <2>3, <2>4
    <2>6. f[j] = len(s)
      BY <1>1, <2>1, <2>2
    <2> HIDE DEF q, f
    <2>7. q[j] \in Seq(Seq(Token)) /\ Len(q[j]) = len(s)
      BY <2>2, <2>5, SMTT(30)
    <2> QED  BY <2>1, <2>5, <2>6, <2>7
  <1>4. q \in Seq(Seq(Seq(Token))) /\ Len(q) = n
    <2>1. q = [j \in 1 .. n |-> q[j]]
      BY <1>1
    <2>2. \A j \in 1 .. n : q[j] \in Seq(Seq(Token))
      BY <1>3
    <2>3. PICK S : S = Seq(Seq(Token))
      OBVIOUS
    <2> HIDE DEF q, n
    <2>4. q \in [1 .. n -> S]
      BY <2>1, <2>2, <2>3
    <2>5. q \in Seq(S) /\ Len(q) = n
      BY <1>1, <2>4
    <2> QED  BY <2>3, <2>5
  <1>5. /\ BatchRows = FlattenSeq(q)
        /\ cu_seqlens_k(i) = SumFunctionOnSet(f, 1 .. i - 1)
    BY DEF BatchRows, cu_seqlens_k
  <1>6. i \in 1 .. n /\ len(scheduled_seqs[i]) \in Nat
    BY <1>1, <1>2
  <1> HIDE DEF q, f, n
  <1>7. i \in 1 .. Len(q) /\ pos + 1 \in 1 .. Len(q[i])
    BY <1>3, <1>4, <1>6
  <1>8. \A j \in 1 .. Len(q) : f[j] = Len(q[j])
    BY <1>3, <1>4
  <1>9. LET r == SumFunctionOnSet(f, 1 .. i - 1) + (pos + 1) IN
        r \in DOMAIN FlattenSeq(q) /\ FlattenSeq(q)[r] = q[i][pos + 1]
    <2>1. PICK S, k, p, g : S = Seq(Token) /\ k = pos + 1 /\ p = q /\ g = f
      OBVIOUS
    <2>2. p \in Seq(Seq(S))
      BY <1>4, <2>1
    <2>3. i \in 1 .. Len(p)
      BY <1>7, <2>1
    <2>4. k \in 1 .. Len(p[i])
      BY <1>7, <2>1
    <2>5. \A j \in 1 .. Len(p) : g[j] = Len(p[j])
      BY <1>8, <2>1
    <2>6. /\ SumFunctionOnSet(g, 1 .. i - 1) + k \in DOMAIN FlattenSeq(p)
          /\ FlattenSeq(p)[SumFunctionOnSet(g, 1 .. i - 1) + k] = p[i][k]
      BY <2>2, <2>3, <2>4, <2>5, FlattenElement
    <2> QED  BY <2>1, <2>6
  <1>10. q[i][pos + 1] = Prefix(scheduled_seqs[i], pos)
    <2>1. (pos + 1) - 1 = pos /\ pos + 1 \in 1 .. len(scheduled_seqs[i])
      BY <1>6
    <2> QED  BY <1>3, <1>6, <2>1
  <1>11. cu_seqlens_k(i) + pos + 1 = SumFunctionOnSet(f, 1 .. i - 1) + (pos + 1)
    <2>1. SumFunctionOnSet(f, 1 .. i - 1) \in Int
      <3>1. \A j \in 1 .. n : f[j] \in Nat
        BY <1>1, <1>2, <1>3
      <3> QED  BY <1>1, <1>6, <3>1, PartialSums
    <2> QED  BY <1>5, <2>1
  <1> QED  BY <1>5, <1>9, <1>10, <1>11

\* The attention of every batch finds exactly what its queries are to attend
\* to, at every position up to their own: the K and V of that token behind
\* that prefix, out of the paged cache or of the rows of the batch.  An int8
\* cache is another matter: its prefills read the rows even where the cache
\* holds the beginning.
THEOREM AttendsRight ==
    ASSUME ~enable_chunked_prefill, ~kv_cache_int8
    PROVE  RunnerSpec /\ []HitsKnowTheirPrefix => []AttendsToItsPrefix
  <1>1. KVInv => AttendsToItsPrefix
    <2> SUFFICES ASSUME KVInv, pc = "run", NEW i \in DOMAIN scheduled_seqs,
                        NEW pos \in 0 .. query_end(scheduled_seqs[i]) - 1
                 PROVE  Attended(i, pos) = {Prefix(scheduled_seqs[i], pos)}
      BY DEF AttendsToItsPrefix
    <2>0. SInv
      BY DEF KVInv
    <2>1. PICK s \in Batch : s = scheduled_seqs[i]
      <3>1. scheduled_seqs \in Seq(SeqId)
        BY <2>0 DEF SInv, QInv, TypeOK
      <3> QED  BY <3>1, LenProperties, ElementPositions DEF Batch
    <2>2. /\ s \in SeqId /\ Manager!Live(s) /\ Manager!Covered(s) = len(s)
          /\ len(s) \in Nat /\ query_end(s) = len(s)
      BY <2>0, BatchSequence, BatchQueries
    <2>3. pos \in Nat /\ pos < len(s)
      BY <2>1, <2>2
    <2>4. CASE block_tables_defined
      <3> DEFINE e == pos \div BLOCK_SIZE + 1
                 off == pos % BLOCK_SIZE
      <3>1. /\ e \in DOMAIN block_table[s] /\ off \in Offsets /\ At(e, off) = pos
            /\ Slot(s, pos) = << block_table[s][e], off >>
        BY <2>0, <2>3, BatchSlot
      <3> HIDE DEF e, off
      <3>2. store_kvcache[<< block_table[s][e], off >>] = {Upto(token_ids[s], e, off)}
        BY <2>2, <2>3, <3>1, StoreFills
      <3>3. Upto(token_ids[s], e, off) = Prefix(s, pos)
        BY <3>1 DEF Upto, Prefix
      <3>4. Attended(i, pos) = store_kvcache[Slot(s, pos)]
        BY <2>1, <2>4 DEF Attended
      <3> QED  BY <2>1, <3>1, <3>2, <3>3, <3>4
    <2>5. CASE ~block_tables_defined
      <3>1. is_prefill
        BY <2>5 DEF block_tables_defined
      <3>2. LET row == cu_seqlens_k(i) + pos + 1 IN
            row \in DOMAIN BatchRows /\ BatchRows[row] = Prefix(s, pos)
        <4>1. pos \in 0 .. len(scheduled_seqs[i]) - 1
          BY <2>1, <2>2, <2>3
        <4> QED  BY <2>0, <2>1, <2>5, <3>1, <4>1, RowsOfBatch
      <3> QED  BY <2>1, <2>5, <3>2 DEF Attended
    <2> QED  BY <2>4, <2>5
  <1> QED  BY <1>1, CacheHolds, PTL


-----------------------------------------------------------------------------
(* Workloads in which the tokens of a full block tell what came before them: *)
(* there the lookup, which compares one block's tokens only, cannot be wrong *)

\* The tokens v of an unfinished request r, as far as they may have come.
TextOf(r, v) ==
    /\ v \in Seq(Token) /\ Len(r.prompt) <= Len(v)
    /\ \A i \in 1 .. Len(r.prompt) : v[i] = r.prompt[i]
    /\ \A i \in Len(r.prompt) + 1 .. Len(v) :
           v[i] \in Sampled /\ (v[i] = eos => r.ignore_eos)
    /\ r.max_tokens = 0 \/ Len(v) - Len(r.prompt) < r.max_tokens

Texts == { v \in Seq(Token) : \E r \in Requests : TextOf(r, v) }

\* Block i of one text and block j of another have the same tokens only behind
\* the same prefix.
Positional ==
    \A v \in Texts, w \in Texts, i \in Nat \ {0}, j \in Nat \ {0} :
        /\ i * BLOCK_SIZE <= Len(v) /\ j * BLOCK_SIZE <= Len(w)
        /\ block(v, i - 1) = block(w, j - 1)
        => Chain(v, i) = Chain(w, j)

\* An unfinished sequence has a text of its request.
TextOK(s) ==
    \E r \in Requests :
        /\ TextOf(r, token_ids[s])
        /\ num_prompt_tokens[s] = Len(r.prompt)
        /\ max_tokens[s] = r.max_tokens /\ ignore_eos[s] = r.ignore_eos
TextsOK == \A s \in SeqId : status[s] # "FINISHED" => TextOK(s)

\* A block with tokens holds those of one of the texts, in use or not, and is
\* sealed under the chain up to them.
SealedText(b) ==
    \E v \in Texts, k \in Nat \ {0} :
        /\ k * BLOCK_SIZE <= Len(v)
        /\ blocks[b].hash = Chain(v, k) /\ blocks[b].token_ids = block(v, k - 1)
SealsOK == \A b \in BlockId : blocks[b].token_ids # << >> => SealedText(b)

TextInv == KVInv /\ TextsOK /\ SealsOK

LEMMA TextOfSequence ==
    ASSUME TextsOK, NEW s \in SeqId, status[s] # "FINISHED"
    PROVE  token_ids[s] \in Texts
  BY DEF TextsOK, TextOK, Texts, TextOf

LEMMA PromptText ==
    ASSUME NEW r \in Requests
    PROVE  TextOf(r, r.prompt)
  <1>1. r.prompt \in Seq(Token) /\ r.max_tokens \in Nat
    BY RequestsAssumption
  <1>2. Len(r.prompt) \in Nat
    BY <1>1, LenProperties
  <1>3. Len(r.prompt) + 1 .. Len(r.prompt) = {}
    BY <1>2
  <1>4. r.max_tokens = 0 \/ Len(r.prompt) - Len(r.prompt) < r.max_tokens
    BY <1>1, <1>2
  <1> QED  BY <1>1, <1>2, <1>3, <1>4 DEF TextOf

\* A token that does not finish the request makes another text of it.
LEMMA LongerText ==
    ASSUME NEW r \in Requests, NEW v, TextOf(r, v), NEW t \in Sampled,
           ~(~r.ignore_eos /\ t = eos),
           Len(v) - Len(r.prompt) + 1 # r.max_tokens
    PROVE  TextOf(r, Append(v, t))
  <1>1. /\ r.prompt \in Seq(Token) /\ r.max_tokens \in Nat /\ r.ignore_eos \in BOOLEAN
        /\ t \in Token /\ v \in Seq(Token)
    BY RequestsAssumption, SampledAssumption DEF TextOf
  <1>2. PICK m, n : m = Len(r.prompt) /\ n = Len(v)
    OBVIOUS
  <1>3. m \in Nat /\ n \in Nat /\ m <= n
    BY <1>1, <1>2, LenProperties DEF TextOf
  <1>4. PICK w : w = Append(v, t)
    OBVIOUS
  <1>5. /\ w \in Seq(Token) /\ Len(w) = n + 1 /\ w[n + 1] = t
        /\ \A i \in 1 .. n : w[i] = v[i]
    BY <1>1, <1>2, <1>4, AppendProperties
  <1>6. ASSUME NEW i \in 1 .. m
        PROVE  w[i] = r.prompt[i]
    <2>1. i \in 1 .. n
      BY <1>3
    <2>2. v[i] = r.prompt[i]
      BY <1>2 DEF TextOf
    <2> QED  BY <1>5, <2>1, <2>2
  <1>7. ASSUME NEW i \in m + 1 .. n + 1
        PROVE  w[i] \in Sampled /\ (w[i] = eos => r.ignore_eos)
    <2>1. CASE i = n + 1
      BY <1>1, <1>5, <2>1
    <2>2. CASE i # n + 1
      <3>1. i \in m + 1 .. n /\ i \in 1 .. n
        BY <1>3, <2>2
      <3>2. v[i] \in Sampled /\ (v[i] = eos => r.ignore_eos)
        BY <1>2, <3>1 DEF TextOf
      <3> QED  BY <1>5, <3>1, <3>2
    <2> QED  BY <2>1, <2>2
  <1>8. r.max_tokens = 0 \/ (n + 1) - m < r.max_tokens
    <2>1. r.max_tokens = 0 \/ n - m < r.max_tokens
      BY <1>2 DEF TextOf
    <2>2. n - m + 1 # r.max_tokens
      BY <1>2
    <2> QED  BY <1>1, <1>3, <2>1, <2>2
  <1>9. m <= n + 1
    BY <1>3
  <1>10. TextOf(r, w)
    BY <1>2, <1>5, <1>6, <1>7, <1>8, <1>9 DEF TextOf
  <1> QED  BY <1>4, <1>10

\* In such a workload every hit finds its block as it was indexed.
LEMMA PositionalHits ==
    ASSUME TextInv, Positional
    PROVE  HitsKnowTheirPrefix
  <1>0. SInv /\ QInv /\ Manager!IInv /\ Manager!ContentInv /\ Manager!ChainInv
    BY DEF TextInv, KVInv, SInv
  <1> SUFFICES ASSUME call.op = "allocate", Manager!CacheHit
               PROVE  blocks[hash_to_block_id[Manager!LoopHash]].hash = Manager!LoopHash
    BY SameHits DEF Manager!HitsKnowTheirChain
  <1>1. PICK s, n, b, t : /\ s = call.seq /\ n = Manager!LoopIndex
                          /\ b = hash_to_block_id[Manager!LoopHash]
                          /\ t = token_ids[s]
    OBVIOUS
  <1>2. s \in SeqId /\ n \in Nat /\ b \in BlockId
    BY <1>0, <1>1, SameOperators, ManagerAssumptions, Manager!LoopTypes, Manager!HitBlock
  <1>3. blocks[b].token_ids = Manager!LoopTokens /\ Manager!LoopHash # Manager!kNoHash
    BY <1>0, <1>1 DEF Manager!CacheHit, Manager!ContentInv, Manager!IndexHashed
  <1>4. /\ (n + 1) * BLOCK_SIZE <= Len(t)
        /\ Len(Manager!LoopTokens) = BLOCK_SIZE
    BY <1>0, <1>1, <1>3, ManagerAssumptions, Manager!LoopHashFull
  <1>5. Manager!LoopTokens = block(t, n)
    BY <1>1, SameBlockOperators DEF Manager!LoopTokens
  <1>6. Manager!LoopHash = Append(Chain(t, n), block(t, n))
    <2>1. call.h = Chain(t, n)
      BY <1>0, <1>1, SameChain DEF Manager!ChainInv, Manager!LoopOK
    <2> QED  BY <1>4, <1>5, <2>1 DEF Manager!LoopHash, Manager!compute_hash
  <1>7. t \in Texts
    <2>1. pc = "admitted" /\ s = cur
      BY <1>0, <1>1 DEF QInv, CallAtPc
    <2>2. status[s] = "WAITING"
      BY <1>0, <2>1, AdmittedSequence
    <2> QED  BY <1>1, <1>2, <2>2, TextOfSequence DEF TextInv
  <1>8. SealedText(b)
    <2>1. blocks[b].token_ids # << >>
      <3>1. Len(<< >>) = 0 /\ BLOCK_SIZE # 0
        BY BlockSizeAssumption
      <3> QED  BY <1>3, <1>4, <3>1
    <2> QED  BY <1>2, <2>1 DEF TextInv, SealsOK
  <1>9. PICK v \in Texts, k \in Nat \ {0} :
            /\ k * BLOCK_SIZE <= Len(v)
            /\ blocks[b].hash = Chain(v, k) /\ blocks[b].token_ids = block(v, k - 1)
    BY <1>8 DEF SealedText
  <1>10. PICK m \in Nat \ {0} : m = n + 1 /\ m - 1 = n
    BY <1>2
  <1>11. block(v, k - 1) = block(t, m - 1) /\ m * BLOCK_SIZE <= Len(t)
    BY <1>3, <1>4, <1>5, <1>9, <1>10
  <1>12. Chain(v, k) = Chain(t, m)
    BY <1>7, <1>9, <1>11 DEF Positional
  <1>13. Append(Chain(t, n), block(t, n)) = Chain(t, m)
    BY <1>2, <1>7, <1>10, ChainAppend DEF Texts
  <1> QED  BY <1>1, <1>6, <1>9, <1>12, <1>13

\* A step lets no finished sequence come back but a new request.
LEMMA TextsKept ==
    ASSUME SInv, TextsOK, [Next]_vars
    PROVE  TextsOK'
  <1>0. QInv /\ TypeOK
    BY DEF SInv, QInv
  <1>1. SUFFICES ASSUME NEW s \in SeqId, status'[s] # "FINISHED"
                 PROVE  TextOK(s)'
    BY DEF TextsOK
  <1>2. ASSUME status[s] # "FINISHED",
               /\ token_ids'[s] = token_ids[s] /\ max_tokens'[s] = max_tokens[s]
               /\ num_prompt_tokens'[s] = num_prompt_tokens[s]
               /\ ignore_eos'[s] = ignore_eos[s]
        PROVE  TextOK(s)'
    <2>1. TextOK(s)
      BY <1>2 DEF TextsOK
    <2> QED  BY <1>2, <2>1 DEF TextOK
  <1>3. ASSUME NEW u \in SeqId, NEW r \in Requests, add(u, r)
        PROVE  TextOK(s)'
    <2>1. CASE s = u
      <3>1. /\ token_ids'[s] = r.prompt /\ num_prompt_tokens'[s] = Len(r.prompt)
            /\ max_tokens'[s] = r.max_tokens /\ ignore_eos'[s] = r.ignore_eos
        BY <1>0, <1>3, <2>1 DEF add, TypeOK, BMTypeOK
      <3>2. TextOf(r, token_ids'[s])
        BY <3>1, PromptText
      <3> QED  BY <3>1, <3>2 DEF TextOK
    <2>2. CASE s # u
      <3>1. /\ status[s] # "FINISHED"
            /\ token_ids'[s] = token_ids[s] /\ max_tokens'[s] = max_tokens[s]
            /\ num_prompt_tokens'[s] = num_prompt_tokens[s]
            /\ ignore_eos'[s] = ignore_eos[s]
        BY <1>0, <1>1, <1>3, <2>2 DEF add, TypeOK, BMTypeOK
      <3> QED  BY <1>2, <3>1
    <2> QED  BY <2>1, <2>2
  <1>4. ASSUME NEW t \in Sampled, postprocess(t)
        PROVE  TextOK(s)'
    <2>1. PICK u : u = scheduled_seqs[post_i]
      OBVIOUS
    <2>2. u \in SeqId /\ status[u] = "RUNNING"
      BY <1>0, <1>4, <2>1, PostprocessedSequence
    <2>3. num_tokens_to_process[u] > 0 => finished_prefill(u)
      BY <1>4, <2>1, ComputesWhole
    <2>4. PICK done \in BOOLEAN :
              done <=> \/ ~ignore_eos[u] /\ t = eos
                       \/ num_completion_tokens(u) + 1 = max_tokens[u]
      <3>1. (\/ ~ignore_eos[u] /\ t = eos
             \/ num_completion_tokens(u) + 1 = max_tokens[u]) \in BOOLEAN
        OBVIOUS
      <3> QED  BY <3>1
    <2>5. /\ token_ids' = [token_ids EXCEPT ![u] = Append(@, t)]
          /\ UNCHANGED requestVars
          /\ IF done THEN status' = [status EXCEPT ![u] = "FINISHED"]
                     ELSE UNCHANGED status
      BY <1>4, <2>1, <2>3, <2>4 DEF postprocess
    <2>6. CASE s # u
      <3>1. /\ status[s] # "FINISHED"
            /\ token_ids'[s] = token_ids[s] /\ max_tokens'[s] = max_tokens[s]
            /\ num_prompt_tokens'[s] = num_prompt_tokens[s]
            /\ ignore_eos'[s] = ignore_eos[s]
        BY <1>0, <1>1, <2>2, <2>5, <2>6 DEF requestVars, TypeOK, BMTypeOK
      <3> QED  BY <1>2, <3>1
    <2>7. CASE s = u
      <3>1. ~done
        BY <1>0, <1>1, <2>2, <2>5, <2>7 DEF TypeOK
      <3>2. /\ token_ids'[s] = Append(token_ids[s], t) /\ max_tokens'[s] = max_tokens[s]
            /\ num_prompt_tokens'[s] = num_prompt_tokens[s]
            /\ ignore_eos'[s] = ignore_eos[s]
        BY <1>0, <2>2, <2>5, <2>7 DEF requestVars, TypeOK, BMTypeOK
      <3>3. PICK r \in Requests :
              /\ TextOf(r, token_ids[s])
              /\ num_prompt_tokens[s] = Len(r.prompt)
              /\ max_tokens[s] = r.max_tokens /\ ignore_eos[s] = r.ignore_eos
        BY <2>2, <2>7 DEF TextsOK, TextOK
      <3>4. /\ ~(~r.ignore_eos /\ t = eos)
            /\ Len(token_ids[s]) - Len(r.prompt) + 1 # r.max_tokens
        BY <2>4, <2>7, <3>1, <3>3 DEF num_completion_tokens, len
      <3>5. TextOf(r, token_ids'[s])
        BY <3>2, <3>3, <3>4, LongerText
      <3> QED  BY <3>2, <3>3, <3>5 DEF TextOK
    <2> QED  BY <2>6, <2>7
  <1>5. ASSUME UNCHANGED << token_ids, requestVars >>, status[s] # "FINISHED"
        PROVE  TextOK(s)'
    BY <1>2, <1>5 DEF requestVars
  <1>6. CASE Admitted
    <2>1. cur \in SeqId /\ status[cur] = "WAITING"
      BY <1>0, <1>6, AdmittedSequence DEF Admitted
    <2>2. status[s] # "FINISHED" /\ UNCHANGED << token_ids, requestVars >>
      BY <1>0, <1>1, <1>6, <2>1 DEF Admitted, bmVars, TypeOK
    <2> QED  BY <1>5, <2>2
  <1>7. CASE PreemptVictim \/ PreemptSelf
    <2>1. PICK u \in SeqId : /\ status' = [status EXCEPT ![u] = "WAITING"]
                             /\ status[u] = "RUNNING"
      <3>1. PICK u : /\ status' = [status EXCEPT ![u] = "WAITING"]
                     /\ u \in SeqId /\ Yields(u) /\ pc = "append"
        <4>1. CASE PreemptVictim
          BY <1>0, <4>1, PreemptVictimMoves DEF PreemptVictim, preempt
        <4>2. CASE PreemptSelf
          <5>1. cur \in SeqId
            BY <1>0, <4>2 DEF QInv, CurOK, PreemptSelf
          <5> QED  BY <1>0, <4>2, <5>1, PreemptSelfMoves DEF PreemptSelf, preempt
        <4> QED  BY <1>7, <4>1, <4>2
      <3>2. u \in ToSet(Hand)
        <4>1. Hand' \in Seq(SeqId) /\ Hand = Append(Hand', u)
          BY <3>1 DEF Yields
        <4>2. PICK h : h = Hand'
          OBVIOUS
        <4> QED  BY <3>1, <4>1, <4>2, AppendElements
      <3>3. u \in Busy
        BY <1>0, <3>2, QueuesParts DEF QInv
      <3> QED  BY <3>1, <3>3 DEF Busy
    <2>2. status[s] # "FINISHED"
      BY <1>0, <1>1, <2>1 DEF TypeOK
    <2>3. UNCHANGED << token_ids, requestVars >>
      BY <1>7 DEF PreemptVictim, PreemptSelf, preempt, BeginDeallocate
    <2> QED  BY <1>5, <2>2, <2>3
  <1>8. CASE \/ schedule \/ Admit \/ EndAdmission \/ TakeFront \/ ScheduleDecode
             \/ EndDecode \/ run \/ Finish \/ EndStep \/ UNCHANGED vars
    <2>1. UNCHANGED << token_ids, requestVars, status >>
      BY <1>8 DEF schedule, Admit, EndAdmission, TakeFront, ScheduleDecode,
                  EndDecode, run, Finish, EndStep, vars, bmVars, seqVars,
                  requestVars, BeginAllocate, BeginDeallocate, may_append
    <2> QED  BY <1>1, <1>5, <2>1
  <1>9. CASE BlockManagerStep
    <2>1. UNCHANGED << token_ids, requestVars, status >>
      BY <1>9 DEF BlockManagerStep, BMStep, AllocateHitUsed, AllocateHitFree,
                  AllocateMiss, DeallocateStep, EndIteration, seqVars, requestVars
    <2> QED  BY <1>1, <1>5, <2>1
  <1> QED  BY <1>3, <1>4, <1>6, <1>7, <1>8, <1>9
           DEF Next, EngineStep, schedule_default, DecodeLoop, PostProcess
\* What a step leaves of the seals, and what it adds: full blocks of texts.
LEMMA SealsFromTables ==
    ASSUME SealsOK, KVInv', TextsOK',
           \A b \in BlockId :
               \/ Manager!SameSeal(b) \/ Manager!Unsealed(b)
               \/ \E s \in SeqId, i \in Nat :
                      /\ status'[s] # "FINISHED"
                      /\ Manager!FullAfter(s, i) /\ block_table'[s][i] = b
    PROVE  SealsOK'
  <1> SUFFICES ASSUME NEW b \in BlockId, blocks'[b].token_ids # << >>
               PROVE  SealedText(b)'
    BY DEF SealsOK
  <1>1. CASE Manager!SameSeal(b)
    <2>1. SealedText(b)
      BY <1>1 DEF SealsOK, Manager!SameSeal
    <2> QED  BY <1>1, <2>1 DEF SealedText, Manager!SameSeal
  <1>2. ASSUME NEW s \in SeqId, NEW i \in Nat, status'[s] # "FINISHED",
               Manager!FullAfter(s, i), block_table'[s][i] = b
        PROVE  SealedText(b)'
    <2>0. /\ Manager!IInv' /\ Manager!ContentInv' /\ Manager!ChainInv'
          /\ TypeOK'
      BY DEF KVInv, SInv, QInv
    <2>1. /\ Manager!Live(s)' /\ i \in DOMAIN block_table'[s]
          /\ i * BLOCK_SIZE <= Manager!Covered(s)'
      BY <1>2 DEF Manager!FullAfter
    <2>2. PICK v : v = token_ids'[s]
      OBVIOUS
    <2>3. v \in Texts
      BY <1>2, <2>2 DEF TextsOK, TextOK, Texts, TextOf
    <2>4. /\ blocks'[b].hash = Chain(v, i)
          /\ blocks'[b].token_ids = block(v, i - 1)
      <3>1. Manager!ChainOK(s, i)' /\ Manager!EntryOK(s, i)'
        BY <2>0, <2>1 DEF Manager!ChainInv, Manager!ChainsOK, Manager!ContentInv,
                          Manager!EntriesOK
      <3>2. blocks'[b].hash = Manager!Chain(v, i)
        BY <1>2, <2>1, <2>2, <3>1 DEF Manager!ChainOK
      <3>3. blocks'[b].token_ids = Manager!block(v, i - 1)
        BY <1>2, <2>1, <2>2, <3>1 DEF Manager!EntryOK
      <3> QED  BY <3>2, <3>3, SameChain, SameBlockOperators
    <2>5. i # 0 /\ i * BLOCK_SIZE <= Len(v)
      <3>1. block_table'[s] \in Seq(BlockId) /\ v \in Seq(Token)
        BY <2>0, <2>2 DEF TypeOK, BMTypeOK
      <3>2. i # 0
        BY <2>1, <3>1, LenProperties
      <3>3. Manager!Covered(s)' = Len(v) - (IF Pending'[s] THEN 1 ELSE 0)
        BY <2>2 DEF Manager!Covered
      <3>4. Len(v) \in Nat /\ i * BLOCK_SIZE \in Int
        BY <3>1, LenProperties, BlockProduct
      <3>5. Manager!Covered(s)' <= Len(v) /\ Manager!Covered(s)' \in Int
        BY <3>3, <3>4
      <3> QED  BY <2>1, <3>2, <3>4, <3>5
    <2> QED  BY <2>3, <2>4, <2>5 DEF SealedText
  <1> QED  BY <1>1, <1>2 DEF Manager!Unsealed

LEMMA SealsKept ==
    ASSUME TextInv, HitsKnowTheirPrefix, [Next]_vars, KVInv', TextsOK'
    PROVE  SealsOK'
  <1>0. /\ SInv /\ QInv /\ TypeOK /\ Manager!IInv /\ Manager!ContentInv
        /\ Manager!ChainInv /\ SealsOK
    BY DEF TextInv, KVInv, SInv, QInv
  <1>1. CASE ScheduleDecode
    <2>1. cur \in SeqId /\ Manager!MayAppend(cur) /\ UNCHANGED status
      BY <1>0, <1>1, ScheduleDecodeClient DEF ScheduleDecode
    <2>2. status[cur] = "RUNNING"
      BY <1>0, <1>1, <2>1, CurInHand DEF QInv, ScheduleDecode
    <2>3. \A b \in BlockId :
              \/ Manager!SameSeal(b) \/ Manager!Unsealed(b)
              \/ \E i \in Nat : Manager!FullAfter(cur, i) /\ block_table'[cur][i] = b
      BY <1>0, <2>1, SameOperators, ManagerAssumptions, Manager!MayAppendSeals
    <2>4. status'[cur] # "FINISHED"
      BY <2>1, <2>2
    <2> QED  BY <1>0, <2>1, <2>3, <2>4, SealsFromTables
  <1>2. CASE BlockManagerStep
    <2>1. Manager!BMStep /\ UNCHANGED << Pending, status >>
      BY <1>0, <1>2, BlockManagerClient DEF BlockManagerStep, seqVars
    <2>2. CASE Manager!DeallocateStep
      <3>1. \A b \in BlockId : Manager!SameSeal(b)
        BY <1>0, <2>2, SameOperators, ManagerAssumptions, Manager!DeallocateSeals
      <3> QED  BY <1>0, <3>1, SealsFromTables
    <2>3. CASE Manager!AllocateHitUsed \/ Manager!AllocateHitFree \/ Manager!AllocateMiss
      <3>1. \A b \in BlockId :
                \/ Manager!SameSeal(b) \/ Manager!Unsealed(b)
                \/ \E i \in Nat : /\ Manager!FullAfter(call.seq, i)
                                  /\ block_table'[call.seq][i] = b
        BY <1>0, <2>1, <2>3, SameOperators, ManagerAssumptions, Manager!IterationSeals
      <3>2. call.seq \in SeqId /\ status'[call.seq] # "FINISHED"
        <4>1. call.op = "allocate"
          BY <2>3 DEF Manager!AllocateHitUsed, Manager!AllocateHitFree,
                      Manager!AllocateMiss
        <4>2. pc = "admitted" /\ call.seq = cur
          BY <1>0, <4>1 DEF QInv, CallAtPc
        <4> QED  BY <1>0, <2>1, <4>2, AdmittedSequence
      <3> QED  BY <1>0, <3>1, <3>2, SealsFromTables
    <2> QED  BY <2>1, <2>2, <2>3 DEF Manager!BMStep
  <1>3. CASE UNCHANGED blocks
    BY <1>0, <1>3 DEF SealsOK, SealedText
  <1>4. CASE \/ \E s \in SeqId, r \in Requests : add(s, r)
             \/ schedule \/ Admit \/ Admitted \/ EndAdmission \/ TakeFront
             \/ PreemptVictim \/ PreemptSelf \/ EndDecode \/ run \/ PostProcess
             \/ UNCHANGED vars
    <2>1. UNCHANGED blocks
      BY <1>4 DEF add, schedule, Admit, Admitted, EndAdmission, TakeFront,
                  PreemptVictim, PreemptSelf, preempt, EndDecode, run, PostProcess,
                  postprocess, Finish, EndStep, vars, bmVars, BeginAllocate,
                  BeginDeallocate
    <2> QED  BY <1>3, <2>1
  <1> QED  BY <1>1, <1>2, <1>4
           DEF Next, EngineStep, schedule_default, DecodeLoop

LEMMA TextInitially ==
    ASSUME RunnerInit
    PROVE  TextInv
  <1>1. \A s \in SeqId : status[s] = "FINISHED"
    BY DEF RunnerInit, Init
  <1>2. \A b \in BlockId : blocks[b].token_ids = << >>
    BY DEF RunnerInit, Init, BMInit
  <1> QED  BY <1>1, <1>2, KVInitially DEF TextInv, TextsOK, SealsOK

LEMMA TextNext ==
    ASSUME TextInv, Positional, ~enable_chunked_prefill, [RunnerNext]_runnerVars
    PROVE  TextInv'
  <1>1. HitsKnowTheirPrefix
    BY PositionalHits
  <1>2. KVInv'
    BY <1>1, KVNext DEF TextInv
  <1>3. SInv /\ [Next]_vars
    BY DefaultStep DEF TextInv, KVInv
  <1>4. TextsOK'
    BY <1>3, TextsKept DEF TextInv
  <1>5. SealsOK'
    BY <1>1, <1>2, <1>3, <1>4, SealsKept
  <1> QED  BY <1>2, <1>4, <1>5 DEF TextInv

\* In a workload whose full blocks tell their prefix by their tokens, every
\* cache hit of allocate finds its block as it was indexed, whatever was freed,
\* reused, preempted and admitted again in between (block_manager.cpp:84).
THEOREM HitsOfPositionalTexts ==
    ASSUME ~enable_chunked_prefill, Positional
    PROVE  RunnerSpec => []HitsKnowTheirPrefix
  <1>1. RunnerInit => TextInv
    BY TextInitially
  <1>2. TextInv /\ [RunnerNext]_runnerVars => TextInv'
    BY TextNext
  <1>3. TextInv => HitsKnowTheirPrefix
    BY PositionalHits
  <1> QED  BY <1>1, <1>2, <1>3, PTL DEF RunnerSpec

\* There the attention finds the K and V of each token behind its own prefix,
\* and what counts as computed is in the cache, with no further condition.
THEOREM PositionalTextsAttendRight ==
    ASSUME ~enable_chunked_prefill, ~kv_cache_int8, Positional
    PROVE  RunnerSpec => [](AttendsToItsPrefix /\ ComputedIsMaterialized)
  <1>1. RunnerSpec => []HitsKnowTheirPrefix
    BY HitsOfPositionalTexts
  <1>2. RunnerSpec /\ []HitsKnowTheirPrefix => []AttendsToItsPrefix
    BY AttendsRight
  <1>3. RunnerSpec /\ []HitsKnowTheirPrefix => []ComputedIsMaterialized
    BY ComputedMaterialized
  <1> QED  BY <1>1, <1>2, <1>3, PTL

\* No text of fewer than two blocks can mislead the lookup: as long as prompt
\* and completion stay below 2 * block_size tokens, every hit is right.
THEOREM ShortTextsArePositional ==
    ASSUME \A v \in Texts : Len(v) < 2 * BLOCK_SIZE
    PROVE  Positional
  <1> SUFFICES ASSUME NEW v \in Texts, NEW w \in Texts,
                      NEW i \in Nat \ {0}, NEW j \in Nat \ {0},
                      i * BLOCK_SIZE <= Len(v), j * BLOCK_SIZE <= Len(w),
                      block(v, i - 1) = block(w, j - 1)
               PROVE  Chain(v, i) = Chain(w, j)
    BY DEF Positional
  <1>1. ASSUME NEW k \in Nat \ {0}, NEW u \in Texts, k * BLOCK_SIZE <= Len(u)
        PROVE  k = 1
    <2>1. Len(u) \in Nat /\ Len(u) < 2 * BLOCK_SIZE
      BY LenProperties DEF Texts
    <2>2. PICK c \in Int, d \in Int : c = 2 /\ d = k
      OBVIOUS
    <2>3. /\ d * BLOCK_SIZE \in Int /\ c * BLOCK_SIZE \in Int
          /\ c <= d <=> c * BLOCK_SIZE <= d * BLOCK_SIZE
      BY BlockMultiples
    <2>4. ~(c <= d)
      BY <1>1, <2>1, <2>2, <2>3
    <2> QED  BY <2>2, <2>4
  <1>2. i = 1 /\ j = 1
    BY <1>1
  <1>3. \A m \in 1 .. 1 : m = 1
    OBVIOUS
  <1> QED  BY <1>2, <1>3 DEF Chain
=============================================================================
