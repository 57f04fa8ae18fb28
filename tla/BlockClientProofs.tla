------------------------- MODULE BlockClientProofs -------------------------
(***************************************************************************)
(* Proofs about the block manager under every client that keeps to its     *)
(* protocol, for every number of blocks, sequences and tokens.  The first  *)
(* part is about reference counts and the free list.  The second is about  *)
(* what the blocks hold: tables cover their sequences, a sealed block has  *)
(* the tokens it is shared for, a block that is written is private, and a  *)
(* shared block is not rewritten; and, as long as a hit finds the block as *)
(* it was indexed, a shared block has one prefix.                          *)
(***************************************************************************)
EXTENDS BlockClient, SequenceProofs, FiniteSetTheorems

-----------------------------------------------------------------------------
(* The inductive invariant *)

\* What allocate and deallocate know of their own locals.
CallOK ==
    /\ call.op = "allocate" =>
           /\ call.it = 0
           /\ Len(block_table[call.seq]) < num_blocks(token_ids[call.seq])
    /\ call.op = "deallocate" => call.it \in 1 .. Len(block_table[call.seq])

\* A token is due for may_append only in a settled table, and only a sequence
\* with tokens has a table.
ClientOK ==
    \A s \in SeqId :
        /\ pending[s] => block_table[s] # << >> /\ call.seq # s
        /\ block_table[s] # << >> => token_ids[s] # << >>

RefsFinite == \A b \in BlockId : IsFiniteSet(Refs(b))

IInv ==
    /\ TypeOK
    /\ CallOK
    /\ ClientOK
    /\ RefsFinite
    /\ RefCountExact
    /\ FreeUsedPartition
    /\ AllocateNeverStarves

-----------------------------------------------------------------------------
(* How the references change with the tables *)

\* A reference to a block is a held table entry with its number.
LEMMA RefsElements ==
    ASSUME NEW b, NEW r
    PROVE  r \in Refs(b) <=> \E s \in SeqId : \E i \in Held(s) :
                                 block_table[s][i] = b /\ r = << s, i >>
  BY DEF Refs

\* The same tables, held to the same depth, give the same references.
LEMMA RefsUnchanged ==
    ASSUME UNCHANGED block_table, \A s \in SeqId : Held(s)' = Held(s)
    PROVE  \A b : Refs(b)' = Refs(b)
  BY DEF Refs

\* Outside deallocate every entry is held.
LEMMA HeldAll ==
    ASSUME call.op # "deallocate"
    PROVE  \A s : Held(s) = DOMAIN block_table[s]
  BY DEF Held

\* Appending b to a table adds one reference, to b.
LEMMA RefsAppend ==
    ASSUME block_table \in [SeqId -> Seq(BlockId)],
           NEW s \in SeqId, NEW b \in BlockId,
           block_table' = [block_table EXCEPT ![s] = Append(@, b)],
           call.op # "deallocate", call'.op # "deallocate"
    PROVE  LET ref == << s, Len(block_table[s]) + 1 >> IN
           /\ ref \notin Refs(b)
           /\ Refs(b)' = Refs(b) \cup {ref}
           /\ \A c : c # b => Refs(c)' = Refs(c)
  <1> DEFINE n == Len(block_table[s])
             ref == << s, n + 1 >>
  <1>1. n \in Nat /\ DOMAIN block_table[s] = 1 .. n
    BY LenProperties
  <1>2. /\ Len(block_table'[s]) = n + 1
        /\ DOMAIN block_table'[s] = 1 .. n + 1
        /\ \A i \in 1 .. n : block_table'[s][i] = block_table[s][i]
        /\ block_table'[s][n + 1] = b
    <2>1. block_table'[s] = Append(block_table[s], b)
      OBVIOUS
    <2>2. block_table[s] \in Seq(BlockId)
      OBVIOUS
    <2>3. Append(block_table[s], b) \in Seq(BlockId)
      BY <2>2, AppendProperties
    <2> QED  BY <2>1, <2>2, <2>3, AppendProperties, LenProperties
  <1>3. \A t \in SeqId : t # s => block_table'[t] = block_table[t]
    OBVIOUS
  <1>4. \A t : Held(t) = DOMAIN block_table[t]
    BY HeldAll
  <1>5. \A t : Held(t)' = DOMAIN block_table'[t]
    BY DEF Held
  <1>6. \A c, r : r \in Refs(c) <=>
            \E t \in SeqId : \E i \in DOMAIN block_table[t] :
                block_table[t][i] = c /\ r = << t, i >>
    BY <1>4, RefsElements
  <1>7. \A c, r : r \in Refs(c)' <=>
            \E t \in SeqId : \E i \in DOMAIN block_table'[t] :
                block_table'[t][i] = c /\ r = << t, i >>
    BY <1>5 DEF Refs
  <1>8. \A i \in 1 .. n + 1 : i \in 1 .. n \/ i = n + 1
    BY <1>1
  <1>9. 1 .. n \subseteq 1 .. n + 1 /\ n + 1 \in 1 .. n + 1 /\ n + 1 \notin 1 .. n
    BY <1>1
  <1> HIDE DEF n
  <1>10. ref \notin Refs(b)
    BY <1>1, <1>6, <1>9
  <1>11. \A c, r : r \in Refs(c) => r \in Refs(c)'
    <2> SUFFICES ASSUME NEW c, NEW t \in SeqId, NEW i \in DOMAIN block_table[t],
                        block_table[t][i] = c
                 PROVE  << t, i >> \in Refs(c)'
      BY <1>6
    <2>1. i \in DOMAIN block_table'[t] /\ block_table'[t][i] = c
      BY <1>1, <1>2, <1>3, <1>9
    <2> QED  BY <1>7, <2>1
  <1>12. \A c, r : r \in Refs(c)' => r \in Refs(c) \/ (c = b /\ r = ref)
    <2> SUFFICES ASSUME NEW c, NEW t \in SeqId, NEW i \in DOMAIN block_table'[t],
                        block_table'[t][i] = c
                 PROVE  << t, i >> \in Refs(c) \/ (c = b /\ << t, i >> = ref)
      BY <1>7
    <2>1. CASE t = s /\ i = n + 1
      BY <1>2, <2>1
    <2>2. CASE ~(t = s /\ i = n + 1)
      <3>1. i \in DOMAIN block_table[t] /\ block_table[t][i] = c
        BY <1>1, <1>2, <1>3, <1>8, <2>2
      <3> QED  BY <1>6, <3>1
    <2> QED  BY <2>1, <2>2
  <1>13. ref \in Refs(b)'
    BY <1>2, <1>7, <1>9
  <1> HIDE DEF ref
  <1>14. Refs(b)' = Refs(b) \cup {ref}
    BY <1>11, <1>12, <1>13
  <1>15. ASSUME NEW c, c # b
         PROVE  Refs(c)' = Refs(c)
    <2>1. \A r : r \in Refs(c)' <=> r \in Refs(c)
      BY <1>11, <1>12, <1>15
    <2> QED  BY <2>1
  <1> QED  BY <1>10, <1>14, <1>15 DEF n, ref

\* A step of deallocate drops one reference, that of the entry it is at.
LEMMA RefsDrop ==
    ASSUME TypeOK, CallOK, DeallocateStep,
           NEW s, s = call.seq,
           NEW n, n = call.it,
           NEW b, b = block_table[s][n]
    PROVE  /\ << s, n >> \in Refs(b)
           /\ Refs(b)' = Refs(b) \ {<< s, n >>}
           /\ \A c : c # b => Refs(c)' = Refs(c)
  <1> DEFINE ref == << s, n >>
  <1>1. /\ s \in SeqId /\ call.op = "deallocate" /\ n \in Nat
        /\ n \in 1 .. Len(block_table[s])
        /\ block_table \in [SeqId -> Seq(BlockId)]
    BY DEF TypeOK, BMTypeOK, Call, CallOK, DeallocateStep
  <1>2. \A t \in SeqId : Held(t) = IF t = s THEN 1 .. n ELSE DOMAIN block_table[t]
    BY <1>1 DEF Held
  <1>3. /\ \A t \in SeqId : t # s => block_table'[t] = block_table[t]
        /\ \A t \in SeqId : t # s => Held(t)' = DOMAIN block_table[t]
    <2>1. CASE n > 1
      <3>1. call' = [call EXCEPT !.it = @ - 1] /\ block_table' = block_table
        BY <2>1 DEF DeallocateStep
      <3>2. call'.seq = s
        BY <3>1, <1>1 DEF TypeOK, BMTypeOK, Call
      <3> QED  BY <3>1, <3>2 DEF Held
    <2>2. CASE ~(n > 1)
      <3>1. call' = NoCall /\ block_table' = [block_table EXCEPT ![s] = << >>]
        BY <2>2 DEF DeallocateStep
      <3>2. call'.op = "none"
        BY <3>1 DEF NoCall
      <3> QED  BY <1>1, <3>1, <3>2 DEF Held
    <2> QED  BY <2>1, <2>2
  <1>4. \A i : i \in Held(s)' <=> i \in 1 .. n /\ i # n
    <2>1. CASE n > 1
      <3>1. call' = [call EXCEPT !.it = @ - 1] /\ block_table' = block_table
        BY <2>1 DEF DeallocateStep
      <3>2. call'.seq = s /\ call'.op = "deallocate" /\ call'.it = n - 1
        BY <3>1, <1>1 DEF TypeOK, BMTypeOK, Call
      <3>3. Held(s)' = 1 .. n - 1
        BY <3>2 DEF Held
      <3> QED  BY <1>1, <3>3
    <2>2. CASE ~(n > 1)
      <3>1. call' = NoCall /\ block_table' = [block_table EXCEPT ![s] = << >>]
        BY <2>2 DEF DeallocateStep
      <3>2. call'.op = "none" /\ block_table'[s] = << >>
        BY <1>1, <3>1 DEF NoCall
      <3>3. Held(s)' = {}
        BY <3>2 DEF Held
      <3>4. n = 1
        BY <1>1, <2>2
      <3> QED  BY <3>3, <3>4
    <2> QED  BY <2>1, <2>2
  <1>5. \A i \in Held(s)' : block_table'[s][i] = block_table[s][i]
    <2>1. CASE n > 1
      BY <2>1 DEF DeallocateStep
    <2>2. CASE ~(n > 1)
      <3>1. Held(s)' = {}
        BY <1>1, <1>4, <2>2
      <3> QED  BY <3>1
    <2> QED  BY <2>1, <2>2
  <1>6. n \in Held(s)
    BY <1>1, <1>2
  <1>7. \A t \in SeqId : \A i :
            i \in Held(t)' <=> i \in Held(t) /\ << t, i >> # ref
    <2> SUFFICES ASSUME NEW t \in SeqId, NEW i
                 PROVE  i \in Held(t)' <=> i \in Held(t) /\ << t, i >> # ref
      OBVIOUS
    <2>1. CASE t = s
      BY <1>1, <1>2, <1>4, <2>1
    <2>2. CASE t # s
      BY <1>2, <1>3, <2>2
    <2> QED  BY <2>1, <2>2
  <1>8. \A t \in SeqId : \A i \in Held(t)' : block_table'[t][i] = block_table[t][i]
    BY <1>3, <1>5
  <1>9. \A c, r : r \in Refs(c) <=>
            \E t \in SeqId : \E i \in Held(t) :
                block_table[t][i] = c /\ r = << t, i >>
    BY RefsElements
  <1>10. \A c, r : r \in Refs(c)' <=>
            \E t \in SeqId : \E i \in Held(t)' :
                block_table'[t][i] = c /\ r = << t, i >>
    BY DEF Refs
  <1>11. ref \in Refs(b) /\ \A c : ref \in Refs(c) => c = b
    BY <1>1, <1>6, <1>9
  <1>12. \A c, r : r \in Refs(c)' <=> r \in Refs(c) /\ r # ref
    <2>1. ASSUME NEW c, NEW r, r \in Refs(c)'
          PROVE  r \in Refs(c) /\ r # ref
      BY <1>7, <1>8, <1>9, <1>10, <2>1
    <2>2. ASSUME NEW c, NEW r, r \in Refs(c), r # ref
          PROVE  r \in Refs(c)'
      BY <1>7, <1>8, <1>9, <1>10, <2>2
    <2> QED  BY <2>1, <2>2
  <1> HIDE DEF ref
  <1>13. Refs(b)' = Refs(b) \ {ref}
    BY <1>12
  <1>14. ASSUME NEW c, c # b
         PROVE  Refs(c)' = Refs(c)
    BY <1>11, <1>12, <1>14
  <1> QED  BY <1>11, <1>13, <1>14 DEF ref

-----------------------------------------------------------------------------
(* The accounts of blocks and references, step by step *)

\* What every step must keep of the blocks, the free list and the tables.
Accounts ==
    /\ blocks \in [BlockId -> Block]
    /\ free_block_ids \in Seq(BlockId)
    /\ used_block_ids \subseteq BlockId
    /\ RefsFinite
    /\ RefCountExact
    /\ FreeUsedPartition

\* Nothing is allocated, shared or released: the counts and the lists stand.
LEMMA AccountsKept ==
    ASSUME Accounts, UNCHANGED << free_block_ids, used_block_ids, block_table >>,
           \A s \in SeqId : Held(s)' = Held(s),
           blocks' \in [BlockId -> Block],
           \A b \in BlockId : blocks'[b].ref_count = blocks[b].ref_count
    PROVE  Accounts'
  <1>1. \A b : Refs(b)' = Refs(b)
    BY RefsUnchanged
  <1>2. RefsFinite'
    BY <1>1 DEF Accounts, RefsFinite
  <1>3. RefCountExact'
    BY <1>1 DEF Accounts, RefCountExact
  <1>4. FreeUsedPartition'
    BY DEF Accounts, FreeUsedPartition
  <1> QED  BY <1>2, <1>3, <1>4 DEF Accounts

\* Another table entry for a block in use.
LEMMA AccountsShared ==
    ASSUME Accounts, block_table \in [SeqId -> Seq(BlockId)],
           NEW s \in SeqId, NEW b \in BlockId, NEW blk \in Block,
           b \in used_block_ids, blk.ref_count = blocks[b].ref_count + 1,
           blocks' = [blocks EXCEPT ![b] = blk],
           block_table' = [block_table EXCEPT ![s] = Append(@, b)],
           UNCHANGED << free_block_ids, used_block_ids >>,
           call.op # "deallocate", call'.op # "deallocate"
    PROVE  Accounts'
  <1> DEFINE ref == << s, Len(block_table[s]) + 1 >>
  <1>1. /\ ref \notin Refs(b)
        /\ Refs(b)' = Refs(b) \cup {ref}
        /\ \A c : c # b => Refs(c)' = Refs(c)
    BY RefsAppend
  <1> HIDE DEF ref
  <1>2. /\ blocks' \in [BlockId -> Block]
        /\ blocks'[b] = blk
        /\ \A c \in BlockId : c # b => blocks'[c] = blocks[c]
    BY DEF Accounts
  <1>3. IsFiniteSet(Refs(b)) /\ blocks[b].ref_count = Cardinality(Refs(b))
    BY DEF Accounts, RefsFinite, RefCountExact
  <1>4. /\ IsFiniteSet(Refs(b) \cup {ref})
        /\ Cardinality(Refs(b) \cup {ref}) = Cardinality(Refs(b)) + 1
    BY <1>1, <1>3, FS_AddElement
  <1>5. RefsFinite'
    <2> SUFFICES ASSUME NEW c \in BlockId  PROVE IsFiniteSet(Refs(c)')
      BY DEF RefsFinite
    <2> QED  BY <1>1, <1>4 DEF Accounts, RefsFinite
  <1>6. RefCountExact'
    <2> SUFFICES ASSUME NEW c \in BlockId
                 PROVE  blocks'[c].ref_count = Cardinality(Refs(c)')
      BY DEF RefCountExact
    <2>1. CASE c = b
      BY <1>1, <1>2, <1>3, <1>4, <2>1
    <2>2. CASE c # b
      BY <1>1, <1>2, <2>2 DEF Accounts, RefCountExact
    <2> QED  BY <2>1, <2>2
  <1>7. blocks[b].ref_count \in Nat /\ blocks[b].ref_count > 0
    BY DEF Accounts, FreeUsedPartition, Block
  <1>8. \A c \in BlockId :
            /\ blocks'[c].ref_count > 0 <=> blocks[c].ref_count > 0
            /\ blocks'[c].ref_count = 0 <=> blocks[c].ref_count = 0
    <2> SUFFICES ASSUME NEW c \in BlockId
                 PROVE  /\ blocks'[c].ref_count > 0 <=> blocks[c].ref_count > 0
                        /\ blocks'[c].ref_count = 0 <=> blocks[c].ref_count = 0
      OBVIOUS
    <2>1. CASE c = b
      BY <1>2, <1>7, <2>1
    <2>2. CASE c # b
      BY <1>2, <2>2
    <2> QED  BY <2>1, <2>2
  <1>9. FreeUsedPartition'
    <2>1. { c \in BlockId : blocks'[c].ref_count > 0 } =
          { c \in BlockId : blocks[c].ref_count > 0 }
      BY <1>8
    <2>2. { c \in BlockId : blocks'[c].ref_count = 0 } =
          { c \in BlockId : blocks[c].ref_count = 0 }
      BY <1>8
    <2> QED  BY <2>1, <2>2 DEF Accounts, FreeUsedPartition
  <1> QED  BY <1>2, <1>5, <1>6, <1>9 DEF Accounts

\* A free block becomes the next entry of a table.
LEMMA AccountsTaken ==
    ASSUME Accounts, block_table \in [SeqId -> Seq(BlockId)],
           NEW s \in SeqId, NEW b \in ToSet(free_block_ids), NEW blk \in Block,
           blk.ref_count = 1,
           TakeFree(b),
           blocks' = [blocks EXCEPT ![b] = blk],
           block_table' = [block_table EXCEPT ![s] = Append(@, b)],
           call.op # "deallocate", call'.op # "deallocate"
    PROVE  Accounts' /\ Len(free_block_ids') = Len(free_block_ids) - 1
  <1> DEFINE ref == << s, Len(block_table[s]) + 1 >>
  <1>0. b \in BlockId /\ blocks[b].ref_count = 0
    BY DEF Accounts, FreeUsedPartition
  <1>1. /\ ref \notin Refs(b)
        /\ Refs(b)' = Refs(b) \cup {ref}
        /\ \A c : c # b => Refs(c)' = Refs(c)
    BY <1>0, RefsAppend
  <1> HIDE DEF ref
  <1>2. /\ blocks' \in [BlockId -> Block]
        /\ blocks'[b] = blk
        /\ \A c \in BlockId : c # b => blocks'[c] = blocks[c]
    BY <1>0 DEF Accounts
  <1>3. IsFiniteSet(Refs(b)) /\ Cardinality(Refs(b)) = 0
    BY <1>0 DEF Accounts, RefsFinite, RefCountExact
  <1>4. /\ IsFiniteSet(Refs(b) \cup {ref})
        /\ Cardinality(Refs(b) \cup {ref}) = Cardinality(Refs(b)) + 1
    BY <1>1, <1>3, FS_AddElement
  <1>5. RefsFinite'
    <2> SUFFICES ASSUME NEW c \in BlockId  PROVE IsFiniteSet(Refs(c)')
      BY DEF RefsFinite
    <2> QED  BY <1>1, <1>4 DEF Accounts, RefsFinite
  <1>6. RefCountExact'
    <2> SUFFICES ASSUME NEW c \in BlockId
                 PROVE  blocks'[c].ref_count = Cardinality(Refs(c)')
      BY DEF RefCountExact
    <2>1. CASE c = b
      <3>1. Cardinality(Refs(b)') = 1
        BY <1>1, <1>3, <1>4
      <3>2. blocks'[b].ref_count = 1
        BY <1>2
      <3> QED  BY <2>1, <3>1, <3>2
    <2>2. CASE c # b
      BY <1>1, <1>2, <2>2 DEF Accounts, RefCountExact
    <2> QED  BY <2>1, <2>2
  <1>7. /\ free_block_ids' \in Seq(BlockId)
        /\ Len(free_block_ids') = Len(free_block_ids) - 1
        /\ IsInjective(free_block_ids')
        /\ ToSet(free_block_ids') = ToSet(free_block_ids) \ {b}
    <2>1. free_block_ids \in Seq(BlockId) /\ IsInjective(free_block_ids)
      BY DEF Accounts, FreeUsedPartition
    <2>2. free_block_ids' = RemoveFirst(free_block_ids, b)
      BY DEF TakeFree
    <2> QED  BY <2>1, <2>2, TakeProperties
  <1>8. FreeUsedPartition'
    <2>1. { c \in BlockId : blocks'[c].ref_count > 0 } =
          { c \in BlockId : blocks[c].ref_count > 0 } \cup {b}
      BY <1>0, <1>2
    <2>2. { c \in BlockId : blocks'[c].ref_count = 0 } =
          { c \in BlockId : blocks[c].ref_count = 0 } \ {b}
      BY <1>0, <1>2
    <2>3. used_block_ids' = used_block_ids \cup {b}
      BY DEF TakeFree
    <2> QED  BY <1>7, <2>1, <2>2, <2>3 DEF Accounts, FreeUsedPartition
  <1>9. used_block_ids' \subseteq BlockId
    BY <1>0 DEF TakeFree, Accounts
  <1> QED  BY <1>2, <1>5, <1>6, <1>7, <1>8, <1>9 DEF Accounts

\* An iteration of deallocate drops one reference, and with the last one the
\* block.
LEMMA AccountsDropped ==
    ASSUME TypeOK, CallOK, Accounts, DeallocateStep
    PROVE  Accounts'
  <1>0. PICK s, n, b : s = call.seq /\ n = call.it /\ b = block_table[s][n]
    OBVIOUS
  <1> DEFINE ref == << s, n >>
  <1>1. /\ ref \in Refs(b)
        /\ Refs(b)' = Refs(b) \ {ref}
        /\ \A c : c # b => Refs(c)' = Refs(c)
    BY <1>0, RefsDrop
  <1> HIDE DEF ref
  <1>2. b \in BlockId
    <2>1. s \in SeqId /\ n \in 1 .. Len(block_table[s])
      BY <1>0 DEF TypeOK, BMTypeOK, Call, CallOK, DeallocateStep
    <2>2. block_table[s] \in Seq(BlockId)
      BY <2>1 DEF TypeOK, BMTypeOK
    <2> QED  BY <1>0, <2>1, <2>2, ElementOfSeq
  <1>3. IsFiniteSet(Refs(b)) /\ blocks[b].ref_count = Cardinality(Refs(b))
    BY <1>2 DEF Accounts, RefsFinite, RefCountExact
  <1>4. /\ IsFiniteSet(Refs(b) \ {ref})
        /\ Cardinality(Refs(b) \ {ref}) = Cardinality(Refs(b)) - 1
    BY <1>1, <1>3, FS_RemoveElement
  <1>5. blocks[b].ref_count \in Nat /\ blocks[b].ref_count - 1 \in Nat
    <2>1. Cardinality(Refs(b) \ {ref}) \in Nat /\ Cardinality(Refs(b)) \in Nat
      BY <1>3, <1>4, FS_CardinalityType
    <2> QED  BY <1>3, <1>4, <2>1
  <1>6. blocks' = [blocks EXCEPT ![b].ref_count = @ - 1]
    BY <1>0 DEF DeallocateStep
  <1>7. /\ blocks' \in [BlockId -> Block]
        /\ blocks'[b].ref_count = blocks[b].ref_count - 1
        /\ \A c \in BlockId : c # b => blocks'[c] = blocks[c]
    BY <1>2, <1>5, <1>6 DEF Accounts, Block
  <1>8. RefsFinite'
    <2> SUFFICES ASSUME NEW c \in BlockId  PROVE IsFiniteSet(Refs(c)')
      BY DEF RefsFinite
    <2> QED  BY <1>1, <1>4 DEF Accounts, RefsFinite
  <1>9. RefCountExact'
    <2> SUFFICES ASSUME NEW c \in BlockId
                 PROVE  blocks'[c].ref_count = Cardinality(Refs(c)')
      BY DEF RefCountExact
    <2>1. CASE c = b
      BY <1>1, <1>3, <1>4, <1>7, <2>1
    <2>2. CASE c # b
      BY <1>1, <1>7, <2>2 DEF Accounts, RefCountExact
    <2> QED  BY <2>1, <2>2
  <1>10. CASE blocks[b].ref_count = 1
    <2>1. GiveBack(b)
      BY <1>0, <1>10 DEF DeallocateStep
    <2>2. b \notin ToSet(free_block_ids)
      BY <1>10 DEF Accounts, FreeUsedPartition
    <2>3. /\ free_block_ids' \in Seq(BlockId)
          /\ IsInjective(free_block_ids')
          /\ ToSet(free_block_ids') = ToSet(free_block_ids) \cup {b}
      <3>1. free_block_ids \in Seq(BlockId) /\ IsInjective(free_block_ids)
        BY DEF Accounts, FreeUsedPartition
      <3>2. free_block_ids' = Append(free_block_ids, b)
        BY <2>1 DEF GiveBack
      <3> QED  BY <1>2, <2>2, <3>1, <3>2, GiveProperties
    <2>4. { c \in BlockId : blocks'[c].ref_count > 0 } =
          { c \in BlockId : blocks[c].ref_count > 0 } \ {b}
      BY <1>7, <1>10
    <2>5. { c \in BlockId : blocks'[c].ref_count = 0 } =
          { c \in BlockId : blocks[c].ref_count = 0 } \cup {b}
      BY <1>2, <1>7, <1>10
    <2>6. used_block_ids' = used_block_ids \ {b}
      BY <2>1 DEF GiveBack
    <2>7. FreeUsedPartition'
      BY <2>3, <2>4, <2>5, <2>6 DEF Accounts, FreeUsedPartition
    <2> QED  BY <1>7, <1>8, <1>9, <2>3, <2>6, <2>7 DEF Accounts
  <1>11. CASE blocks[b].ref_count # 1
    <2>1. UNCHANGED << free_block_ids, used_block_ids >>
      BY <1>0, <1>11 DEF DeallocateStep
    <2>2. blocks[b].ref_count > 0 /\ blocks'[b].ref_count > 0
      BY <1>5, <1>7, <1>11
    <2>3. \A c \in BlockId :
              /\ blocks'[c].ref_count > 0 <=> blocks[c].ref_count > 0
              /\ blocks'[c].ref_count = 0 <=> blocks[c].ref_count = 0
      <3> SUFFICES ASSUME NEW c \in BlockId
                   PROVE  /\ blocks'[c].ref_count > 0 <=> blocks[c].ref_count > 0
                          /\ blocks'[c].ref_count = 0 <=> blocks[c].ref_count = 0
        OBVIOUS
      <3>1. CASE c = b
        BY <1>5, <1>7, <2>2, <3>1
      <3>2. CASE c # b
        BY <1>7, <3>2
      <3> QED  BY <3>1, <3>2
    <2>4. { c \in BlockId : blocks'[c].ref_count > 0 } =
          { c \in BlockId : blocks[c].ref_count > 0 }
      BY <2>3
    <2>5. { c \in BlockId : blocks'[c].ref_count = 0 } =
          { c \in BlockId : blocks[c].ref_count = 0 }
      BY <2>3
    <2>6. FreeUsedPartition'
      BY <2>1, <2>4, <2>5 DEF Accounts, FreeUsedPartition
    <2> QED  BY <1>7, <1>8, <1>9, <2>1, <2>6 DEF Accounts
  <1> QED  BY <1>10, <1>11

-----------------------------------------------------------------------------
(* The invariant is established *)

LEMMA InitInv ==
    ASSUME Init
    PROVE  IInv
  <1> USE DEF Init, BMInit
  <1>1. TypeOK
    <2>1. blocks \in [BlockId -> Block]
      BY EmptySeq DEF Block, Hash, kNoHash
    <2>2. free_block_ids \in Seq(BlockId)
      <3>1. \A i \in 1 .. NumBlocks : i - 1 \in BlockId
        BY NumBlocksAssumption DEF BlockId
      <3> QED  BY <3>1, NumBlocksAssumption, IsASeq
    <2>3. /\ DOMAIN hash_to_block_id \subseteq Hash
          /\ hash_to_block_id \in [DOMAIN hash_to_block_id -> BlockId]
      OBVIOUS
    <2>4. token_ids \in [SeqId -> Seq(Token)] /\ block_table \in [SeqId -> Seq(BlockId)]
      BY EmptySeq
    <2>5. call \in Call /\ call.op = "none"
      BY EmptySeq DEF NoCall, Call, Hash, kNoHash
    <2> QED  BY <2>1, <2>2, <2>3, <2>4, <2>5 DEF TypeOK, BMTypeOK
  <1>2. CallOK /\ AllocateNeverStarves
    BY DEF CallOK, AllocateNeverStarves, NoCall
  <1>3. ClientOK
    BY DEF ClientOK
  <1>4. \A b : Refs(b) = {}
    <2>1. \A s \in SeqId : Held(s) = {}
      BY DEF Held, NoCall
    <2> QED  BY <2>1 DEF Refs
  <1>5. RefsFinite /\ RefCountExact
    BY <1>4, FS_EmptySet DEF RefsFinite, RefCountExact
  <1>6. FreeUsedPartition
    <2>1. \A b \in BlockId : blocks[b].ref_count = 0
      OBVIOUS
    <2>2. DOMAIN free_block_ids = 1 .. NumBlocks
      OBVIOUS
    <2>3. IsInjective(free_block_ids)
      BY <2>2, NumBlocksAssumption DEF IsInjective
    <2>4. ToSet(free_block_ids) = { i - 1 : i \in 1 .. NumBlocks }
      BY <2>2 DEF ToSet
    <2>5. { i - 1 : i \in 1 .. NumBlocks } = BlockId
      <3>1. \A i \in 1 .. NumBlocks : i - 1 \in BlockId
        BY NumBlocksAssumption DEF BlockId
      <3>2. \A b \in BlockId : b + 1 \in 1 .. NumBlocks /\ (b + 1) - 1 = b
        BY NumBlocksAssumption DEF BlockId
      <3>3. \A b \in BlockId : \E i \in 1 .. NumBlocks : b = i - 1
        BY <3>2
      <3> QED  BY <3>1, <3>3
    <2>6. { b \in BlockId : blocks[b].ref_count = 0 } = BlockId
      BY <2>1
    <2>7. { b \in BlockId : blocks[b].ref_count > 0 } = {}
      BY <2>1
    <2> QED  BY <2>3, <2>4, <2>5, <2>6, <2>7 DEF FreeUsedPartition
  <1> QED  BY <1>1, <1>2, <1>3, <1>5, <1>6 DEF IInv

-----------------------------------------------------------------------------
(* The invariant is kept: allocate *)

LEMMA InvAccounts ==
    ASSUME IInv
    PROVE  Accounts
  BY DEF IInv, TypeOK, BMTypeOK, Accounts

\* What an iteration of allocate works on.
LEMMA LoopTypes ==
    ASSUME IInv, call.op = "allocate"
    PROVE  /\ call.seq \in SeqId
           /\ LoopIndex \in Nat
           /\ LoopTokens \in Seq(Token)
           /\ LoopHash \in Hash
           /\ num_blocks(token_ids[call.seq]) \in Nat
           /\ LoopIndex < num_blocks(token_ids[call.seq])
           /\ Len(free_block_ids) \in Nat
           /\ Len(free_block_ids) >= num_blocks(token_ids[call.seq]) - LoopIndex
  <1>1. /\ call.seq \in SeqId /\ call.h \in Hash
        /\ token_ids[call.seq] \in Seq(Token)
        /\ block_table[call.seq] \in Seq(BlockId)
        /\ free_block_ids \in Seq(BlockId)
    BY DEF IInv, TypeOK, BMTypeOK, Call
  <1>2. LoopIndex \in Nat /\ Len(free_block_ids) \in Nat
    BY <1>1, LenProperties DEF LoopIndex
  <1>3. LoopTokens \in Seq(Token)
    BY <1>1, <1>2, BlockType DEF LoopTokens
  <1>4. LoopHash \in Hash
    <2>1. Append(call.h, LoopTokens) \in Seq(Seq(Token))
      BY <1>1, <1>3, AppendProperties DEF Hash
    <2>2. << >> \in Seq(Seq(Token))
      BY EmptySeq
    <2> QED  BY <2>1, <2>2 DEF LoopHash, compute_hash, kNoHash, Hash
  <1>5. num_blocks(token_ids[call.seq]) \in Nat
    BY <1>1, NumBlocksType
  <1>6. LoopIndex < num_blocks(token_ids[call.seq])
    BY DEF IInv, CallOK, LoopIndex
  <1>7. Len(free_block_ids) >= num_blocks(token_ids[call.seq]) - LoopIndex
    BY DEF IInv, AllocateNeverStarves, LoopIndex
  <1> QED  BY <1>1, <1>2, <1>3, <1>4, <1>5, <1>6, <1>7

\* Indexing a hash keeps the index well typed.
LEMMA IndexType ==
    ASSUME IInv, NEW h \in Hash, NEW b \in BlockId,
           hash_to_block_id' = Index(h, b)
    PROVE  /\ DOMAIN hash_to_block_id' \subseteq Hash
           /\ hash_to_block_id' \in [DOMAIN hash_to_block_id' -> BlockId]
  BY DEF Index, IInv, TypeOK, BMTypeOK

\* The end of an iteration, whatever block it settled on.
LEMMA EndIterationEffect ==
    ASSUME IInv, call.op = "allocate",
           NEW b \in BlockId, NEW blk \in Block, NEW miss \in BOOLEAN,
           EndIteration(b, blk, miss)
    PROVE  /\ \E sealed \in Block :
                  /\ sealed.ref_count = blk.ref_count
                  /\ blocks' = [blocks EXCEPT ![b] = sealed]
           /\ DOMAIN hash_to_block_id' \subseteq Hash
           /\ hash_to_block_id' \in [DOMAIN hash_to_block_id' -> BlockId]
           /\ block_table' = [block_table EXCEPT ![call.seq] = Append(@, b)]
           /\ UNCHANGED token_ids
           /\ \/ /\ LoopIndex + 1 < num_blocks(token_ids[call.seq])
                 /\ call' = [call EXCEPT !.h = LoopHash, !.cache_miss = miss]
              \/ call' = NoCall
  <1>1. LoopHash \in Hash /\ LoopTokens \in Seq(Token)
    BY LoopTypes
  <1>2. /\ update(blk, LoopHash, LoopTokens) \in Block
        /\ update(blk, LoopHash, LoopTokens).ref_count = blk.ref_count
    BY <1>1 DEF update, Block
  <1>3. CASE LoopHash # kNoHash
    BY <1>1, <1>2, <1>3, IndexType DEF EndIteration
  <1>4. CASE LoopHash = kNoHash
    BY <1>4 DEF EndIteration, IInv, TypeOK, BMTypeOK
  <1> QED  BY <1>3, <1>4

\* What the end of an iteration does to its block keeps the reference count.
LEMMA EndIterationSeals ==
    ASSUME IInv, call.op = "allocate",
           NEW b \in BlockId, NEW blk \in Block, NEW miss \in BOOLEAN,
           EndIteration(b, blk, miss)
    PROVE  \E sealed \in Block : /\ sealed.ref_count = blk.ref_count
                                 /\ blocks' = [blocks EXCEPT ![b] = sealed]
  <1>1. LoopHash \in Hash /\ LoopTokens \in Seq(Token)
    BY LoopTypes
  <1>2. /\ update(blk, LoopHash, LoopTokens) \in Block
        /\ update(blk, LoopHash, LoopTokens).ref_count = blk.ref_count
    BY <1>1 DEF update, Block
  <1>3. CASE LoopHash # kNoHash
    BY <1>2, <1>3 DEF EndIteration
  <1>4. CASE LoopHash = kNoHash
    BY <1>4 DEF EndIteration
  <1> QED  BY <1>3, <1>4

\* The rest of the invariant after an iteration that kept the accounts and
\* took at most one block.
LEMMA EndIterationInv ==
    ASSUME IInv, call.op = "allocate",
           NEW b \in BlockId, NEW blk \in Block, NEW miss \in BOOLEAN,
           EndIteration(b, blk, miss), UNCHANGED pending, Accounts',
           num_cached_tokens' \in [SeqId -> Nat],
           Len(free_block_ids') >= Len(free_block_ids) - 1
    PROVE  IInv'
  <1>0. PICK s : s = call.seq
    OBVIOUS
  <1>1. /\ s \in SeqId /\ LoopIndex \in Nat /\ LoopHash \in Hash
        /\ num_blocks(token_ids[s]) \in Nat
        /\ Len(free_block_ids) \in Nat
        /\ Len(free_block_ids) >= num_blocks(token_ids[s]) - LoopIndex
    BY <1>0, LoopTypes
  <1>2. /\ DOMAIN hash_to_block_id' \subseteq Hash
        /\ hash_to_block_id' \in [DOMAIN hash_to_block_id' -> BlockId]
        /\ block_table' = [block_table EXCEPT ![s] = Append(@, b)]
        /\ UNCHANGED token_ids
        /\ \/ /\ LoopIndex + 1 < num_blocks(token_ids[s])
              /\ call' = [call EXCEPT !.h = LoopHash, !.cache_miss = miss]
           \/ call' = NoCall
    <2>1. /\ DOMAIN hash_to_block_id' \subseteq Hash
          /\ hash_to_block_id' \in [DOMAIN hash_to_block_id' -> BlockId]
          /\ UNCHANGED token_ids
      BY EndIterationEffect
    <2>2. block_table' = [block_table EXCEPT ![s] = Append(@, b)]
      BY <1>0 DEF EndIteration
    <2>3. \/ /\ LoopIndex + 1 < num_blocks(token_ids[s])
             /\ call' = [call EXCEPT !.h = LoopHash, !.cache_miss = miss]
          \/ call' = NoCall
      BY <1>0 DEF EndIteration
    <2> QED  BY <2>1, <2>2, <2>3
  <1>3. block_table \in [SeqId -> Seq(BlockId)] /\ call \in Call /\ call.it = 0
    BY DEF IInv, TypeOK, BMTypeOK, CallOK
  <1>4. /\ block_table' \in [SeqId -> Seq(BlockId)]
        /\ block_table'[s] # << >>
        /\ Len(block_table'[s]) = LoopIndex + 1
        /\ \A t \in SeqId : t # s => block_table'[t] = block_table[t]
    <2>1. block_table[s] \in Seq(BlockId)
      BY <1>1, <1>3
    <2>2. block_table'[s] = Append(block_table[s], b)
      BY <1>1, <1>2, <1>3
    <2>3. /\ Append(block_table[s], b) \in Seq(BlockId)
          /\ Append(block_table[s], b) # << >>
          /\ Len(Append(block_table[s], b)) = LoopIndex + 1
      BY <2>1, <1>0, AppendProperties DEF LoopIndex
    <2> QED  BY <1>1, <1>2, <1>3, <2>2, <2>3
  <1>t. token_ids[s] # << >>
    <2>1. num_blocks(<< >>) = 0
      BY BlockSizeAssumption, EmptySeq DEF num_blocks
    <2>2. num_blocks(token_ids[s]) > 0
      BY <1>0, <1>1, LoopTypes
    <2> QED  BY <2>1, <2>2
  <1>5. CASE call' = NoCall
    <2>1. call' \in Call /\ call'.op = "none" /\ call'.seq = NoSeq
      BY <1>5, EmptySeq DEF NoCall, Call, Hash, kNoHash
    <2>2. TypeOK'
      BY <1>2, <1>4, <1>5, <2>1 DEF IInv, TypeOK, BMTypeOK, Accounts
    <2>3. CallOK' /\ AllocateNeverStarves'
      BY <2>1 DEF CallOK, AllocateNeverStarves
    <2>4. ClientOK'
      <3>1. \A t \in SeqId : pending[t] => t # s
        BY <1>0 DEF IInv, ClientOK
      <3>2. \A t \in SeqId : t # NoSeq
        BY SeqIdAssumption
      <3> QED  BY <1>2, <1>4, <1>t, <2>1, <3>1, <3>2 DEF IInv, ClientOK
    <2> QED  BY <2>2, <2>3, <2>4 DEF IInv, Accounts
  <1>6. CASE /\ LoopIndex + 1 < num_blocks(token_ids[s])
             /\ call' = [call EXCEPT !.h = LoopHash, !.cache_miss = miss]
    <2>1. /\ call' \in Call /\ call'.op = "allocate" /\ call'.seq = s
          /\ call'.it = 0
      BY <1>0, <1>1, <1>3, <1>6 DEF Call
    <2>2. TypeOK'
      BY <1>1, <1>2, <1>4, <2>1 DEF IInv, TypeOK, BMTypeOK, Accounts
    <2>3. CallOK'
      BY <1>2, <1>4, <1>6, <2>1 DEF CallOK
    <2>4. AllocateNeverStarves'
      <3>1. Len(free_block_ids') \in Nat
        BY LenProperties DEF Accounts
      <3>2. Len(free_block_ids') >= num_blocks(token_ids[s]) - (LoopIndex + 1)
        BY <1>1, <3>1
      <3> QED  BY <1>2, <1>4, <2>1, <3>2 DEF AllocateNeverStarves
    <2>5. ClientOK'
      <3>1. \A t \in SeqId : pending[t] => t # s
        BY <1>0 DEF IInv, ClientOK
      <3> QED  BY <1>2, <1>4, <1>t, <2>1, <3>1 DEF IInv, ClientOK
    <2> QED  BY <2>2, <2>3, <2>4, <2>5 DEF IInv, Accounts
  <1> QED  BY <1>2, <1>5, <1>6

\* The block a cache hit names.
LEMMA HitBlock ==
    ASSUME IInv, CacheHit
    PROVE  hash_to_block_id[LoopHash] \in BlockId
  BY DEF IInv, TypeOK, BMTypeOK, CacheHit

\* A cached block is a whole number of tokens.
LEMMA CachedType ==
    ASSUME IInv, NEW s \in SeqId,
           num_cached_tokens' = [num_cached_tokens EXCEPT ![s] = @ + BLOCK_SIZE]
    PROVE  num_cached_tokens' \in [SeqId -> Nat]
  BY BlockSizeAssumption DEF IInv, TypeOK, BMTypeOK

\* A block that has just been reset is well typed, with one reference.
LEMMA ResetType == reset \in Block /\ reset.ref_count = 1
  BY EmptySeq DEF reset, Block, Hash, kNoHash

\* No iteration turns allocate into deallocate.
LEMMA StillAllocating ==
    ASSUME IInv, call.op = "allocate",
           NEW b \in BlockId, NEW blk \in Block, NEW miss \in BOOLEAN,
           EndIteration(b, blk, miss)
    PROVE  call'.op # "deallocate"
  <1>1. \/ call' = [call EXCEPT !.h = LoopHash, !.cache_miss = miss]
        \/ call' = NoCall
    BY DEF EndIteration
  <1>2. call \in Call
    BY DEF IInv, TypeOK, BMTypeOK
  <1>3. CASE call' = [call EXCEPT !.h = LoopHash, !.cache_miss = miss]
    BY <1>2, <1>3 DEF Call
  <1>4. CASE call' = NoCall
    BY <1>4 DEF NoCall
  <1> QED  BY <1>1, <1>3, <1>4

LEMMA HitUsedInv ==
    ASSUME IInv, AllocateHitUsed, UNCHANGED pending
    PROVE  IInv'
  <1>0. PICK b, s : b = hash_to_block_id[LoopHash] /\ s = call.seq
    OBVIOUS
  <1>1. /\ call.op = "allocate" /\ b \in used_block_ids
        /\ EndIteration(b, AddRef(blocks[b]), FALSE)
        /\ UNCHANGED << free_block_ids, used_block_ids >>
    BY <1>0 DEF AllocateHitUsed
  <1>2. b \in BlockId /\ s \in SeqId
    BY <1>0, <1>1, HitBlock, LoopTypes DEF AllocateHitUsed
  <1>3. /\ AddRef(blocks[b]) \in Block
        /\ AddRef(blocks[b]).ref_count = blocks[b].ref_count + 1
    <2>1. blocks[b] \in Block
      BY <1>2 DEF IInv, TypeOK, BMTypeOK
    <2> QED  BY <2>1 DEF AddRef, Block
  <1>4. PICK sealed \in Block :
            /\ sealed.ref_count = blocks[b].ref_count + 1
            /\ blocks' = [blocks EXCEPT ![b] = sealed]
    <2>1. \E x \in Block : /\ x.ref_count = AddRef(blocks[b]).ref_count
                           /\ blocks' = [blocks EXCEPT ![b] = x]
      BY <1>1, <1>2, <1>3, EndIterationEffect
    <2> QED  BY <1>3, <2>1
  <1>5. Accounts'
    <2>1. Accounts /\ block_table \in [SeqId -> Seq(BlockId)]
      BY InvAccounts DEF IInv, TypeOK, BMTypeOK
    <2>2. block_table' = [block_table EXCEPT ![s] = Append(@, b)]
      BY <1>0, <1>1 DEF EndIteration
    <2>3. call.op # "deallocate" /\ call'.op # "deallocate"
      BY <1>1, <1>2, <1>3, StillAllocating
    <2> QED  BY <1>1, <1>2, <1>4, <2>1, <2>2, <2>3, AccountsShared
  <1>6. num_cached_tokens' \in [SeqId -> Nat]
    BY <1>0, <1>2, CachedType DEF AllocateHitUsed
  <1>7. Len(free_block_ids') >= Len(free_block_ids) - 1
    BY <1>1, LoopTypes
  <1> QED  BY <1>1, <1>2, <1>3, <1>5, <1>6, <1>7, EndIterationInv

\* An iteration that takes a free block, by a hit or by a miss.
LEMMA TakeInv ==
    ASSUME IInv, call.op = "allocate", UNCHANGED pending,
           NEW b \in ToSet(free_block_ids), NEW miss \in BOOLEAN,
           TakeFree(b), EndIteration(b, reset, miss),
           num_cached_tokens' \in [SeqId -> Nat]
    PROVE  IInv'
  <1>0. PICK s : s = call.seq
    OBVIOUS
  <1>1. b \in BlockId /\ s \in SeqId
    BY <1>0, LoopTypes DEF IInv, FreeUsedPartition
  <1>2. reset \in Block /\ reset.ref_count = 1
    BY ResetType
  <1>3. PICK sealed \in Block :
            /\ sealed.ref_count = 1
            /\ blocks' = [blocks EXCEPT ![b] = sealed]
    <2>1. \E x \in Block : /\ x.ref_count = reset.ref_count
                           /\ blocks' = [blocks EXCEPT ![b] = x]
      BY <1>1, <1>2, EndIterationSeals
    <2> QED  BY <1>2, <2>1
  <1>4. Accounts' /\ Len(free_block_ids') = Len(free_block_ids) - 1
    <2>1. Accounts /\ block_table \in [SeqId -> Seq(BlockId)]
      BY InvAccounts DEF IInv, TypeOK, BMTypeOK
    <2>2. block_table' = [block_table EXCEPT ![s] = Append(@, b)]
      BY <1>0 DEF EndIteration
    <2>3. call.op # "deallocate" /\ call'.op # "deallocate"
      BY <1>1, <1>2, StillAllocating
    <2> QED  BY <1>1, <1>3, <2>1, <2>2, <2>3, AccountsTaken
  <1>5. Len(free_block_ids') >= Len(free_block_ids) - 1
    BY <1>4, LoopTypes
  <1> QED  BY <1>1, <1>2, <1>4, <1>5, EndIterationInv

LEMMA HitFreeInv ==
    ASSUME IInv, AllocateHitFree, UNCHANGED pending
    PROVE  IInv'
  <1>0. PICK b, s : b = hash_to_block_id[LoopHash] /\ s = call.seq
    OBVIOUS
  <1>1. /\ call.op = "allocate" /\ b \notin used_block_ids
        /\ TakeFree(b) /\ EndIteration(b, reset, FALSE)
    BY <1>0 DEF AllocateHitFree
  <1>2. b \in BlockId /\ s \in SeqId
    BY <1>0, <1>1, HitBlock, LoopTypes DEF AllocateHitFree
  <1>3. b \in ToSet(free_block_ids)
    <2>1. blocks[b].ref_count \in Nat
      BY <1>2 DEF IInv, TypeOK, BMTypeOK, Block
    <2>2. ~(blocks[b].ref_count > 0)
      BY <1>1, <1>2 DEF IInv, FreeUsedPartition
    <2>3. blocks[b].ref_count = 0
      BY <2>1, <2>2
    <2> QED  BY <1>2, <2>3 DEF IInv, FreeUsedPartition
  <1>4. num_cached_tokens' \in [SeqId -> Nat]
    BY <1>0, <1>2, CachedType DEF AllocateHitFree
  <1> QED  BY <1>1, <1>3, <1>4, TakeInv

\* The front of a free list that is not empty is free.
LEMMA HeadFree ==
    ASSUME free_block_ids \in Seq(BlockId), Len(free_block_ids) > 0
    PROVE  Head(free_block_ids) \in ToSet(free_block_ids)
  <1>1. free_block_ids # << >>
    BY EmptySeq
  <1>2. Head(free_block_ids) = free_block_ids[1]
    BY <1>1, HeadTailProperties
  <1>3. DOMAIN free_block_ids = 1 .. Len(free_block_ids) /\ Len(free_block_ids) \in Nat
    BY LenProperties
  <1>4. 1 \in 1 .. Len(free_block_ids)
    BY <1>3
  <1>5. 1 \in DOMAIN free_block_ids
    BY <1>3, <1>4
  <1> QED  BY <1>2, <1>5 DEF ToSet

LEMMA MissInv ==
    ASSUME IInv, AllocateMiss, UNCHANGED pending
    PROVE  IInv'
  <1>1. PICK b : b = Head(free_block_ids)
    OBVIOUS
  <1>2. /\ call.op = "allocate"
        /\ TakeFree(b) /\ EndIteration(b, reset, TRUE)
        /\ UNCHANGED num_cached_tokens
    BY <1>1 DEF AllocateMiss
  <1>3. b \in ToSet(free_block_ids)
    <2>1. Len(free_block_ids) > 0
      BY <1>2, LoopTypes
    <2>2. free_block_ids \in Seq(BlockId)
      BY DEF IInv, TypeOK, BMTypeOK
    <2> QED  BY <1>1, <2>1, <2>2, HeadFree
  <1>4. num_cached_tokens' \in [SeqId -> Nat]
    BY <1>2 DEF IInv, TypeOK, BMTypeOK
  <1> QED  BY <1>2, <1>3, <1>4, TakeInv

-----------------------------------------------------------------------------
(* The invariant is kept: deallocate *)

LEMMA DeallocateInv ==
    ASSUME IInv, DeallocateStep, UNCHANGED pending
    PROVE  IInv'
  <1>0. PICK s, n : s = call.seq /\ n = call.it
    OBVIOUS
  <1>1. /\ s \in SeqId /\ n \in Nat /\ n \in 1 .. Len(block_table[s])
        /\ call \in Call /\ call.op = "deallocate"
        /\ block_table \in [SeqId -> Seq(BlockId)]
        /\ num_cached_tokens \in [SeqId -> Nat]
    BY <1>0 DEF IInv, TypeOK, BMTypeOK, CallOK, Call, DeallocateStep
  <1>2. UNCHANGED << hash_to_block_id, token_ids >>
    BY DEF DeallocateStep
  <1>3. Accounts'
    BY InvAccounts, AccountsDropped DEF IInv
  <1>4. CASE n > 1
    <2>1. /\ call' = [call EXCEPT !.it = @ - 1]
          /\ UNCHANGED << block_table, num_cached_tokens >>
      BY <1>0, <1>4 DEF DeallocateStep
    <2>2. n - 1 \in Nat /\ n - 1 \in 1 .. Len(block_table[s])
      BY <1>1, <1>4, LenProperties
    <2>3. /\ call' \in Call /\ call'.op = "deallocate" /\ call'.seq = s
          /\ call'.it = n - 1
      BY <1>0, <1>1, <2>1, <2>2 DEF Call
    <2>4. TypeOK'
      BY <1>1, <1>2, <1>3, <2>1, <2>3 DEF IInv, TypeOK, BMTypeOK, Accounts
    <2>5. CallOK' /\ AllocateNeverStarves'
      BY <2>1, <2>2, <2>3 DEF CallOK, AllocateNeverStarves
    <2>6. ClientOK'
      BY <1>0, <1>2, <2>1, <2>3 DEF IInv, ClientOK
    <2> QED  BY <1>3, <2>4, <2>5, <2>6 DEF IInv, Accounts
  <1>5. CASE ~(n > 1)
    <2>1. /\ call' = NoCall
          /\ block_table' = [block_table EXCEPT ![s] = << >>]
          /\ num_cached_tokens' = [num_cached_tokens EXCEPT ![s] = 0]
      BY <1>0, <1>5 DEF DeallocateStep
    <2>2. /\ call' \in Call /\ call'.op = "none" /\ call'.seq = NoSeq
      BY <2>1, EmptySeq DEF NoCall, Call, Hash, kNoHash
    <2>3. /\ block_table' \in [SeqId -> Seq(BlockId)]
          /\ num_cached_tokens' \in [SeqId -> Nat]
          /\ block_table'[s] = << >>
          /\ \A t \in SeqId : t # s => block_table'[t] = block_table[t]
      BY <1>1, <2>1, EmptySeq
    <2>4. TypeOK'
      BY <1>2, <1>3, <2>1, <2>2, <2>3 DEF IInv, TypeOK, BMTypeOK, Accounts
    <2>5. CallOK' /\ AllocateNeverStarves'
      BY <2>2 DEF CallOK, AllocateNeverStarves
    <2>6. ClientOK'
      <3>1. \A t \in SeqId : pending[t] => t # s
        BY <1>0 DEF IInv, ClientOK
      <3> QED  BY <1>2, <2>2, <2>3, <3>1, SeqIdAssumption DEF IInv, ClientOK
    <2> QED  BY <1>3, <2>4, <2>5, <2>6 DEF IInv, Accounts
  <1> QED  BY <1>4, <1>5

-----------------------------------------------------------------------------
(* The invariant is kept: the client's actions *)

\* Between two calls every table entry is held, before and after a step that
\* starts no call and leaves the tables alone.
LEMMA HeldKept ==
    ASSUME call.op # "deallocate", call'.op # "deallocate",
           UNCHANGED block_table
    PROVE  \A s \in SeqId : Held(s)' = Held(s)
  BY DEF Held

\* A step that leaves the block manager's blocks, lists and tables alone.
LEMMA QuietAccounts ==
    ASSUME IInv, UNCHANGED << blocks, free_block_ids, used_block_ids, block_table >>,
           \A s \in SeqId : Held(s)' = Held(s)
    PROVE  Accounts'
  <1>1. Accounts
    BY InvAccounts
  <1>2. blocks' \in [BlockId -> Block]
    BY <1>1 DEF Accounts
  <1> QED  BY <1>1, <1>2, AccountsKept

LEMMA NewRequestInv ==
    ASSUME IInv, NEW s \in SeqId, NEW p \in Prompts, NewRequest(s, p)
    PROVE  IInv'
  <1>1. /\ call = NoCall /\ block_table[s] = << >>
        /\ token_ids' = [token_ids EXCEPT ![s] = p]
        /\ UNCHANGED << blocks, free_block_ids, used_block_ids, hash_to_block_id,
                        block_table, num_cached_tokens, call, pending >>
    BY DEF NewRequest
  <1>2. call.op = "none" /\ call.seq = NoSeq
    BY <1>1 DEF NoCall
  <1>3. Accounts'
    BY <1>1, <1>2, HeldKept, QuietAccounts
  <1>4. p \in Seq(Token)
    BY PromptsAssumption
  <1>5. TypeOK'
    BY <1>1, <1>4 DEF IInv, TypeOK, BMTypeOK
  <1>6. CallOK' /\ AllocateNeverStarves'
    BY <1>1, <1>2 DEF CallOK, AllocateNeverStarves
  <1>7. ClientOK'
    <2>1. \A t \in SeqId : t # s => token_ids'[t] = token_ids[t]
      BY <1>1 DEF IInv, TypeOK, BMTypeOK
    <2> QED  BY <1>1, <2>1 DEF IInv, ClientOK
  <1> QED  BY <1>3, <1>5, <1>6, <1>7 DEF IInv, Accounts

LEMMA AllocateInv ==
    ASSUME IInv, NEW s \in SeqId, Allocate(s)
    PROVE  IInv'
  <1>1. /\ call = NoCall /\ block_table[s] = << >> /\ can_allocate(s)
        /\ num_blocks(token_ids[s]) > 0
        /\ call' = [NoCall EXCEPT !.op = "allocate", !.seq = s]
        /\ UNCHANGED << blocks, free_block_ids, used_block_ids, hash_to_block_id,
                        token_ids, block_table, num_cached_tokens, pending >>
    BY DEF Allocate, BeginAllocate
  <1>2. call.op = "none" /\ call.seq = NoSeq
    BY <1>1 DEF NoCall
  <1>3. /\ call' \in Call /\ call'.op = "allocate" /\ call'.seq = s
        /\ call'.it = 0
    BY <1>1, EmptySeq DEF NoCall, Call, Hash, kNoHash
  <1>4. Accounts'
    BY <1>1, <1>2, <1>3, HeldKept, QuietAccounts
  <1>5. TypeOK'
    BY <1>1, <1>3 DEF IInv, TypeOK, BMTypeOK
  <1>6. Len(block_table[s]) = 0
    BY <1>1, EmptySeq
  <1>7. num_blocks(token_ids[s]) \in Nat
    BY NumBlocksType DEF IInv, TypeOK, BMTypeOK
  <1>8. CallOK'
    BY <1>1, <1>3, <1>6 DEF CallOK
  <1>9. AllocateNeverStarves'
    BY <1>1, <1>3, <1>6, <1>7 DEF AllocateNeverStarves, can_allocate
  <1>10. ClientOK'
    <2>1. ~pending[s]
      BY <1>1 DEF IInv, ClientOK
    <2> QED  BY <1>1, <1>3, <2>1 DEF IInv, ClientOK
  <1> QED  BY <1>4, <1>5, <1>8, <1>9, <1>10 DEF IInv, Accounts

LEMMA append_tokenInv ==
    ASSUME IInv, NEW s \in SeqId, NEW t \in Sampled, append_token(s, t)
    PROVE  IInv'
  <1>1. /\ call = NoCall /\ block_table[s] # << >>
        /\ token_ids' = [token_ids EXCEPT ![s] = Append(@, t)]
        /\ pending' = [pending EXCEPT ![s] = TRUE]
        /\ UNCHANGED << blocks, free_block_ids, used_block_ids, hash_to_block_id,
                        block_table, num_cached_tokens, call >>
    BY DEF append_token
  <1>2. call.op = "none" /\ call.seq = NoSeq
    BY <1>1 DEF NoCall
  <1>3. Accounts'
    BY <1>1, <1>2, HeldKept, QuietAccounts
  <1>4. /\ Append(token_ids[s], t) \in Seq(Token)
        /\ Append(token_ids[s], t) # << >>
    <2>1. token_ids[s] \in Seq(Token)
      BY DEF IInv, TypeOK, BMTypeOK
    <2>2. t \in Token
      BY SampledAssumption
    <2> QED  BY <2>1, <2>2, AppendProperties
  <1>5. TypeOK'
    BY <1>1, <1>4 DEF IInv, TypeOK, BMTypeOK
  <1>6. CallOK' /\ AllocateNeverStarves'
    BY <1>1, <1>2 DEF CallOK, AllocateNeverStarves
  <1>7. ClientOK'
    <2>1. /\ token_ids'[s] # << >>
          /\ \A u \in SeqId : u # s => /\ token_ids'[u] = token_ids[u]
                                       /\ pending'[u] = pending[u]
      BY <1>1, <1>4 DEF IInv, TypeOK, BMTypeOK
    <2> QED  BY <1>1, <1>2, <2>1, SeqIdAssumption DEF IInv, ClientOK
  <1> QED  BY <1>3, <1>5, <1>6, <1>7 DEF IInv, Accounts

LEMMA ReleaseInv ==
    ASSUME IInv, NEW s \in SeqId, Release(s)
    PROVE  IInv'
  <1>1. /\ call = NoCall /\ block_table[s] # << >>
        /\ call' = [NoCall EXCEPT !.op = "deallocate", !.seq = s,
                                  !.it = Len(block_table[s])]
        /\ pending' = [pending EXCEPT ![s] = FALSE]
        /\ UNCHANGED << blocks, free_block_ids, used_block_ids, hash_to_block_id,
                        token_ids, block_table, num_cached_tokens >>
    BY DEF Release, BeginDeallocate
  <1>2. call.op = "none" /\ call.seq = NoSeq
    BY <1>1 DEF NoCall
  <1>3. block_table[s] \in Seq(BlockId) /\ Len(block_table[s]) \in Nat
        /\ Len(block_table[s]) > 0
        /\ DOMAIN block_table[s] = 1 .. Len(block_table[s])
    <2>1. block_table[s] \in Seq(BlockId)
      BY DEF IInv, TypeOK, BMTypeOK
    <2> QED  BY <1>1, <2>1, EmptySeq, LenProperties
  <1>4. /\ call' \in Call /\ call'.op = "deallocate" /\ call'.seq = s
        /\ call'.it = Len(block_table[s])
    BY <1>1, <1>3, EmptySeq DEF NoCall, Call, Hash, kNoHash
  <1>5. Accounts'
    <2>1. \A u \in SeqId : Held(u) = DOMAIN block_table[u]
      BY <1>2 DEF Held
    <2>2. \A u \in SeqId : Held(u)' = DOMAIN block_table[u]
      BY <1>1, <1>3, <1>4 DEF Held
    <2> QED  BY <1>1, <2>1, <2>2, QuietAccounts
  <1>6. TypeOK'
    BY <1>1, <1>4 DEF IInv, TypeOK, BMTypeOK
  <1>7. CallOK' /\ AllocateNeverStarves'
    <2>1. Len(block_table[s]) \in 1 .. Len(block_table[s])
      BY <1>3
    <2> QED  BY <1>1, <1>4, <2>1 DEF CallOK, AllocateNeverStarves
  <1>8. ClientOK'
    <2>1. pending'[s] = FALSE /\ \A u \in SeqId : u # s => pending'[u] = pending[u]
      BY <1>1 DEF IInv, TypeOK
    <2> QED  BY <1>1, <1>4, <2>1 DEF IInv, ClientOK
  <1> QED  BY <1>5, <1>6, <1>7, <1>8 DEF IInv, Accounts

\* Sealing rewrites the hash and the tokens of a block, not its count.
LEMMA SealLastEffect ==
    ASSUME IInv, NEW s \in SeqId, block_table[s] # << >>, token_ids[s] # << >>,
           SealLast(s)
    PROVE  /\ blocks' \in [BlockId -> Block]
           /\ \A b \in BlockId : blocks'[b].ref_count = blocks[b].ref_count
           /\ DOMAIN hash_to_block_id' \subseteq Hash
           /\ hash_to_block_id' \in [DOMAIN hash_to_block_id' -> BlockId]
  <1> DEFINE table == block_table[s]
             tokens == block(token_ids[s], num_blocks(token_ids[s]) - 1)
             prefix == IF Len(table) > 1 THEN blocks[table[Len(table) - 1]].hash
                       ELSE kNoHash
             h == compute_hash(tokens, prefix)
             last == Last(table)
  <1>1. /\ table \in Seq(BlockId) /\ Len(table) \in Nat /\ Len(table) > 0
        /\ token_ids[s] \in Seq(Token)
        /\ blocks \in [BlockId -> Block]
    <2>1. /\ table \in Seq(BlockId) /\ token_ids[s] \in Seq(Token)
          /\ blocks \in [BlockId -> Block]
      BY DEF IInv, TypeOK, BMTypeOK
    <2> QED  BY <2>1, EmptySeq, LenProperties
  <1>2. tokens \in Seq(Token)
    <2>1. num_blocks(token_ids[s]) - 1 \in Nat
      BY <1>1, NumBlocksType
    <2> QED  BY <1>1, <2>1, BlockType
  <1>3. prefix \in Hash
    <2>1. CASE Len(table) > 1
      <3>1. Len(table) - 1 \in 1 .. Len(table)
        BY <1>1, <2>1
      <3>2. table[Len(table) - 1] \in BlockId
        BY <1>1, <3>1, ElementOfSeq
      <3> QED  BY <1>1, <2>1, <3>2 DEF Block
    <2>2. CASE ~(Len(table) > 1)
      BY <2>2, EmptySeq DEF kNoHash, Hash
    <2> QED  BY <2>1, <2>2
  <1>4. last \in BlockId
    <2>1. Len(table) \in 1 .. Len(table)
      BY <1>1
    <2> QED  BY <1>1, <2>1, ElementOfSeq DEF Last
  <1>5. /\ blocks' = [blocks EXCEPT ![last] = update(@, h, tokens)]
        /\ hash_to_block_id' = Index(h, last)
    BY DEF SealLast
  <1> HIDE DEF tokens, prefix, last
  <1>6. h \in Hash
    BY <1>2, <1>3, AppendProperties DEF compute_hash, Hash
  <1> HIDE DEF h
  <1>7. /\ update(blocks[last], h, tokens) \in Block
        /\ update(blocks[last], h, tokens).ref_count = blocks[last].ref_count
    <2>1. blocks[last] \in Block
      BY <1>1, <1>4
    <2> QED  BY <1>2, <1>6, <2>1 DEF update, Block
  <1>8. /\ blocks' \in [BlockId -> Block]
        /\ \A b \in BlockId : blocks'[b].ref_count = blocks[b].ref_count
    BY <1>1, <1>4, <1>5, <1>7
  <1> QED  BY <1>4, <1>5, <1>6, <1>8, IndexType

LEMMA MayAppendInv ==
    ASSUME IInv, NEW s \in SeqId, MayAppend(s)
    PROVE  IInv'
  <1>1. /\ pending[s] /\ can_append(s) /\ call = NoCall
        /\ pending' = [pending EXCEPT ![s] = FALSE]
        /\ UNCHANGED << token_ids, num_cached_tokens, call >>
    BY DEF MayAppend, may_append
  <1>2. /\ call.op = "none" /\ call.seq = NoSeq
        /\ call'.op = "none" /\ call'.seq = NoSeq
    BY <1>1 DEF NoCall
  <1>3. block_table[s] # << >> /\ token_ids[s] # << >>
    BY <1>1 DEF IInv, ClientOK
  <1>4. Accounts /\ block_table \in [SeqId -> Seq(BlockId)]
    BY InvAccounts DEF IInv, TypeOK, BMTypeOK
  <1>5. SUFFICES /\ Accounts'
                 /\ DOMAIN hash_to_block_id' \subseteq Hash
                 /\ hash_to_block_id' \in [DOMAIN hash_to_block_id' -> BlockId]
                 /\ block_table' \in [SeqId -> Seq(BlockId)]
                 /\ \A t \in SeqId : t # s => block_table'[t] = block_table[t]
    <2>1. TypeOK'
      BY <1>1, <1>5 DEF IInv, TypeOK, BMTypeOK, Accounts
    <2>2. CallOK' /\ AllocateNeverStarves'
      BY <1>2 DEF CallOK, AllocateNeverStarves
    <2>3. ClientOK'
      <3>1. /\ pending'[s] = FALSE
            /\ \A t \in SeqId : t # s => pending'[t] = pending[t]
        BY <1>1 DEF IInv, TypeOK
      <3> QED  BY <1>1, <1>3, <1>5, <3>1 DEF IInv, ClientOK
    <2> QED  BY <1>5, <2>1, <2>2, <2>3 DEF IInv, Accounts
  <1>6. CASE GrowTable(s)
    <2>1. PICK b : b = Head(free_block_ids)
      OBVIOUS
    <2>2. /\ rem(s) = 1 /\ TakeFree(b)
          /\ blocks' = [blocks EXCEPT ![b] = reset]
          /\ block_table' = [block_table EXCEPT ![s] = Append(@, b)]
          /\ UNCHANGED hash_to_block_id
      BY <1>6, <2>1 DEF GrowTable
    <2>3. b \in ToSet(free_block_ids)
      <3>1. free_block_ids \in Seq(BlockId) /\ Len(free_block_ids) \in Nat
        BY <1>4, LenProperties DEF Accounts
      <3>2. Len(free_block_ids) > 0
        BY <1>1, <2>2, <3>1 DEF can_append
      <3> QED  BY <2>1, <3>1, <3>2, HeadFree
    <2>4. Accounts'
      <3>1. reset \in Block /\ reset.ref_count = 1
        BY ResetType
      <3>2. call.op # "deallocate" /\ call'.op # "deallocate"
        BY <1>2
      <3> QED  BY <1>4, <2>2, <2>3, <3>1, <3>2, AccountsTaken
    <2>5. /\ block_table' \in [SeqId -> Seq(BlockId)]
          /\ \A t \in SeqId : t # s => block_table'[t] = block_table[t]
      <3>1. b \in BlockId
        BY <1>4, <2>3 DEF Accounts, FreeUsedPartition
      <3>2. block_table[s] \in Seq(BlockId)
        BY <1>4
      <3>3. Append(block_table[s], b) \in Seq(BlockId)
        BY <3>1, <3>2, AppendProperties
      <3> QED  BY <1>4, <2>2, <3>3
    <2> QED  BY <2>2, <2>4, <2>5 DEF IInv, TypeOK, BMTypeOK
  <1>7. CASE SealLast(s)
    <2>1. UNCHANGED << free_block_ids, used_block_ids, block_table >>
      BY <1>7 DEF SealLast
    <2>2. /\ blocks' \in [BlockId -> Block]
          /\ \A b \in BlockId : blocks'[b].ref_count = blocks[b].ref_count
          /\ DOMAIN hash_to_block_id' \subseteq Hash
          /\ hash_to_block_id' \in [DOMAIN hash_to_block_id' -> BlockId]
      BY <1>3, <1>7, SealLastEffect
    <2>3. Accounts'
      <3>1. \A t \in SeqId : Held(t)' = Held(t)
        BY <1>2, <2>1, HeldKept
      <3> QED  BY <1>4, <2>1, <2>2, <3>1, AccountsKept
    <2> QED  BY <1>4, <2>1, <2>2, <2>3
  <1>8. CASE KeepFilling(s)
    <2>1. UNCHANGED << blocks, free_block_ids, used_block_ids,
                       hash_to_block_id, block_table >>
      BY <1>8 DEF KeepFilling
    <2>2. Accounts'
      BY <1>2, <2>1, HeldKept, QuietAccounts
    <2> QED  BY <1>4, <2>1, <2>2 DEF IInv, TypeOK, BMTypeOK
  <1> QED  BY <1>6, <1>7, <1>8 DEF MayAppend, may_append

-----------------------------------------------------------------------------
(* The invariant is kept by every step *)

LEMMA StutterInv ==
    ASSUME IInv, UNCHANGED vars
    PROVE  IInv'
  <1>1. /\ UNCHANGED << blocks, free_block_ids, used_block_ids,
                        hash_to_block_id, token_ids, block_table,
                        num_cached_tokens, call, pending >>
    BY DEF vars, bmVars
  <1>2. \A s \in SeqId : Held(s)' = Held(s)
    BY <1>1 DEF Held
  <1>3. Accounts'
    BY <1>1, <1>2, QuietAccounts
  <1>4. TypeOK'
    BY <1>1 DEF IInv, TypeOK, BMTypeOK
  <1>5. CallOK' /\ ClientOK' /\ AllocateNeverStarves'
    BY <1>1 DEF IInv, CallOK, ClientOK, AllocateNeverStarves
  <1> QED  BY <1>3, <1>4, <1>5 DEF IInv, Accounts

LEMMA NextInv ==
    ASSUME IInv, [Next]_vars
    PROVE  IInv'
  <1>1. ASSUME NEW s \in SeqId, NEW p \in Prompts, NewRequest(s, p)
        PROVE  IInv'
    BY <1>1, NewRequestInv
  <1>2. ASSUME NEW s \in SeqId, Allocate(s)
        PROVE  IInv'
    BY <1>2, AllocateInv
  <1>3. ASSUME NEW s \in SeqId, NEW t \in Sampled, append_token(s, t)
        PROVE  IInv'
    BY <1>3, append_tokenInv
  <1>4. ASSUME NEW s \in SeqId, MayAppend(s)
        PROVE  IInv'
    BY <1>4, MayAppendInv
  <1>5. ASSUME NEW s \in SeqId, Release(s)
        PROVE  IInv'
    BY <1>5, ReleaseInv
  <1>6. CASE BMStep /\ UNCHANGED pending
    BY <1>6, HitUsedInv, HitFreeInv, MissInv, DeallocateInv DEF BMStep
  <1>7. CASE UNCHANGED vars
    BY <1>7, StutterInv
  <1> QED  BY <1>1, <1>2, <1>3, <1>4, <1>5, <1>6, <1>7 DEF Next

-----------------------------------------------------------------------------
(* Counting blocks *)

\* A sequence has at least as many entries as elements, and exactly as many
\* when they are distinct.
LEMMA ElementCount ==
    ASSUME NEW S, NEW q \in Seq(S)
    PROVE  /\ IsFiniteSet(ToSet(q))
           /\ Cardinality(ToSet(q)) <= Len(q)
           /\ IsInjective(q) => Cardinality(ToSet(q)) = Len(q)
  <1>1. /\ Len(q) \in Nat /\ DOMAIN q = 1 .. Len(q)
        /\ q \in [1 .. Len(q) -> S]
    BY LenProperties
  <1>2. q \in [1 .. Len(q) -> ToSet(q)]
    BY <1>1, ElementPositions
  <1>3. q \in Surjection(1 .. Len(q), ToSet(q))
    BY <1>2, ElementPositions DEF Surjection
  <1>4. IsFiniteSet(1 .. Len(q)) /\ Cardinality(1 .. Len(q)) = Len(q)
    BY <1>1, FS_Interval, SMTT(30)
  <1>5. /\ IsFiniteSet(ToSet(q))
        /\ Cardinality(ToSet(q)) <= Len(q)
        /\ Cardinality(ToSet(q)) = Len(q) <=> q \in Injection(1 .. Len(q), ToSet(q))
    BY <1>3, <1>4, FS_Surjection
  <1>6. ASSUME IsInjective(q)
        PROVE  q \in Injection(1 .. Len(q), ToSet(q))
    BY <1>2, <1>6 DEF Injection
  <1> QED  BY <1>5, <1>6

LEMMA BlockCount == IsFiniteSet(BlockId) /\ Cardinality(BlockId) = NumBlocks
  <1>1. 0 \in Int /\ NumBlocks - 1 \in Int /\ ~(0 > NumBlocks - 1)
    BY NumBlocksAssumption
  <1>2. /\ IsFiniteSet(0 .. NumBlocks - 1)
        /\ Cardinality(0 .. NumBlocks - 1) = (NumBlocks - 1) - 0 + 1
    BY <1>1, FS_Interval
  <1> QED  BY <1>2, NumBlocksAssumption DEF BlockId

\* Without tables every block is free.
LEMMA AllBlocksFree ==
    ASSUME IInv, \A s \in SeqId : block_table[s] = << >>
    PROVE  Len(free_block_ids) = NumBlocks
  <1>1. ASSUME NEW b \in BlockId
        PROVE  blocks[b].ref_count = 0
    <2>1. Refs(b) = {}
      <3>1. \A s \in SeqId : Held(s) = {}
        <4> TAKE s \in SeqId
        <4>1. block_table[s] = << >> /\ Len(block_table[s]) = 0
          BY LenProperties
        <4>2. ~(call.op = "deallocate" /\ call.seq = s)
          BY <4>1 DEF IInv, CallOK
        <4> QED  BY <4>1, <4>2 DEF Held
      <3> QED  BY <3>1, RefsElements
    <2> QED  BY <2>1, FS_EmptySet DEF IInv, RefCountExact
  <1>2. /\ ToSet(free_block_ids) = BlockId
        /\ IsInjective(free_block_ids) /\ free_block_ids \in Seq(BlockId)
    BY <1>1 DEF IInv, FreeUsedPartition, TypeOK, BMTypeOK
  <1> QED  BY <1>2, ElementCount, BlockCount

\* When one sequence alone has a table and no block is free, the table has an
\* entry for every block there is.
LEMMA TableHoldsAll ==
    ASSUME IInv, call = NoCall, NEW s \in SeqId, free_block_ids = << >>,
           \A t \in SeqId : t # s => block_table[t] = << >>
    PROVE  NumBlocks <= Len(block_table[s])
  <1>1. /\ block_table[s] \in Seq(BlockId)
        /\ \A t \in SeqId : Held(t) = DOMAIN block_table[t]
    BY DEF IInv, TypeOK, BMTypeOK, Held, NoCall
  <1>2. ASSUME NEW b \in BlockId
        PROVE  b \in ToSet(block_table[s])
    <2>1. blocks[b].ref_count # 0
      <3>1. ToSet(free_block_ids) = {}
        BY EmptyElements
      <3> QED  BY <3>1 DEF IInv, FreeUsedPartition
    <2>2. Refs(b) # {}
      BY <2>1, FS_EmptySet DEF IInv, RefCountExact
    <2>3. PICK t \in SeqId : \E i \in DOMAIN block_table[t] : block_table[t][i] = b
      BY <1>1, <2>2, RefsElements
    <2>4. t = s
      <3>1. DOMAIN << >> = {}
        OBVIOUS
      <3> QED  BY <2>3, <3>1
    <2> QED  BY <2>3, <2>4 DEF ToSet
  <1>3. ToSet(block_table[s]) = BlockId
    BY <1>1, <1>2, ElementPositions
  <1> QED  BY <1>1, <1>3, ElementCount, BlockCount

-----------------------------------------------------------------------------
(* The theorems *)

\* The strengthened invariant holds in every reachable state, whatever the
\* number of blocks, the requests and the sharing between them.
THEOREM InvariantHolds == Spec => []IInv
  <1>1. Init => IInv
    BY InitInv
  <1>2. IInv /\ [Next]_vars => IInv'
    BY NextInv
  <1> QED  BY <1>1, <1>2, PTL DEF Spec

\* Every variable of the block manager keeps its type; in particular no
\* ref_count is ever driven below zero by a deallocate.
THEOREM TypeCorrect == Spec => []TypeOK
  <1>1. IInv => TypeOK
    BY DEF IInv
  <1> QED  BY <1>1, InvariantHolds, PTL

\* Reference counts are exact: ref_count of a block is the number of table
\* entries that hold it (allocate, deallocate, may_append).
THEOREM RefCountsExact == Spec => []RefCountExact
  <1>1. IInv => RefCountExact
    BY DEF IInv
  <1> QED  BY <1>1, InvariantHolds, PTL

\* The free deque has exactly the unreferenced blocks, each once, and the
\* used set the others (allocate_block, deallocate_block).
THEOREM FreeListExact == Spec => []FreeUsedPartition
  <1>1. IInv => FreeUsedPartition
    BY DEF IInv
  <1> QED  BY <1>1, InvariantHolds, PTL

\* Asking can_allocate once is enough for the whole loop of allocate: the
\* free deque is never empty when an iteration takes its front.
THEOREM NeverStarves == Spec => []AllocateNeverStarves
  <1>1. IInv => AllocateNeverStarves
    BY DEF IInv
  <1> QED  BY <1>1, InvariantHolds, PTL

-----------------------------------------------------------------------------
(* The inductive invariant of the contents, on top of IInv *)

\* No block is indexed under "no hash": a partial block cannot be hit.
IndexHashed == kNoHash \notin DOMAIN hash_to_block_id

\* A block in use that is not sealed holds no tokens to be compared with and
\* has one holder.
UnsealedPrivate ==
    \A b \in BlockId :
        blocks[b].ref_count > 0 /\ blocks[b].hash = kNoHash =>
            blocks[b].token_ids = << >> /\ blocks[b].ref_count = 1

\* deallocate is not at work on the table of s.
Live(s) == ~(call.op = "deallocate" /\ call.seq = s)

\* Entry i of the table of s is sealed with the tokens of its logical block,
\* or unsealed while those are incomplete.
EntryOK(s, i) ==
    LET blk == blocks[block_table[s][i]] IN
    IF i * BLOCK_SIZE <= Covered(s)
    THEN blk.hash # kNoHash /\ blk.token_ids = block(token_ids[s], i - 1)
    ELSE blk.hash = kNoHash

\* ... also of the entries a running allocate has made so far.
EntriesOK ==
    \A s \in SeqId : Live(s) => \A i \in DOMAIN block_table[s] : EntryOK(s, i)

\* TableCovers in terms of multiples of the block size.
TableSize ==
    \A s \in SeqId : Settled(s) =>
        /\ (Len(block_table[s]) - 1) * BLOCK_SIZE < Covered(s)
        /\ Covered(s) <= Len(block_table[s]) * BLOCK_SIZE

ContentInv ==
    /\ IndexHashed
    /\ UnsealedPrivate
    /\ EntriesOK
    /\ TableSize
    /\ CachedWithinTable

\* A step leaves what block b says of its contents.
Kept(b) ==
    /\ blocks'[b].token_ids = blocks[b].token_ids
    /\ blocks'[b].hash = kNoHash <=> blocks[b].hash = kNoHash

\* What a step that seals no partial block does to the blocks in use: nothing.
BlocksKept == \A b \in BlockId : blocks[b].ref_count > 0 => Kept(b)

\* The step of SharedBlockFrozen.
SealedStays ==
    \A b \in BlockId :
        /\ blocks[b].ref_count > 0 /\ blocks[b].hash # kNoHash
        /\ blocks'[b].ref_count > 0
        => blocks'[b].token_ids = blocks[b].token_ids

-----------------------------------------------------------------------------
(* What the invariants say of one sequence and of one block *)

LEMMA SequenceTypes ==
    ASSUME IInv, NEW s \in SeqId
    PROVE  /\ block_table[s] \in Seq(BlockId)
           /\ Len(block_table[s]) \in Nat
           /\ DOMAIN block_table[s] = 1 .. Len(block_table[s])
           /\ block_table[s] = << >> <=> Len(block_table[s]) = 0
           /\ token_ids[s] \in Seq(Token)
           /\ Len(token_ids[s]) \in Nat
           /\ num_cached_tokens[s] \in Nat
           /\ Covered(s) \in Nat
           /\ ~pending[s] => Covered(s) = Len(token_ids[s])
           /\ pending[s] => Covered(s) + 1 = Len(token_ids[s])
  <1>1. /\ block_table[s] \in Seq(BlockId)
        /\ token_ids[s] \in Seq(Token)
        /\ num_cached_tokens[s] \in Nat
        /\ pending[s] \in BOOLEAN
    BY DEF IInv, TypeOK, BMTypeOK
  <1>2. /\ Len(block_table[s]) \in Nat
        /\ DOMAIN block_table[s] = 1 .. Len(block_table[s])
        /\ block_table[s] = << >> <=> Len(block_table[s]) = 0
        /\ Len(token_ids[s]) \in Nat
    BY <1>1, EmptySeq, LenProperties
  <1>3. pending[s] => Len(token_ids[s]) > 0
    <2>1. pending[s] => token_ids[s] # << >>
      BY DEF IInv, ClientOK
    <2> QED  BY <1>1, <1>2, <2>1, EmptySeq
  <1>4. /\ Covered(s) \in Nat
        /\ ~pending[s] => Covered(s) = Len(token_ids[s])
        /\ pending[s] => Covered(s) + 1 = Len(token_ids[s])
    <2>1. CASE pending[s]
      <3>1. Covered(s) = Len(token_ids[s]) - 1
        BY <2>1 DEF Covered
      <3> QED  BY <1>2, <1>3, <2>1, <3>1
    <2>2. CASE ~pending[s]
      <3>1. Covered(s) = Len(token_ids[s]) - 0
        BY <2>2 DEF Covered
      <3> QED  BY <1>2, <2>2, <3>1
    <2> QED  BY <2>1, <2>2
  <1> QED  BY <1>1, <1>2, <1>4

\* A table entry that deallocate is not dropping is a reference.
LEMMA EntryReferenced ==
    ASSUME IInv, NEW s \in SeqId, Live(s), NEW i \in DOMAIN block_table[s]
    PROVE  /\ block_table[s][i] \in BlockId
           /\ << s, i >> \in Refs(block_table[s][i])
           /\ blocks[block_table[s][i]].ref_count > 0
  <1>1. PICK b : b = block_table[s][i]
    OBVIOUS
  <1>2. b \in BlockId
    BY <1>1, SequenceTypes, ElementOfSeq
  <1>3. << s, i >> \in Refs(b)
    <2>1. i \in Held(s)
      BY DEF Held, Live
    <2> QED  BY <1>1, <2>1, RefsElements
  <1>4. blocks[b].ref_count > 0
    <2>1. /\ IsFiniteSet(Refs(b)) /\ blocks[b].ref_count = Cardinality(Refs(b))
          /\ blocks[b].ref_count \in Nat
      BY <1>2 DEF IInv, TypeOK, BMTypeOK, Block, RefsFinite, RefCountExact
    <2>2. Cardinality(Refs(b)) # 0
      BY <1>3, <2>1, FS_EmptySet
    <2> QED  BY <2>1, <2>2
  <1> QED  BY <1>1, <1>2, <1>3, <1>4

\* A block with one reference is in one table, once.
LEMMA OnlyReference ==
    ASSUME IInv, NEW b \in BlockId, blocks[b].ref_count = 1,
           NEW r \in Refs(b), NEW q \in Refs(b)
    PROVE  r = q
  <1>1. IsFiniteSet(Refs(b)) /\ Cardinality(Refs(b)) = 1
    BY DEF IInv, RefsFinite, RefCountExact
  <1>2. PICK x : Refs(b) = {x}
    BY <1>1, FS_Singleton
  <1> QED  BY <1>2

\* An entry stays right while its block is kept and its logical block stays
\* what it is, full or not.
LEMMA EntryKept ==
    ASSUME NEW s, NEW i, EntryOK(s, i),
           Kept(block_table[s][i]),
           block_table'[s][i] = block_table[s][i],
           i * BLOCK_SIZE <= Covered(s)' <=> i * BLOCK_SIZE <= Covered(s),
           i * BLOCK_SIZE <= Covered(s) =>
               block(token_ids'[s], i - 1) = block(token_ids[s], i - 1)
    PROVE  EntryOK(s, i)'
  BY DEF EntryOK, Kept

\* ... and so do all the entries of a table.
LEMMA EntriesKept ==
    ASSUME IInv, BlocksKept, NEW s \in SeqId, Live(s),
           \A i \in DOMAIN block_table[s] : EntryOK(s, i),
           Covered(s)' = Covered(s),
           \A i \in DOMAIN block_table[s] :
               /\ block_table'[s][i] = block_table[s][i]
               /\ i * BLOCK_SIZE <= Covered(s) =>
                      block(token_ids'[s], i - 1) = block(token_ids[s], i - 1)
    PROVE  \A i \in DOMAIN block_table[s] : EntryOK(s, i)'
  <1> TAKE i \in DOMAIN block_table[s]
  <1>1. Kept(block_table[s][i])
    BY EntryReferenced DEF BlocksKept
  <1> QED  BY <1>1, EntryKept

\* Only a full block has a hash.
LEMMA LoopHashFull ==
    ASSUME IInv, call.op = "allocate"
    PROVE  /\ LoopHash # kNoHash <=> Len(LoopTokens) = BLOCK_SIZE
           /\ LoopHash # kNoHash <=>
                  (LoopIndex + 1) * BLOCK_SIZE <= Len(token_ids[call.seq])
  <1>1. /\ call.h \in Hash /\ LoopTokens \in Seq(Token) /\ LoopIndex \in Nat
        /\ token_ids[call.seq] \in Seq(Token)
    BY LoopTypes DEF IInv, TypeOK, BMTypeOK, Call
  <1>2. Append(call.h, LoopTokens) # << >>
    BY <1>1, AppendProperties DEF Hash
  <1>3. LoopHash # kNoHash <=> Len(LoopTokens) = BLOCK_SIZE
    BY <1>2 DEF LoopHash, compute_hash, kNoHash
  <1>4. Len(LoopTokens) = BLOCK_SIZE <=>
            (LoopIndex + 1) * BLOCK_SIZE <= Len(token_ids[call.seq])
    BY <1>1, BlockFull DEF LoopTokens
  <1> QED  BY <1>3, <1>4

-----------------------------------------------------------------------------
(* The contents are kept: allocate *)

\* The block an iteration takes over: a free one, reset, or the one the
\* lookup hit, with the tokens at hand.
Chosen(b, blk) ==
    \/ blk = reset /\ blocks[b].ref_count = 0
    \/ /\ blk = AddRef(blocks[b])
       /\ LoopHash # kNoHash
       /\ blocks[b].token_ids = LoopTokens

\* The record of the block at the end of the iteration.
LEMMA ChosenSealed ==
    ASSUME IInv, ContentInv, call.op = "allocate",
           NEW b \in BlockId, NEW blk \in Block, NEW miss \in BOOLEAN,
           EndIteration(b, blk, miss), Chosen(b, blk)
    PROVE  /\ \A c \in BlockId : c # b => blocks'[c] = blocks[c]
           /\ LoopHash # kNoHash => /\ blocks'[b].hash # kNoHash
                                    /\ blocks'[b].token_ids = LoopTokens
           /\ LoopHash = kNoHash => blocks'[b] = reset
           /\ BlocksKept
  <1>1. blocks \in [BlockId -> Block]
    BY DEF IInv, TypeOK, BMTypeOK
  <1>2. /\ \A c \in BlockId : c # b => blocks'[c] = blocks[c]
        /\ LoopHash # kNoHash => blocks'[b] = update(blk, LoopHash, LoopTokens)
        /\ LoopHash = kNoHash => blocks'[b] = blk
    BY <1>1 DEF EndIteration
  <1>3. LoopHash # kNoHash => /\ blocks'[b].hash # kNoHash
                              /\ blocks'[b].token_ids = LoopTokens
    BY <1>2 DEF update, Block
  <1>4. LoopHash = kNoHash => blocks'[b] = reset
    BY <1>2 DEF Chosen
  <1>5. BlocksKept
    <2> SUFFICES ASSUME NEW c \in BlockId, blocks[c].ref_count > 0
                 PROVE  /\ blocks'[c].token_ids = blocks[c].token_ids
                        /\ blocks'[c].hash = kNoHash <=> blocks[c].hash = kNoHash
      BY DEF BlocksKept, Kept
    <2>1. CASE c # b
      BY <1>2, <2>1
    <2>2. CASE c = b
      <3>1. LoopHash # kNoHash /\ blocks[b].token_ids = LoopTokens
        BY <2>2 DEF Chosen
      <3>2. LoopTokens # << >>
        BY <3>1, LoopHashFull, BlockSizeAssumption, EmptySeq
      <3>3. blocks[b].hash # kNoHash
        BY <2>2, <3>1, <3>2 DEF ContentInv, UnsealedPrivate
      <3> QED  BY <1>3, <2>2, <3>1, <3>3
    <2> QED  BY <2>1, <2>2
  <1> QED  BY <1>2, <1>3, <1>4, <1>5

\* The tables after an iteration: one more entry, for the sequence served.
LEMMA IterationTables ==
    ASSUME IInv, call.op = "allocate",
           NEW b \in BlockId, NEW blk, NEW miss,
           EndIteration(b, blk, miss)
    PROVE  LET s == call.seq IN
           /\ Len(block_table'[s]) = LoopIndex + 1
           /\ DOMAIN block_table'[s] = DOMAIN block_table[s] \cup {LoopIndex + 1}
           /\ \A i \in DOMAIN block_table[s] :
                  block_table'[s][i] = block_table[s][i]
           /\ block_table'[s][LoopIndex + 1] = b
           /\ \A t \in SeqId : t # s => block_table'[t] = block_table[t]
  <1>1. PICK s : s = call.seq
    OBVIOUS
  <1>2. /\ s \in SeqId /\ block_table[s] \in Seq(BlockId)
        /\ DOMAIN block_table[s] = 1 .. LoopIndex
        /\ LoopIndex \in Nat /\ LoopIndex = Len(block_table[s])
    BY <1>1, LoopTypes, SequenceTypes DEF LoopIndex
  <1>3. block_table' = [block_table EXCEPT ![s] = Append(@, b)]
    BY <1>1 DEF EndIteration
  <1>4. /\ block_table'[s] = Append(block_table[s], b)
        /\ \A t \in SeqId : t # s => block_table'[t] = block_table[t]
    BY <1>2, <1>3 DEF IInv, TypeOK, BMTypeOK
  <1>5. /\ Append(block_table[s], b) \in Seq(BlockId)
        /\ Len(Append(block_table[s], b)) = LoopIndex + 1
        /\ \A i \in 1 .. LoopIndex :
               Append(block_table[s], b)[i] = block_table[s][i]
        /\ Append(block_table[s], b)[LoopIndex + 1] = b
    BY <1>2, AppendProperties
  <1>6. DOMAIN Append(block_table[s], b) = 1 .. LoopIndex + 1
    BY <1>5, LenProperties
  <1>7. 1 .. LoopIndex + 1 = 1 .. LoopIndex \cup {LoopIndex + 1}
    BY <1>2
  <1> QED  BY <1>1, <1>2, <1>4, <1>5, <1>6, <1>7

\* An iteration counts a block as cached only when it is full and hit.
LEMMA IterationContent ==
    ASSUME IInv, ContentInv, call.op = "allocate", UNCHANGED pending,
           NEW b \in BlockId, NEW blk \in Block, NEW miss \in BOOLEAN,
           EndIteration(b, blk, miss), Chosen(b, blk),
           \/ UNCHANGED num_cached_tokens
           \/ /\ LoopHash # kNoHash
              /\ num_cached_tokens' =
                     [num_cached_tokens EXCEPT ![call.seq] = @ + BLOCK_SIZE]
    PROVE  ContentInv' /\ SealedStays
  <1>1. PICK s, n : s = call.seq /\ n = LoopIndex
    OBVIOUS
  <1>2. /\ s \in SeqId /\ n \in Nat /\ n = Len(block_table[s])
        /\ n < num_blocks(token_ids[s])
        /\ UNCHANGED token_ids
        /\ \/ /\ n + 1 < num_blocks(token_ids[s])
              /\ call' = [call EXCEPT !.h = LoopHash, !.cache_miss = miss]
           \/ ~(n + 1 < num_blocks(token_ids[s])) /\ call' = NoCall
    BY <1>1, LoopTypes DEF EndIteration, LoopIndex
  <1>3. /\ \A t \in SeqId : Live(t) /\ Covered(t)' = Covered(t)
        /\ Covered(s) = Len(token_ids[s])
    <2>1. ~pending[s]
      BY <1>1, <1>2 DEF IInv, ClientOK
    <2> QED  BY <1>2, <2>1, SequenceTypes DEF Live, Covered
  <1>4. LoopHash # kNoHash <=> (n + 1) * BLOCK_SIZE <= Covered(s)
    BY <1>1, <1>3, LoopHashFull
  <1>5. /\ Len(block_table'[s]) = n + 1
        /\ DOMAIN block_table'[s] = DOMAIN block_table[s] \cup {n + 1}
        /\ \A i \in DOMAIN block_table[s] : block_table'[s][i] = block_table[s][i]
        /\ block_table'[s][n + 1] = b
        /\ \A t \in SeqId : t # s => block_table'[t] = block_table[t]
    BY <1>1, IterationTables
  <1>6. /\ \A c \in BlockId : c # b => blocks'[c] = blocks[c]
        /\ LoopHash # kNoHash => /\ blocks'[b].hash # kNoHash
                                 /\ blocks'[b].token_ids = LoopTokens
        /\ LoopHash = kNoHash => blocks'[b] = reset
        /\ BlocksKept
    BY ChosenSealed
  <1>7. IndexHashed'
    BY DEF ContentInv, IndexHashed, EndIteration, Index
  <1>8. UnsealedPrivate'
    <2> SUFFICES ASSUME NEW c \in BlockId,
                        blocks'[c].ref_count > 0, blocks'[c].hash = kNoHash
                 PROVE  blocks'[c].token_ids = << >> /\ blocks'[c].ref_count = 1
      BY DEF UnsealedPrivate
    <2>1. CASE c = b
      BY <1>6, <2>1 DEF reset
    <2>2. CASE c # b
      BY <1>6, <2>2 DEF ContentInv, UnsealedPrivate
    <2> QED  BY <2>1, <2>2
  <1>9. EntriesOK'
    <2> SUFFICES ASSUME NEW t \in SeqId, NEW i \in DOMAIN block_table'[t]
                 PROVE  EntryOK(t, i)'
      BY DEF EntriesOK
    <2>1. \A j \in DOMAIN block_table[t] : EntryOK(t, j)'
      <3>1. \A j \in DOMAIN block_table[t] : EntryOK(t, j)
        BY <1>3 DEF ContentInv, EntriesOK
      <3>2. \A j \in DOMAIN block_table[t] : block_table'[t][j] = block_table[t][j]
        BY <1>5
      <3> QED  BY <1>2, <1>3, <1>6, <3>1, <3>2, EntriesKept
    <2>2. CASE i \in DOMAIN block_table[t]
      BY <2>1, <2>2
    <2>3. CASE t = s /\ i = n + 1
      <3>1. block_table'[s][n + 1] = b /\ (n + 1) - 1 = n
        BY <1>2, <1>5
      <3>2. LoopTokens = block(token_ids[s], n)
        BY <1>1 DEF LoopTokens
      <3>3. Covered(s)' = Covered(s) /\ token_ids' = token_ids
        BY <1>2, <1>3
      <3>4. CASE LoopHash # kNoHash
        BY <1>4, <1>6, <2>3, <3>1, <3>2, <3>3, <3>4 DEF EntryOK
      <3>5. CASE LoopHash = kNoHash
        BY <1>4, <1>6, <2>3, <3>1, <3>3, <3>5 DEF EntryOK, reset
      <3> QED  BY <3>4, <3>5
    <2> QED  BY <1>5, <2>2, <2>3
  <1>10. TableSize'
    <2> SUFFICES ASSUME NEW t \in SeqId, Settled(t)'
                 PROVE  /\ (Len(block_table'[t]) - 1) * BLOCK_SIZE < Covered(t)'
                        /\ Covered(t)' <= Len(block_table'[t]) * BLOCK_SIZE
      BY DEF TableSize
    <2>1. CASE t # s
      <3>1. Settled(t)
        BY <1>1, <1>5, <2>1 DEF Settled
      <3> QED  BY <1>3, <1>5, <2>1, <3>1 DEF ContentInv, TableSize
    <2>2. CASE t = s
      <3>1. ~(n + 1 < num_blocks(token_ids[s]))
        <4>1. call'.seq # s
          BY <2>2 DEF Settled
        <4> QED  BY <1>1, <1>2, <4>1 DEF IInv, TypeOK, BMTypeOK, Call
      <3>2. token_ids[s] \in Seq(Token) /\ num_blocks(token_ids[s]) \in Nat
        BY <1>1, <1>2, SequenceTypes, LoopTypes
      <3>3. n + 1 = num_blocks(token_ids[s])
        BY <1>2, <3>1, <3>2
      <3>4. /\ ((n + 1) - 1) * BLOCK_SIZE < Len(token_ids[s])
            /\ Len(token_ids[s]) <= (n + 1) * BLOCK_SIZE
        BY <1>2, <3>2, <3>3, NumBlocksCeil
      <3> QED  BY <1>3, <1>5, <2>2, <3>4
    <2> QED  BY <2>1, <2>2
  <1>11. CachedWithinTable'
    <2> SUFFICES ASSUME NEW t \in SeqId
                 PROVE  /\ num_cached_tokens'[t] % BLOCK_SIZE = 0
                        /\ num_cached_tokens'[t] <= Len(token_ids[t])
                        /\ num_cached_tokens'[t] <= BLOCK_SIZE * Len(block_table'[t])
      BY <1>2 DEF CachedWithinTable
    <2>1. /\ num_cached_tokens[t] % BLOCK_SIZE = 0
          /\ num_cached_tokens[t] <= Len(token_ids[t])
          /\ num_cached_tokens[t] <= BLOCK_SIZE * Len(block_table[t])
      BY DEF ContentInv, CachedWithinTable
    <2>2. /\ num_cached_tokens[t] \in Nat /\ BLOCK_SIZE \in Nat /\ BLOCK_SIZE >= 2
          /\ Len(token_ids[t]) \in Nat
      BY SequenceTypes, BlockSizeAssumption
    <2>3. CASE t # s
      <3>1. num_cached_tokens'[t] = num_cached_tokens[t]
        BY <1>1, <2>3 DEF IInv, TypeOK, BMTypeOK
      <3> QED  BY <1>5, <2>1, <2>3, <3>1
    <2>4. CASE t = s
      <3>1. /\ BLOCK_SIZE * (n + 1) = BLOCK_SIZE * n + BLOCK_SIZE
            /\ BLOCK_SIZE * n \in Int
            /\ (n + 1) * BLOCK_SIZE = BLOCK_SIZE * n + BLOCK_SIZE
        <4>1. n \in Int /\ n + 1 \in Int
          BY <1>2
        <4>2. /\ n * BLOCK_SIZE \in Int
              /\ BLOCK_SIZE * n = n * BLOCK_SIZE
              /\ BLOCK_SIZE * (n + 1) = (n + 1) * BLOCK_SIZE
              /\ (n + 1) * BLOCK_SIZE = n * BLOCK_SIZE + BLOCK_SIZE
          BY <4>1, BlockMultiples
        <4> QED  BY <4>2
      <3>2. num_cached_tokens[s] <= BLOCK_SIZE * n
        BY <1>2, <2>1, <2>4
      <3>3. Len(block_table'[s]) = n + 1
        BY <1>5
      <3>4. CASE UNCHANGED num_cached_tokens
        BY <2>1, <2>2, <2>4, <3>1, <3>2, <3>3, <3>4
      <3>5. CASE /\ LoopHash # kNoHash
                 /\ num_cached_tokens' =
                        [num_cached_tokens EXCEPT ![s] = @ + BLOCK_SIZE]
        <4>1. num_cached_tokens'[s] = num_cached_tokens[s] + BLOCK_SIZE
          BY <1>2, <3>5 DEF IInv, TypeOK, BMTypeOK
        <4>2. BLOCK_SIZE * n + BLOCK_SIZE <= Len(token_ids[s])
          BY <1>3, <1>4, <3>1, <3>5
        <4>3. (num_cached_tokens[s] + BLOCK_SIZE) % BLOCK_SIZE = 0
          BY <2>1, <2>2, <2>4, BlockMultipleNext
        <4> DEFINE p == BLOCK_SIZE * n
                   x == num_cached_tokens[s]
        <4>4. p \in Int /\ BLOCK_SIZE * (n + 1) = p + BLOCK_SIZE
          BY <3>1
        <4>5. x \in Nat /\ x <= p /\ p + BLOCK_SIZE <= Len(token_ids[s])
          BY <2>2, <2>4, <3>2, <4>2
        <4> HIDE DEF p, x
        <4>6. /\ x + BLOCK_SIZE <= Len(token_ids[s])
              /\ x + BLOCK_SIZE <= BLOCK_SIZE * (n + 1)
          BY <2>2, <2>4, <4>4, <4>5
        <4> QED  BY <2>4, <3>3, <4>1, <4>3, <4>6 DEF x
      <3> QED  BY <1>1, <3>4, <3>5
    <2> QED  BY <2>3, <2>4
  <1>12. SealedStays
    BY <1>6 DEF SealedStays, BlocksKept, Kept
  <1> QED  BY <1>7, <1>8, <1>9, <1>10, <1>11, <1>12 DEF ContentInv

LEMMA HitUsedContent ==
    ASSUME IInv, ContentInv, AllocateHitUsed, UNCHANGED pending
    PROVE  ContentInv' /\ SealedStays
  <1>1. PICK b : b = hash_to_block_id[LoopHash]
    OBVIOUS
  <1>2. /\ call.op = "allocate" /\ CacheHit
        /\ EndIteration(b, AddRef(blocks[b]), FALSE)
        /\ num_cached_tokens' =
               [num_cached_tokens EXCEPT ![call.seq] = @ + BLOCK_SIZE]
    BY <1>1 DEF AllocateHitUsed
  <1>3. b \in BlockId
    BY <1>1, <1>2, HitBlock
  <1>4. AddRef(blocks[b]) \in Block
    <2>1. blocks[b] \in Block
      BY <1>3 DEF IInv, TypeOK, BMTypeOK
    <2> QED  BY <2>1 DEF AddRef, Block
  <1>5. LoopHash # kNoHash /\ blocks[b].token_ids = LoopTokens
    BY <1>1, <1>2 DEF CacheHit, ContentInv, IndexHashed
  <1>6. Chosen(b, AddRef(blocks[b]))
    BY <1>5 DEF Chosen
  <1> QED  BY <1>2, <1>3, <1>4, <1>5, <1>6, IterationContent

LEMMA HitFreeContent ==
    ASSUME IInv, ContentInv, AllocateHitFree, UNCHANGED pending
    PROVE  ContentInv' /\ SealedStays
  <1>1. PICK b : b = hash_to_block_id[LoopHash]
    OBVIOUS
  <1>2. /\ call.op = "allocate" /\ CacheHit /\ b \notin used_block_ids
        /\ EndIteration(b, reset, FALSE)
        /\ num_cached_tokens' =
               [num_cached_tokens EXCEPT ![call.seq] = @ + BLOCK_SIZE]
    BY <1>1 DEF AllocateHitFree
  <1>3. b \in BlockId
    BY <1>1, <1>2, HitBlock
  <1>4. LoopHash # kNoHash
    BY <1>2 DEF CacheHit, ContentInv, IndexHashed
  <1>5. Chosen(b, reset)
    <2>1. blocks[b].ref_count \in Nat
      BY <1>3 DEF IInv, TypeOK, BMTypeOK, Block
    <2>2. ~(blocks[b].ref_count > 0)
      BY <1>2, <1>3 DEF IInv, FreeUsedPartition
    <2> QED  BY <2>1, <2>2 DEF Chosen
  <1> QED  BY <1>2, <1>3, <1>4, <1>5, ResetType, IterationContent

LEMMA MissContent ==
    ASSUME IInv, ContentInv, AllocateMiss, UNCHANGED pending
    PROVE  ContentInv' /\ SealedStays
  <1>1. PICK b : b = Head(free_block_ids)
    OBVIOUS
  <1>2. /\ call.op = "allocate"
        /\ EndIteration(b, reset, TRUE)
        /\ UNCHANGED num_cached_tokens
    BY <1>1 DEF AllocateMiss
  <1>3. b \in BlockId /\ blocks[b].ref_count = 0
    <2>1. Len(free_block_ids) > 0
      BY <1>2, LoopTypes
    <2>2. free_block_ids \in Seq(BlockId)
      BY DEF IInv, TypeOK, BMTypeOK
    <2>3. b \in ToSet(free_block_ids)
      BY <1>1, <2>1, <2>2, HeadFree
    <2> QED  BY <2>3 DEF IInv, FreeUsedPartition
  <1>4. Chosen(b, reset)
    BY <1>3 DEF Chosen
  <1> QED  BY <1>2, <1>3, <1>4, ResetType, IterationContent

-----------------------------------------------------------------------------
(* The contents are kept: deallocate *)

\* Dropping a reference touches nothing but the count, and a table that loses
\* its last entry is cleared together with its cached tokens.
LEMMA DeallocateContent ==
    ASSUME IInv, ContentInv, DeallocateStep, UNCHANGED pending
    PROVE  ContentInv' /\ SealedStays
  <1>1. PICK s, b : s = call.seq /\ b = block_table[s][call.it]
    OBVIOUS
  <1>2. /\ call.op = "deallocate" /\ s \in SeqId /\ call.it \in Nat
        /\ call \in Call
        /\ b \in BlockId
        /\ blocks' = [blocks EXCEPT ![b].ref_count = @ - 1]
        /\ UNCHANGED << hash_to_block_id, token_ids >>
    <2>1. /\ call.op = "deallocate" /\ s \in SeqId /\ call \in Call
          /\ call.it \in 1 .. Len(block_table[s])
      BY <1>1 DEF IInv, TypeOK, BMTypeOK, Call, CallOK, DeallocateStep
    <2>2. b \in BlockId
      BY <1>1, <2>1, SequenceTypes, ElementOfSeq
    <2>3. call.it \in Nat
      BY <2>1 DEF Call
    <2> QED  BY <1>1, <2>1, <2>2, <2>3 DEF DeallocateStep
  <1>3. \A c \in BlockId :
            /\ blocks'[c].token_ids = blocks[c].token_ids
            /\ blocks'[c].hash = blocks[c].hash
            /\ blocks'[c].ref_count > 0 =>
                   blocks[c].ref_count > 0 /\ (c = b => blocks[c].ref_count > 1)
    <2> SUFFICES ASSUME NEW c \in BlockId
                 PROVE  /\ blocks'[c].token_ids = blocks[c].token_ids
                        /\ blocks'[c].hash = blocks[c].hash
                        /\ blocks'[c].ref_count > 0 =>
                               /\ blocks[c].ref_count > 0
                               /\ c = b => blocks[c].ref_count > 1
      OBVIOUS
    <2>1. blocks \in [BlockId -> Block]
      BY DEF IInv, TypeOK, BMTypeOK
    <2>2. CASE c # b
      BY <1>2, <2>1, <2>2
    <2>3. CASE c = b
      <3>1. blocks'[c] = [blocks[c] EXCEPT !.ref_count = @ - 1]
        BY <1>2, <2>1, <2>3
      <3>2. /\ blocks'[c].token_ids = blocks[c].token_ids
            /\ blocks'[c].hash = blocks[c].hash
            /\ blocks'[c].ref_count = blocks[c].ref_count - 1
            /\ blocks[c].ref_count \in Nat
        BY <2>1, <3>1 DEF Block
      <3> QED  BY <3>2
    <2> QED  BY <2>2, <2>3
  <1>4. BlocksKept /\ SealedStays
    BY <1>3 DEF BlocksKept, Kept, SealedStays
  <1>5. \A t \in SeqId : t # s =>
            /\ block_table'[t] = block_table[t]
            /\ num_cached_tokens'[t] = num_cached_tokens[t]
            /\ Live(t) /\ Covered(t)' = Covered(t)
            /\ Settled(t)' => Settled(t)
    BY <1>1, <1>2 DEF DeallocateStep, IInv, TypeOK, BMTypeOK, Live, Covered, Settled
  <1>6. \/ ~Live(s)' /\ call'.seq = s /\ UNCHANGED << block_table, num_cached_tokens >>
        \/ block_table'[s] = << >> /\ num_cached_tokens'[s] = 0
    <2>1. CASE call.it > 1
      <3>1. /\ call' = [call EXCEPT !.it = @ - 1]
            /\ UNCHANGED << block_table, num_cached_tokens >>
        BY <2>1 DEF DeallocateStep
      <3>2. call'.op = "deallocate" /\ call'.seq = s
        BY <1>1, <1>2, <3>1 DEF Call
      <3> QED  BY <3>1, <3>2 DEF Live
    <2>2. CASE ~(call.it > 1)
      BY <1>1, <1>2, <2>2 DEF DeallocateStep, IInv, TypeOK, BMTypeOK
    <2> QED  BY <2>1, <2>2
  <1>7. IndexHashed'
    BY <1>2 DEF ContentInv, IndexHashed
  <1>8. UnsealedPrivate'
    <2> SUFFICES ASSUME NEW c \in BlockId,
                        blocks'[c].ref_count > 0, blocks'[c].hash = kNoHash
                 PROVE  blocks'[c].token_ids = << >> /\ blocks'[c].ref_count = 1
      BY DEF UnsealedPrivate
    <2>1. blocks[c].token_ids = << >> /\ blocks[c].ref_count = 1
      BY <1>3 DEF ContentInv, UnsealedPrivate
    <2>2. c # b
      BY <1>3, <2>1
    <2>3. blocks'[c] = blocks[c]
      BY <1>2, <2>2 DEF IInv, TypeOK, BMTypeOK
    <2> QED  BY <2>1, <2>3
  <1>9. EntriesOK'
    <2> SUFFICES ASSUME NEW t \in SeqId, Live(t)', NEW i \in DOMAIN block_table'[t]
                 PROVE  EntryOK(t, i)'
      BY DEF EntriesOK
    <2>1. CASE t = s
      BY <1>6, <2>1
    <2>2. CASE t # s
      <3>1. \A j \in DOMAIN block_table[t] : EntryOK(t, j)
        BY <1>5, <2>2 DEF ContentInv, EntriesOK
      <3> QED  BY <1>2, <1>4, <1>5, <2>2, <3>1, EntriesKept
    <2> QED  BY <2>1, <2>2
  <1>10. TableSize'
    <2> SUFFICES ASSUME NEW t \in SeqId, Settled(t)'
                 PROVE  /\ (Len(block_table'[t]) - 1) * BLOCK_SIZE < Covered(t)'
                        /\ Covered(t)' <= Len(block_table'[t]) * BLOCK_SIZE
      BY DEF TableSize
    <2>1. t # s
      BY <1>6 DEF Settled
    <2> QED  BY <1>5, <2>1 DEF ContentInv, TableSize
  <1>11. CachedWithinTable'
    <2> SUFFICES ASSUME NEW t \in SeqId
                 PROVE  /\ num_cached_tokens'[t] % BLOCK_SIZE = 0
                        /\ num_cached_tokens'[t] <= Len(token_ids[t])
                        /\ num_cached_tokens'[t] <= BLOCK_SIZE * Len(block_table'[t])
      BY <1>2 DEF CachedWithinTable
    <2>1. CASE /\ block_table'[t] = block_table[t]
               /\ num_cached_tokens'[t] = num_cached_tokens[t]
      BY <2>1 DEF ContentInv, CachedWithinTable
    <2>2. CASE block_table'[t] = << >> /\ num_cached_tokens'[t] = 0
      <3>1. /\ Len(block_table'[t]) = 0 /\ BLOCK_SIZE * 0 = 0
            /\ 0 % BLOCK_SIZE = 0 /\ Len(token_ids[t]) \in Nat
        BY <2>2, EmptySeq, BlockSizeAssumption, SequenceTypes
      <3> QED  BY <2>2, <3>1
    <2> QED  BY <1>5, <1>6, <2>1, <2>2
  <1> QED  BY <1>4, <1>7, <1>8, <1>9, <1>10, <1>11 DEF ContentInv

-----------------------------------------------------------------------------
(* The contents are kept: the client's actions *)

\* A step that leaves the blocks, the index and the tables alone, and of every
\* table it does not start to release the tokens it covers.
LEMMA QuietContent ==
    ASSUME IInv, ContentInv,
           UNCHANGED << blocks, hash_to_block_id, block_table, num_cached_tokens >>,
           \A t \in SeqId : block_table[t] # << >> =>
               /\ Live(t)' => Live(t)
               /\ Live(t)' => Covered(t)' = Covered(t)
               /\ Settled(t)' => Settled(t) /\ Live(t)'
               /\ Len(token_ids[t]) <= Len(token_ids'[t])
               /\ \A i \in DOMAIN block_table[t] : i * BLOCK_SIZE <= Covered(t) =>
                      block(token_ids'[t], i - 1) = block(token_ids[t], i - 1),
           \A t \in SeqId : Len(token_ids'[t]) \in Nat
    PROVE  ContentInv' /\ SealedStays
  <1>1. BlocksKept /\ SealedStays
    BY DEF BlocksKept, Kept, SealedStays
  <1>2. IndexHashed' /\ UnsealedPrivate'
    BY DEF ContentInv, IndexHashed, UnsealedPrivate
  <1>3. EntriesOK'
    <2> SUFFICES ASSUME NEW t \in SeqId, Live(t)', NEW i \in DOMAIN block_table[t]
                 PROVE  EntryOK(t, i)'
      BY DEF EntriesOK
    <2>1. block_table[t] # << >>
      BY EmptySeq
    <2>2. Live(t) /\ Covered(t)' = Covered(t)
      BY <2>1
    <2>3. \A j \in DOMAIN block_table[t] : EntryOK(t, j)
      BY <2>2 DEF ContentInv, EntriesOK
    <2> QED  BY <1>1, <2>1, <2>2, <2>3, EntriesKept
  <1>4. TableSize'
    <2> SUFFICES ASSUME NEW t \in SeqId, Settled(t)'
                 PROVE  /\ (Len(block_table[t]) - 1) * BLOCK_SIZE < Covered(t)'
                        /\ Covered(t)' <= Len(block_table[t]) * BLOCK_SIZE
      BY DEF TableSize
    <2>1. Settled(t) /\ Covered(t)' = Covered(t)
      BY DEF Settled
    <2> QED  BY <2>1 DEF ContentInv, TableSize
  <1>5. CachedWithinTable'
    <2> SUFFICES ASSUME NEW t \in SeqId
                 PROVE  num_cached_tokens[t] <= Len(token_ids'[t])
      BY DEF ContentInv, CachedWithinTable
    <2>1. /\ num_cached_tokens[t] \in Nat /\ Len(token_ids[t]) \in Nat
          /\ Len(token_ids'[t]) \in Nat
          /\ num_cached_tokens[t] <= Len(token_ids[t])
          /\ num_cached_tokens[t] <= BLOCK_SIZE * Len(block_table[t])
      BY SequenceTypes DEF ContentInv, CachedWithinTable
    <2>2. CASE block_table[t] = << >>
      <3>1. Len(block_table[t]) = 0 /\ BLOCK_SIZE * 0 = 0
        BY <2>2, EmptySeq, BlockSizeAssumption
      <3> QED  BY <2>1, <3>1
    <2>3. CASE block_table[t] # << >>
      BY <2>1, <2>3
    <2> QED  BY <2>2, <2>3
  <1> QED  BY <1>1, <1>2, <1>3, <1>4, <1>5 DEF ContentInv

LEMMA NewRequestContent ==
    ASSUME IInv, ContentInv, NEW s \in SeqId, NEW p \in Prompts, NewRequest(s, p)
    PROVE  ContentInv' /\ SealedStays
  <1>1. /\ block_table[s] = << >>
        /\ token_ids' = [token_ids EXCEPT ![s] = p]
        /\ UNCHANGED << blocks, hash_to_block_id, block_table, num_cached_tokens,
                        call, pending >>
    BY DEF NewRequest
  <1>2. p \in Seq(Token)
    BY PromptsAssumption
  <1>3. \A t \in SeqId : /\ Len(token_ids'[t]) \in Nat
                         /\ Len(token_ids[t]) \in Nat
                         /\ t # s => token_ids'[t] = token_ids[t]
    BY <1>1, <1>2, LenProperties DEF IInv, TypeOK, BMTypeOK
  <1>4. call = NoCall /\ call.op = "none"
    BY DEF NewRequest, NoCall
  <1>5. \A t \in SeqId : t # s =>
            /\ Covered(t)' = Covered(t)
            /\ Live(t) /\ Live(t)'
            /\ Settled(t)' => Settled(t)
    BY <1>1, <1>3, <1>4 DEF Covered, Live, Settled
  <1> QED  BY <1>1, <1>3, <1>5, QuietContent

LEMMA AllocateContent ==
    ASSUME IInv, ContentInv, NEW s \in SeqId, Allocate(s)
    PROVE  ContentInv' /\ SealedStays
  <1>1. /\ call = NoCall /\ block_table[s] = << >>
        /\ call' = [NoCall EXCEPT !.op = "allocate", !.seq = s]
        /\ UNCHANGED << blocks, hash_to_block_id, token_ids, block_table,
                        num_cached_tokens, pending >>
    BY DEF Allocate, BeginAllocate
  <1>2. /\ call.op = "none" /\ call.seq = NoSeq /\ call'.op = "allocate"
    BY <1>1 DEF NoCall
  <1>3. \A t \in SeqId :
            /\ Covered(t)' = Covered(t) /\ Live(t) /\ Live(t)'
            /\ Settled(t)' => Settled(t)
            /\ Len(token_ids[t]) \in Nat
    BY <1>1, <1>2, SeqIdAssumption, SequenceTypes DEF Covered, Live, Settled
  <1> QED  BY <1>1, <1>3, QuietContent

LEMMA append_tokenContent ==
    ASSUME IInv, ContentInv, NEW s \in SeqId, NEW x \in Sampled, append_token(s, x)
    PROVE  ContentInv' /\ SealedStays
  <1>1. /\ call = NoCall /\ ~pending[s]
        /\ token_ids' = [token_ids EXCEPT ![s] = Append(@, x)]
        /\ pending' = [pending EXCEPT ![s] = TRUE]
        /\ UNCHANGED << blocks, hash_to_block_id, block_table, num_cached_tokens,
                        call >>
    BY DEF append_token
  <1>2. call.op = "none"
    BY <1>1 DEF NoCall
  <1>3. /\ x \in Token /\ token_ids[s] \in Seq(Token)
        /\ Len(Append(token_ids[s], x)) = Len(token_ids[s]) + 1
        /\ Len(token_ids[s]) \in Nat
    BY SampledAssumption, SequenceTypes, AppendProperties
  <1>4. /\ token_ids'[s] = Append(token_ids[s], x) /\ pending'[s] = TRUE
        /\ \A t \in SeqId : t # s => /\ token_ids'[t] = token_ids[t]
                                     /\ pending'[t] = pending[t]
    BY <1>1 DEF IInv, TypeOK, BMTypeOK
  <1>5. Covered(s) = Len(token_ids[s]) /\ Covered(s)' = Covered(s)
    <2>1. Covered(s)' = Len(token_ids'[s]) - 1
      BY <1>4 DEF Covered
    <2>2. Len(token_ids'[s]) = Len(token_ids[s]) + 1
      BY <1>3, <1>4
    <2> QED  BY <1>1, <1>3, <2>1, <2>2, SequenceTypes
  <1>6. \A i \in DOMAIN block_table[s] : i * BLOCK_SIZE <= Covered(s) =>
            block(token_ids'[s], i - 1) = block(token_ids[s], i - 1)
    <2> SUFFICES ASSUME NEW i \in DOMAIN block_table[s], i * BLOCK_SIZE <= Covered(s)
                 PROVE  block(Append(token_ids[s], x), i - 1) =
                            block(token_ids[s], i - 1)
      BY <1>4
    <2>1. i - 1 \in Nat /\ (i - 1) + 1 = i
      BY SequenceTypes
    <2> QED  BY <1>3, <1>5, <2>1, BlockAppend
  <1>7. \A t \in SeqId :
            /\ Covered(t)' = Covered(t) /\ Live(t) /\ Live(t)'
            /\ Settled(t)' => Settled(t)
            /\ Len(token_ids[t]) \in Nat /\ Len(token_ids'[t]) \in Nat
            /\ Len(token_ids[t]) <= Len(token_ids'[t])
            /\ \A i \in DOMAIN block_table[t] : i * BLOCK_SIZE <= Covered(t) =>
                   block(token_ids'[t], i - 1) = block(token_ids[t], i - 1)
    <2> SUFFICES ASSUME NEW t \in SeqId
                 PROVE  /\ Covered(t)' = Covered(t) /\ Live(t) /\ Live(t)'
                        /\ Settled(t)' => Settled(t)
                        /\ Len(token_ids[t]) \in Nat /\ Len(token_ids'[t]) \in Nat
                        /\ Len(token_ids[t]) <= Len(token_ids'[t])
                        /\ \A i \in DOMAIN block_table[t] :
                              i * BLOCK_SIZE <= Covered(t) =>
                                  block(token_ids'[t], i - 1) =
                                      block(token_ids[t], i - 1)
      OBVIOUS
    <2>1. Live(t) /\ Live(t)' /\ (Settled(t)' => Settled(t))
      BY <1>1, <1>2 DEF Live, Settled
    <2>2. CASE t = s
      <3>1. Len(token_ids'[s]) = Len(token_ids[s]) + 1
        BY <1>3, <1>4
      <3>2. /\ Len(token_ids[s]) \in Nat /\ Len(token_ids'[s]) \in Nat
            /\ Len(token_ids[s]) <= Len(token_ids'[s])
        BY <1>3, <3>1
      <3> QED  BY <1>5, <1>6, <2>1, <2>2, <3>2
    <2>3. CASE t # s
      <3>1. Covered(t)' = Covered(t) /\ Len(token_ids[t]) \in Nat
        BY <1>4, <2>3, SequenceTypes DEF Covered
      <3> QED  BY <1>4, <2>1, <2>3, <3>1
    <2> QED  BY <2>2, <2>3
  <1> QED  BY <1>1, <1>7, QuietContent

LEMMA ReleaseContent ==
    ASSUME IInv, ContentInv, NEW s \in SeqId, Release(s)
    PROVE  ContentInv' /\ SealedStays
  <1>1. /\ call = NoCall
        /\ call' = [NoCall EXCEPT !.op = "deallocate", !.seq = s,
                                  !.it = Len(block_table[s])]
        /\ pending' = [pending EXCEPT ![s] = FALSE]
        /\ UNCHANGED << blocks, hash_to_block_id, token_ids, block_table,
                        num_cached_tokens >>
    BY DEF Release, BeginDeallocate
  <1>2. /\ call.op = "none" /\ call.seq = NoSeq
        /\ call'.op = "deallocate" /\ call'.seq = s
    BY <1>1 DEF NoCall
  <1>3. \A t \in SeqId :
            /\ Live(t) /\ (Live(t)' <=> t # s)
            /\ t # s => Covered(t)' = Covered(t)
            /\ Settled(t)' => Settled(t) /\ t # s
            /\ Len(token_ids[t]) \in Nat
    BY <1>1, <1>2, SeqIdAssumption, SequenceTypes
       DEF Covered, Live, Settled, IInv, TypeOK
  <1> QED  BY <1>1, <1>3, QuietContent

-----------------------------------------------------------------------------
(* The contents are kept: may_append *)

\* What may_append finds: a settled table, of which all entries but the last
\* are full, and the last is full exactly when the token opens a new block.
LEMMA PendingTable ==
    ASSUME IInv, ContentInv, call = NoCall, NEW s \in SeqId, pending[s]
    PROVE  LET n == Len(block_table[s]) IN
           /\ n \in Nat /\ n > 0
           /\ Len(token_ids[s]) = Covered(s) + 1
           /\ (n - 1) * BLOCK_SIZE < Covered(s) /\ Covered(s) <= n * BLOCK_SIZE
           /\ rem(s) = 1 <=> Covered(s) = n * BLOCK_SIZE
           /\ rem(s) = 0 <=> Covered(s) + 1 = n * BLOCK_SIZE
           /\ \A i \in 1 .. n - 1 : i * BLOCK_SIZE <= Covered(s)
           /\ \A i \in 1 .. n : EntryOK(s, i)
  <1> DEFINE n == Len(block_table[s])
             c == Covered(s)
  <1>1. /\ n \in Nat /\ c \in Nat /\ Len(token_ids[s]) = c + 1
        /\ DOMAIN block_table[s] = 1 .. n
        /\ block_table[s] = << >> <=> n = 0
    BY SequenceTypes
  <1>2. block_table[s] # << >> /\ call.op = "none" /\ call.seq = NoSeq
    BY DEF IInv, ClientOK, NoCall
  <1>3. n > 0
    <2> HIDE DEF n
    <2> QED  BY <1>1, <1>2
  <1>4. (n - 1) * BLOCK_SIZE < c /\ c <= n * BLOCK_SIZE
    <2>1. Settled(s)
      BY <1>2, SeqIdAssumption DEF Settled
    <2> QED  BY <2>1 DEF ContentInv, TableSize
  <1>5. \A i \in 1 .. n : EntryOK(s, i)
    BY <1>1, <1>2 DEF ContentInv, EntriesOK, Live
  <1>6. rem(s) = (c + 1) % BLOCK_SIZE
    BY <1>1 DEF rem
  <1> HIDE DEF n, c
  <1>7. /\ rem(s) = 1 <=> c = n * BLOCK_SIZE
        /\ rem(s) = 0 <=> c + 1 = n * BLOCK_SIZE
    BY <1>1, <1>4, <1>6, NextRemainder
  <1>8. \A i \in 1 .. n - 1 : i * BLOCK_SIZE <= c
    <2> TAKE i \in 1 .. n - 1
    <2>1. i \in Int /\ n - 1 \in Int /\ i <= n - 1
      BY <1>1
    <2>2. /\ i * BLOCK_SIZE \in Int /\ (n - 1) * BLOCK_SIZE \in Int
          /\ i * BLOCK_SIZE <= (n - 1) * BLOCK_SIZE
      BY <2>1, BlockMultiples
    <2> QED  BY <1>1, <1>4, <2>2
  <1> QED  BY <1>1, <1>3, <1>4, <1>5, <1>7, <1>8 DEF n, c

\* The parts of the contents that the three cases of may_append share.
LEMMA MayAppendRest ==
    ASSUME IInv, ContentInv, NEW s \in SeqId, call = NoCall, UNCHANGED << token_ids,
               num_cached_tokens, call >>,
           pending[s], pending' = [pending EXCEPT ![s] = FALSE],
           \A t \in SeqId : t # s => block_table'[t] = block_table[t],
           Len(block_table'[s]) \in Nat,
           Len(block_table[s]) <= Len(block_table'[s])
    PROVE  /\ \A t \in SeqId : /\ Live(t) /\ Live(t)'
                               /\ t # s => /\ Covered(t)' = Covered(t)
                                           /\ Settled(t)' => Settled(t)
           /\ Covered(s)' = Covered(s) + 1
           /\ CachedWithinTable'
  <1>1. /\ call.op = "none" /\ call'.op = "none"
        /\ pending'[s] = FALSE
        /\ \A t \in SeqId : t # s => pending'[t] = pending[t]
    BY DEF NoCall, IInv, TypeOK
  <1>2. \A t \in SeqId : /\ Live(t) /\ Live(t)'
                         /\ t # s => /\ Covered(t)' = Covered(t)
                                     /\ Settled(t)' => Settled(t)
    BY <1>1 DEF Live, Covered, Settled
  <1>3. Covered(s)' = Covered(s) + 1
    <2>1. Covered(s)' = Len(token_ids[s]) - 0
      BY <1>1 DEF Covered
    <2> QED  BY <2>1, SequenceTypes
  <1>4. CachedWithinTable'
    <2> SUFFICES ASSUME NEW t \in SeqId
                 PROVE  num_cached_tokens[t] <= BLOCK_SIZE * Len(block_table'[t])
      BY DEF ContentInv, CachedWithinTable
    <2>1. num_cached_tokens[t] <= BLOCK_SIZE * Len(block_table[t])
      BY DEF ContentInv, CachedWithinTable
    <2>2. CASE t # s
      BY <2>1, <2>2
    <2>3. CASE t = s
      <3>1. PICK m \in Nat, n \in Nat :
                m = Len(block_table[s]) /\ n = Len(block_table'[s])
        BY SequenceTypes
      <3>2. /\ m * BLOCK_SIZE \in Int /\ n * BLOCK_SIZE \in Int
            /\ m * BLOCK_SIZE <= n * BLOCK_SIZE
            /\ BLOCK_SIZE * m = m * BLOCK_SIZE /\ BLOCK_SIZE * n = n * BLOCK_SIZE
        <4>1. m \in Int /\ n \in Int /\ m <= n
          BY <3>1
        <4> QED  BY <4>1, BlockMultiples
      <3>3. num_cached_tokens[s] \in Nat
        BY SequenceTypes
      <3> QED  BY <2>1, <2>3, <3>1, <3>2, <3>3
    <2> QED  BY <2>2, <2>3
  <1> QED  BY <1>2, <1>3, <1>4

\* The new block is free, so nobody's entry changes; it starts unsealed, with
\* one token.
LEMMA GrowTableContent ==
    ASSUME IInv, ContentInv, NEW s \in SeqId, MayAppend(s), GrowTable(s)
    PROVE  ContentInv' /\ SealedStays
  <1> DEFINE n == Len(block_table[s])
             c == Covered(s)
  <1>1. PICK b : b = Head(free_block_ids)
    OBVIOUS
  <1>2. /\ rem(s) = 1 /\ TakeFree(b) /\ call = NoCall
        /\ blocks' = [blocks EXCEPT ![b] = reset]
        /\ block_table' = [block_table EXCEPT ![s] = Append(@, b)]
        /\ pending[s] /\ pending' = [pending EXCEPT ![s] = FALSE]
        /\ UNCHANGED << hash_to_block_id, token_ids, num_cached_tokens, call >>
    BY <1>1 DEF GrowTable, MayAppend, may_append
  <1>3. b \in BlockId /\ blocks[b].ref_count = 0
    <2>1. free_block_ids \in Seq(BlockId) /\ Len(free_block_ids) \in Nat
      BY LenProperties DEF IInv, TypeOK, BMTypeOK
    <2>2. Len(free_block_ids) > 0
      BY <1>2, <2>1 DEF MayAppend, can_append
    <2>3. b \in ToSet(free_block_ids)
      BY <1>1, <2>1, <2>2, HeadFree
    <2> QED  BY <2>3 DEF IInv, FreeUsedPartition
  <1>4. /\ n \in Nat /\ c \in Nat /\ BLOCK_SIZE \in Nat /\ BLOCK_SIZE >= 2
        /\ c = n * BLOCK_SIZE
        /\ \A i \in 1 .. n : EntryOK(s, i)
        /\ DOMAIN block_table[s] = 1 .. n
    BY <1>2, PendingTable, SequenceTypes, BlockSizeAssumption
  <1>5. /\ Len(block_table'[s]) = n + 1
        /\ DOMAIN block_table'[s] = 1 .. n + 1
        /\ \A i \in 1 .. n : block_table'[s][i] = block_table[s][i]
        /\ block_table'[s][n + 1] = b
        /\ \A t \in SeqId : t # s => block_table'[t] = block_table[t]
    <2>1. block_table'[s] = Append(block_table[s], b)
      BY <1>2 DEF IInv, TypeOK, BMTypeOK
    <2>2. block_table[s] \in Seq(BlockId)
      BY SequenceTypes
    <2>3. Append(block_table[s], b) \in Seq(BlockId)
      BY <1>3, <2>2, AppendProperties
    <2>4. \A t \in SeqId : t # s => block_table'[t] = block_table[t]
      BY <1>2 DEF IInv, TypeOK, BMTypeOK
    <2> QED  BY <1>3, <2>1, <2>2, <2>3, <2>4, AppendProperties, LenProperties
  <1> HIDE DEF n, c
  <1>6. /\ blocks'[b] = reset
        /\ \A d \in BlockId : d # b => blocks'[d] = blocks[d]
    BY <1>2, <1>3 DEF IInv, TypeOK, BMTypeOK
  <1>7. BlocksKept /\ SealedStays
    BY <1>3, <1>6 DEF BlocksKept, Kept, SealedStays
  <1>8. /\ \A t \in SeqId : /\ Live(t) /\ Live(t)'
                            /\ t # s => /\ Covered(t)' = Covered(t)
                                        /\ Settled(t)' => Settled(t)
        /\ Covered(s)' = c + 1
        /\ CachedWithinTable'
    <2>1. Len(block_table'[s]) \in Nat /\ n <= Len(block_table'[s])
      BY <1>4, <1>5
    <2> QED  BY <1>2, <1>5, <2>1, MayAppendRest DEF n, c
  <1>9. IndexHashed'
    BY <1>2 DEF ContentInv, IndexHashed
  <1>10. UnsealedPrivate'
    BY <1>6 DEF ContentInv, UnsealedPrivate, reset
  <1>11. /\ (n + 1) * BLOCK_SIZE = c + BLOCK_SIZE
         /\ n * BLOCK_SIZE = c
         /\ \A i \in 1 .. n : i * BLOCK_SIZE \in Int /\ i * BLOCK_SIZE <= c
    <2>1. (n + 1) * BLOCK_SIZE = c + BLOCK_SIZE /\ n * BLOCK_SIZE = c
      BY <1>4, BlockMultiples
    <2>2. ASSUME NEW i \in 1 .. n
          PROVE  i * BLOCK_SIZE \in Int /\ i * BLOCK_SIZE <= c
      BY <1>4, BlockMultiples
    <2> QED  BY <2>1, <2>2
  <1>12. EntriesOK'
    <2> SUFFICES ASSUME NEW t \in SeqId, NEW i \in DOMAIN block_table'[t]
                 PROVE  EntryOK(t, i)'
      BY DEF EntriesOK
    <2>1. CASE t # s
      <3>1. \A j \in DOMAIN block_table[t] : EntryOK(t, j)
        BY <1>8 DEF ContentInv, EntriesOK
      <3> QED  BY <1>2, <1>5, <1>7, <1>8, <2>1, <3>1, EntriesKept
    <2>2. CASE t = s /\ i \in 1 .. n
      <3>1. Kept(block_table[s][i])
        BY <1>4, <1>7, <1>8, <2>2, EntryReferenced DEF BlocksKept
      <3>2. i * BLOCK_SIZE <= Covered(s) /\ i * BLOCK_SIZE <= Covered(s)'
        <4>1. i * BLOCK_SIZE \in Int /\ i * BLOCK_SIZE <= c
          BY <1>11, <2>2
        <4>2. i * BLOCK_SIZE <= c + 1
          BY <1>4, <4>1
        <4> QED  BY <1>8, <4>1, <4>2 DEF c
      <3> QED  BY <1>2, <1>4, <1>5, <2>2, <3>1, <3>2, EntryKept
    <2>3. CASE t = s /\ i = n + 1
      <3>1. ~((n + 1) * BLOCK_SIZE <= c + 1)
        BY <1>4, <1>11
      <3> QED  BY <1>5, <1>6, <1>8, <2>3, <3>1 DEF EntryOK, reset
    <2>4. \A j \in 1 .. n + 1 : j \in 1 .. n \/ j = n + 1
      BY <1>4
    <2> QED  BY <1>5, <2>1, <2>2, <2>3, <2>4
  <1>13. TableSize'
    <2> SUFFICES ASSUME NEW t \in SeqId, Settled(t)'
                 PROVE  /\ (Len(block_table'[t]) - 1) * BLOCK_SIZE < Covered(t)'
                        /\ Covered(t)' <= Len(block_table'[t]) * BLOCK_SIZE
      BY DEF TableSize
    <2>1. CASE t # s
      BY <1>5, <1>8, <2>1 DEF ContentInv, TableSize
    <2>2. CASE t = s
      <3>1. (n + 1) - 1 = n
        BY <1>4
      <3>2. n * BLOCK_SIZE < c + 1 /\ c + 1 <= (n + 1) * BLOCK_SIZE
        BY <1>4, <1>11
      <3> QED  BY <1>5, <1>8, <2>2, <3>1, <3>2
    <2> QED  BY <2>1, <2>2
  <1> QED  BY <1>7, <1>8, <1>9, <1>10, <1>12, <1>13 DEF ContentInv

\* The block that is sealed has one holder, and the entries that are compared
\* with other blocks keep theirs.
LEMMA SealLastContent ==
    ASSUME IInv, ContentInv, NEW s \in SeqId, MayAppend(s), SealLast(s)
    PROVE  ContentInv' /\ SealedStays
  <1> DEFINE table == block_table[s]
             n == Len(table)
             c == Covered(s)
             tokens == block(token_ids[s], num_blocks(token_ids[s]) - 1)
             prefix == IF Len(table) > 1 THEN blocks[table[Len(table) - 1]].hash
                       ELSE kNoHash
             h == compute_hash(tokens, prefix)
  <1>1. PICK b : b = Last(table)
    OBVIOUS
  <1>2. /\ rem(s) = 0 /\ call = NoCall
        /\ blocks' = [blocks EXCEPT ![b] = update(@, h, tokens)]
        /\ hash_to_block_id' = Index(h, b)
        /\ pending[s] /\ pending' = [pending EXCEPT ![s] = FALSE]
        /\ UNCHANGED << token_ids, num_cached_tokens, call, block_table >>
    BY <1>1 DEF SealLast, MayAppend, may_append
  <1>3. /\ n \in Nat /\ n > 0 /\ c \in Nat /\ c + 1 = n * BLOCK_SIZE
        /\ (n - 1) * BLOCK_SIZE < c
        /\ Len(token_ids[s]) = c + 1
        /\ \A i \in 1 .. n : EntryOK(s, i)
        /\ \A i \in 1 .. n - 1 : i * BLOCK_SIZE <= c
        /\ DOMAIN block_table[s] = 1 .. n
        /\ block_table[s] \in Seq(BlockId)
    BY <1>2, PendingTable, SequenceTypes
  <1>4. n \in DOMAIN block_table[s] /\ b = block_table[s][n]
    <2>1. n \in 1 .. n
      BY <1>3
    <2> QED  BY <1>1, <1>3, <2>1 DEF Last
  <1>5. \A t \in SeqId : Live(t)
    BY <1>2 DEF Live, NoCall
  <1>6. b \in BlockId /\ << s, n >> \in Refs(b) /\ blocks[b].ref_count > 0
    BY <1>4, <1>5, EntryReferenced
  <1>7. blocks[b].hash = kNoHash /\ blocks[b].ref_count = 1
    <2>1. EntryOK(s, n) /\ ~(n * BLOCK_SIZE <= Covered(s))
      <3>1. n \in 1 .. n
        BY <1>3
      <3>2. ~(c + 1 <= c)
        BY <1>3
      <3> QED  BY <1>3, <3>1, <3>2
    <2>2. blocks[b].hash = kNoHash
      BY <1>4, <2>1 DEF EntryOK
    <2> QED  BY <1>6, <2>2 DEF ContentInv, UnsealedPrivate
  <1>8. tokens = block(token_ids[s], n - 1)
    <2>1. token_ids[s] \in Seq(Token)
      BY SequenceTypes
    <2>2. n = num_blocks(token_ids[s])
      <3>1. (n - 1) * BLOCK_SIZE < Len(token_ids[s])
        <4>1. (n - 1) * BLOCK_SIZE \in Int
          <5>1. n - 1 \in Int
            BY <1>3
          <5> QED  BY <5>1, BlockProduct
        <4> QED  BY <1>3, <4>1
      <3>2. Len(token_ids[s]) <= n * BLOCK_SIZE
        BY <1>3
      <3> HIDE DEF n
      <3> QED  BY <1>3, <2>1, <3>1, <3>2, NumBlocksCeil
    <2> QED  BY <2>2
  <1> HIDE DEF n, c, tokens, prefix
  <1>9. h # kNoHash
    <2>1. /\ tokens \in Seq(Token)
          /\ prefix \in Hash
      <3>1. n - 1 \in Nat /\ token_ids[s] \in Seq(Token)
        BY <1>3, SequenceTypes
      <3>2. CASE Len(table) > 1
        <4>1. Len(table) - 1 \in 1 .. Len(table)
          BY <1>3, <3>2 DEF n
        <4>2. table[Len(table) - 1] \in BlockId
          BY <1>3, <4>1, ElementOfSeq
        <4>3. blocks[table[Len(table) - 1]] \in Block
          BY <4>2 DEF IInv, TypeOK, BMTypeOK
        <4> QED  BY <1>8, <3>1, <3>2, <4>3, BlockType DEF prefix, Block
      <3>3. CASE ~(Len(table) > 1)
        BY <1>8, <3>1, <3>3, BlockType, EmptySeq DEF prefix, kNoHash, Hash
      <3> QED  BY <3>2, <3>3
    <2>2. Append(prefix, tokens) # << >>
      BY <2>1, AppendProperties DEF Hash
    <2> QED  BY <2>2 DEF compute_hash, kNoHash
  <1> HIDE DEF h
  <1>10. /\ blocks'[b].hash = h /\ blocks'[b].token_ids = tokens
         /\ \A d \in BlockId : d # b => blocks'[d] = blocks[d]
    <2>1. blocks \in [BlockId -> Block]
      BY DEF IInv, TypeOK, BMTypeOK
    <2>2. blocks'[b] = update(blocks[b], h, tokens)
      BY <1>2, <1>6, <2>1
    <2>3. \A d \in BlockId : d # b => blocks'[d] = blocks[d]
      BY <1>2, <2>1
    <2> QED  BY <1>6, <2>1, <2>2, <2>3 DEF update, Block
  <1>11. /\ \A t \in SeqId : Live(t)'
         /\ \A t \in SeqId : t # s => /\ Covered(t)' = Covered(t)
                                      /\ Settled(t)' => Settled(t)
         /\ Covered(s)' = c + 1
         /\ CachedWithinTable'
    <2>1. n <= n
      BY <1>3
    <2> QED  BY <1>2, <1>3, <2>1, MayAppendRest DEF n, c
  <1>12. IndexHashed'
    BY <1>2, <1>9 DEF ContentInv, IndexHashed, Index
  <1>13. UnsealedPrivate'
    BY <1>9, <1>10 DEF ContentInv, UnsealedPrivate
  <1>14. SealedStays
    BY <1>7, <1>10 DEF SealedStays
  <1>15. EntriesOK'
    <2> SUFFICES ASSUME NEW t \in SeqId, NEW i \in DOMAIN block_table[t]
                 PROVE  EntryOK(t, i)'
      BY <1>2 DEF EntriesOK
    <2>1. EntryOK(t, i)
      BY <1>5 DEF ContentInv, EntriesOK
    <2>2. CASE t = s /\ i = n
      <3>1. n * BLOCK_SIZE <= c + 1
        BY <1>3
      <3> QED  BY <1>2, <1>4, <1>8, <1>9, <1>10, <1>11, <2>2, <3>1 DEF EntryOK
    <2>3. CASE ~(t = s /\ i = n)
      <3>1. /\ block_table[t][i] \in BlockId
            /\ << t, i >> \in Refs(block_table[t][i])
        BY <1>5, EntryReferenced
      <3>2. block_table[t][i] # b
        <4>1. ASSUME block_table[t][i] = b
              PROVE  << t, i >> = << s, n >>
          BY <1>6, <1>7, <3>1, <4>1, OnlyReference
        <4> QED  BY <2>3, <4>1
      <3>3. Kept(block_table[t][i])
        BY <1>10, <3>1, <3>2 DEF Kept
      <3>4. i * BLOCK_SIZE <= Covered(t)' <=> i * BLOCK_SIZE <= Covered(t)
        <4>1. CASE t # s
          BY <1>11, <4>1
        <4>2. CASE t = s
          <5>1. i \in 1 .. n - 1
            BY <1>3, <2>3, <4>2
          <5>2. i * BLOCK_SIZE <= c
            BY <1>3, <5>1
          <5>i. i * BLOCK_SIZE \in Int
            BY <5>1, BlockProduct
          <5>3. i * BLOCK_SIZE <= c + 1
            BY <1>3, <5>2, <5>i
          <5> QED  BY <1>11, <4>2, <5>2, <5>3 DEF c
        <4> QED  BY <4>1, <4>2
      <3> QED  BY <1>2, <2>1, <3>3, <3>4, EntryKept
    <2> QED  BY <2>2, <2>3
  <1>16. TableSize'
    <2> SUFFICES ASSUME NEW t \in SeqId, Settled(t)'
                 PROVE  /\ (Len(block_table[t]) - 1) * BLOCK_SIZE < Covered(t)'
                        /\ Covered(t)' <= Len(block_table[t]) * BLOCK_SIZE
      BY <1>2 DEF TableSize
    <2>1. CASE t # s
      BY <1>11, <2>1 DEF ContentInv, TableSize
    <2>2. CASE t = s
      <3>1. (n - 1) * BLOCK_SIZE \in Int
        BY <1>3, BlockMultiples
      <3>2. (n - 1) * BLOCK_SIZE < c + 1 /\ c + 1 <= n * BLOCK_SIZE
        BY <1>3, <3>1
      <3> QED  BY <1>11, <2>2, <3>2 DEF n
    <2> QED  BY <2>1, <2>2
  <1> QED  BY <1>11, <1>12, <1>13, <1>14, <1>15, <1>16 DEF ContentInv

\* A token inside the last block leaves the manager alone.
LEMMA KeepFillingContent ==
    ASSUME IInv, ContentInv, NEW s \in SeqId, MayAppend(s), KeepFilling(s)
    PROVE  ContentInv' /\ SealedStays
  <1> DEFINE n == Len(block_table[s])
             c == Covered(s)
  <1>1. /\ rem(s) \notin {0, 1} /\ call = NoCall
        /\ pending[s] /\ pending' = [pending EXCEPT ![s] = FALSE]
        /\ UNCHANGED << blocks, hash_to_block_id, token_ids, num_cached_tokens,
                        call, block_table >>
    BY DEF KeepFilling, MayAppend, may_append
  <1>2. /\ n \in Nat /\ c \in Nat
        /\ (n - 1) * BLOCK_SIZE < c /\ c <= n * BLOCK_SIZE
        /\ c # n * BLOCK_SIZE /\ c + 1 # n * BLOCK_SIZE
        /\ \A i \in 1 .. n - 1 : i * BLOCK_SIZE <= c
        /\ DOMAIN block_table[s] = 1 .. n
    BY <1>1, PendingTable, SequenceTypes
  <1> HIDE DEF n, c
  <1>3. /\ n * BLOCK_SIZE \in Int /\ (n - 1) * BLOCK_SIZE \in Int
        /\ (n - 1) * BLOCK_SIZE < c + 1 /\ c + 1 <= n * BLOCK_SIZE
        /\ ~(n * BLOCK_SIZE <= c) /\ ~(n * BLOCK_SIZE <= c + 1)
    <2>1. n * BLOCK_SIZE \in Int /\ (n - 1) * BLOCK_SIZE \in Int
      BY <1>2, BlockMultiples
    <2> QED  BY <1>2, <2>1
  <1>4. /\ \A t \in SeqId : /\ Live(t) /\ Live(t)'
                            /\ t # s => /\ Covered(t)' = Covered(t)
                                        /\ Settled(t)' => Settled(t)
        /\ Covered(s)' = c + 1
        /\ CachedWithinTable'
    <2>1. n <= n
      BY <1>2
    <2> QED  BY <1>1, <1>2, <2>1, MayAppendRest DEF n, c
  <1>5. \A b \in BlockId : Kept(b)
    BY <1>1 DEF Kept
  <1>6. EntriesOK'
    <2> SUFFICES ASSUME NEW t \in SeqId, NEW i \in DOMAIN block_table[t]
                 PROVE  EntryOK(t, i)'
      BY <1>1 DEF EntriesOK
    <2>1. EntryOK(t, i)
      BY <1>4 DEF ContentInv, EntriesOK
    <2>2. i * BLOCK_SIZE <= Covered(t)' <=> i * BLOCK_SIZE <= Covered(t)
      <3>1. CASE t # s
        BY <1>4, <3>1
      <3>2. CASE t = s /\ i = n
        BY <1>3, <1>4, <3>2 DEF c
      <3>3. CASE t = s /\ i # n
        <4>1. i \in 1 .. n - 1
          BY <1>2, <3>3
        <4>2. i * BLOCK_SIZE <= c /\ i * BLOCK_SIZE \in Int
          <5>1. i \in Int
            BY <4>1
          <5>2. i * BLOCK_SIZE \in Int
            BY <5>1, BlockProduct
          <5> QED  BY <1>2, <4>1, <5>2
        <4>3. i * BLOCK_SIZE <= c + 1
          BY <1>2, <4>2
        <4> QED  BY <1>4, <3>3, <4>2, <4>3 DEF c
      <3> QED  BY <3>1, <3>2, <3>3
    <2>3. Kept(block_table[t][i])
      BY <1>1 DEF Kept
    <2> QED  BY <1>1, <2>1, <2>2, <2>3, EntryKept
  <1>7. TableSize'
    <2> SUFFICES ASSUME NEW t \in SeqId, Settled(t)'
                 PROVE  /\ (Len(block_table[t]) - 1) * BLOCK_SIZE < Covered(t)'
                        /\ Covered(t)' <= Len(block_table[t]) * BLOCK_SIZE
      BY <1>1 DEF TableSize
    <2>1. CASE t # s
      BY <1>4, <2>1 DEF ContentInv, TableSize
    <2>2. CASE t = s
      BY <1>3, <1>4, <2>2 DEF n
    <2> QED  BY <2>1, <2>2
  <1>8. IndexHashed' /\ UnsealedPrivate' /\ SealedStays
    BY <1>1 DEF ContentInv, IndexHashed, UnsealedPrivate, SealedStays
  <1> QED  BY <1>4, <1>6, <1>7, <1>8 DEF ContentInv

-----------------------------------------------------------------------------
(* The contents are right from the start, and kept by every step *)

LEMMA InitContent ==
    ASSUME Init
    PROVE  ContentInv
  <1> USE DEF Init, BMInit
  <1>1. IndexHashed
    BY DEF IndexHashed
  <1>2. UnsealedPrivate
    BY DEF UnsealedPrivate
  <1>3. EntriesOK /\ TableSize
    BY DEF EntriesOK, TableSize, Settled
  <1>4. CachedWithinTable
    <2>1. /\ 0 % BLOCK_SIZE = 0 /\ 0 <= BLOCK_SIZE * 0
          /\ Len(<< >>) = 0
      BY BlockSizeAssumption, EmptySeq
    <2> QED  BY <2>1 DEF CachedWithinTable
  <1> QED  BY <1>1, <1>2, <1>3, <1>4 DEF ContentInv

LEMMA NextContent ==
    ASSUME IInv, ContentInv, [Next]_vars
    PROVE  ContentInv' /\ SealedStays
  <1>1. ASSUME NEW s \in SeqId, NEW p \in Prompts, NewRequest(s, p)
        PROVE  ContentInv' /\ SealedStays
    BY <1>1, NewRequestContent
  <1>2. ASSUME NEW s \in SeqId, Allocate(s)
        PROVE  ContentInv' /\ SealedStays
    BY <1>2, AllocateContent
  <1>3. ASSUME NEW s \in SeqId, NEW t \in Sampled, append_token(s, t)
        PROVE  ContentInv' /\ SealedStays
    BY <1>3, append_tokenContent
  <1>4. ASSUME NEW s \in SeqId, MayAppend(s)
        PROVE  ContentInv' /\ SealedStays
    <2>1. GrowTable(s) \/ SealLast(s) \/ KeepFilling(s)
      BY <1>4 DEF MayAppend, may_append
    <2> QED  BY <1>4, <2>1, GrowTableContent, SealLastContent, KeepFillingContent
  <1>5. ASSUME NEW s \in SeqId, Release(s)
        PROVE  ContentInv' /\ SealedStays
    BY <1>5, ReleaseContent
  <1>6. CASE BMStep /\ UNCHANGED pending
    BY <1>6, HitUsedContent, HitFreeContent, MissContent, DeallocateContent
       DEF BMStep
  <1>7. CASE UNCHANGED vars
    <2>1. UNCHANGED << blocks, hash_to_block_id, token_ids, block_table,
                       num_cached_tokens, call, pending >>
      BY <1>7 DEF vars, bmVars
    <2>2. \A t \in SeqId :
              /\ Live(t)' <=> Live(t)
              /\ Covered(t)' = Covered(t)
              /\ Settled(t)' => Settled(t) /\ (call.seq # t)
              /\ Len(token_ids[t]) \in Nat
      BY <2>1, SequenceTypes DEF Live, Covered, Settled
    <2>3. \A t \in SeqId : Settled(t)' => Live(t)'
      BY <2>1 DEF Live, Settled
    <2> QED  BY <2>1, <2>2, <2>3, QuietContent
  <1> QED  BY <1>1, <1>2, <1>3, <1>4, <1>5, <1>6, <1>7 DEF Next

-----------------------------------------------------------------------------
(* The theorems *)

\* The contents of tables, blocks and index are right in every reachable
\* state (allocate, deallocate and may_append under any sharing and reuse).
THEOREM ContentHolds == Spec => []ContentInv
  <1>1. Init => ContentInv
    BY InitContent
  <1>2. IInv /\ ContentInv /\ [Next]_vars => ContentInv'
    BY NextContent
  <1> QED  BY <1>1, <1>2, InvariantHolds, PTL DEF Spec

\* A settled table has one entry per logical block of the tokens the manager
\* was told of: prepare_prefill and prepare_decode find the size they expect.
THEOREM TablesCover == Spec => []TableCovers
  <1>1. IInv /\ ContentInv => TableCovers
    <2> SUFFICES ASSUME IInv, ContentInv, NEW s \in SeqId, Settled(s)
                 PROVE  Len(block_table[s]) =
                            num_blocks(SubSeq(token_ids[s], 1, Covered(s)))
      BY DEF TableCovers
    <2> DEFINE t == SubSeq(token_ids[s], 1, Covered(s))
    <2>1. /\ Covered(s) \in Nat /\ Covered(s) <= Len(token_ids[s])
          /\ Len(block_table[s]) \in Int
          /\ token_ids[s] \in Seq(Token)
      BY SequenceTypes
    <2>2. \A i \in 1 .. Covered(s) : token_ids[s][i] \in Token
      BY <2>1, SequenceTypes, ElementOfSeq
    <2>3. t \in Seq(Token) /\ Len(t) = IF 1 <= Covered(s) THEN Covered(s) - 1 + 1 ELSE 0
      BY <2>1, <2>2, SubSeqProperties
    <2>4. Len(t) = Covered(s)
      BY <2>1, <2>3
    <2>5. /\ (Len(block_table[s]) - 1) * BLOCK_SIZE < Len(t)
          /\ Len(t) <= Len(block_table[s]) * BLOCK_SIZE
      BY <2>4 DEF ContentInv, TableSize
    <2> HIDE DEF t
    <2>6. Len(block_table[s]) = num_blocks(t)
      BY <2>1, <2>3, <2>5, NumBlocksCeil
    <2> QED  BY <2>6 DEF t
  <1> QED  BY <1>1, InvariantHolds, ContentHolds, PTL

\* A full block of a settled table is sealed with exactly its sequence's
\* tokens and a partial one with none, whoever computed or shares it.
THEOREM SealedExact == Spec => []SealedMatchesTokens
  <1>1. IInv /\ ContentInv => SealedMatchesTokens
    <2> SUFFICES ASSUME IInv, ContentInv, NEW s \in SeqId, Settled(s),
                        NEW i \in DOMAIN block_table[s]
                 PROVE  LET blk == blocks[block_table[s][i]] IN
                        IF i * BLOCK_SIZE <= Covered(s)
                        THEN /\ blk.hash # kNoHash
                             /\ blk.token_ids = block(token_ids[s], i - 1)
                        ELSE blk.hash = kNoHash /\ blk.token_ids = << >>
      BY DEF SealedMatchesTokens
    <2>1. Live(s)
      BY DEF Live, Settled
    <2>2. EntryOK(s, i)
      BY <2>1 DEF ContentInv, EntriesOK
    <2>3. /\ block_table[s][i] \in BlockId
          /\ blocks[block_table[s][i]].ref_count > 0
      BY <2>1, EntryReferenced
    <2> QED  BY <2>2, <2>3 DEF EntryOK, ContentInv, UnsealedPrivate
  <1> QED  BY <1>1, InvariantHolds, ContentHolds, PTL

\* The block a sequence will write its next token's KV to has no other
\* holder.
THEOREM PartialPrivate == Spec => []PartialBlockPrivate
  <1>1. IInv /\ ContentInv => PartialBlockPrivate
    <2> SUFFICES ASSUME IInv, ContentInv, NEW s \in SeqId, Settled(s),
                        Covered(s) % BLOCK_SIZE # 0
                 PROVE  blocks[Last(block_table[s])].ref_count = 1
      BY DEF PartialBlockPrivate
    <2> DEFINE n == Len(block_table[s])
    <2>1. /\ n \in Nat /\ Covered(s) \in Nat /\ DOMAIN block_table[s] = 1 .. n
          /\ n # 0
      BY SequenceTypes DEF Settled
    <2>2. Covered(s) <= n * BLOCK_SIZE /\ n * BLOCK_SIZE \in Int
      <3>1. Covered(s) <= n * BLOCK_SIZE
        BY DEF ContentInv, TableSize
      <3> HIDE DEF n
      <3>2. n * BLOCK_SIZE \in Int
        BY <2>1, BlockProduct
      <3> QED  BY <3>1, <3>2
    <2>3. Covered(s) # n * BLOCK_SIZE
      <3>1. n \in Int /\ 0 \in 0 .. BLOCK_SIZE - 1 /\ n * BLOCK_SIZE = n * BLOCK_SIZE + 0
        BY <2>1, <2>2, BlockSizeAssumption
      <3>2. (n * BLOCK_SIZE) % BLOCK_SIZE = 0
        BY <2>2, <3>1, BlockQuotient
      <3> QED  BY <3>2
    <2>4. ~(n * BLOCK_SIZE <= Covered(s))
      BY <2>1, <2>2, <2>3
    <2>5. n \in DOMAIN block_table[s] /\ Live(s)
      BY <2>1 DEF Live, Settled
    <2>6. EntryOK(s, n)
      BY <2>5 DEF ContentInv, EntriesOK
    <2>7. /\ block_table[s][n] \in BlockId
          /\ blocks[block_table[s][n]].ref_count > 0
      BY <2>5, EntryReferenced
    <2>8. blocks[block_table[s][n]].ref_count = 1
      BY <2>4, <2>6, <2>7 DEF EntryOK, ContentInv, UnsealedPrivate
    <2> QED  BY <2>8 DEF Last
  <1> QED  BY <1>1, InvariantHolds, ContentHolds, PTL

\* The asserts of may_append, which the Release build drops, never fail.
THEOREM MayAppendAssertsHold == Spec => []MayAppendAsserts
  <1>1. IInv /\ ContentInv => MayAppendAsserts
    <2> SUFFICES ASSUME IInv, ContentInv, NEW s \in SeqId, pending[s], call = NoCall
                 PROVE  blocks[Last(block_table[s])].hash # kNoHash <=> rem(s) = 1
      BY DEF MayAppendAsserts
    <2> DEFINE n == Len(block_table[s])
    <2>1. /\ n \in Nat /\ n > 0
          /\ Covered(s) <= n * BLOCK_SIZE
          /\ rem(s) = 1 <=> Covered(s) = n * BLOCK_SIZE
          /\ \A i \in 1 .. n : EntryOK(s, i)
      BY PendingTable
    <2>2. /\ Covered(s) \in Nat /\ n * BLOCK_SIZE \in Int /\ n \in 1 .. n
      <3> HIDE DEF n
      <3> QED  BY <2>1, SequenceTypes, BlockProduct
    <2>3. EntryOK(s, n)
      BY <2>1, <2>2
    <2>4. blocks[block_table[s][n]].hash # kNoHash <=> n * BLOCK_SIZE <= Covered(s)
      BY <2>3 DEF EntryOK
    <2>5. n * BLOCK_SIZE <= Covered(s) <=> Covered(s) = n * BLOCK_SIZE
      <3> HIDE DEF n
      <3> QED  BY <2>1, <2>2
    <2> QED  BY <2>1, <2>4, <2>5 DEF Last
  <1> QED  BY <1>1, InvariantHolds, ContentHolds, PTL

\* Cached tokens are whole blocks at the front of the table, within it and
\* within the tokens.
THEOREM CachedWithin == Spec => []CachedWithinTable
  <1>1. ContentInv => CachedWithinTable
    BY DEF ContentInv
  <1> QED  BY <1>1, ContentHolds, PTL

\* No step rewrites a sealed block under a sequence that refers to it.
THEOREM SharedFrozen == Spec => SharedBlockFrozen
  <1>1. IInv /\ ContentInv /\ [Next]_vars => [SealedStays]_vars
    BY NextContent
  <1>2. Spec => [][SealedStays]_vars
    BY <1>1, InvariantHolds, ContentHolds, PTL DEF Spec
  <1> QED  BY <1>2 DEF SharedBlockFrozen, SealedStays

-----------------------------------------------------------------------------
(* Chains: what a shared block says of the tokens before it *)

\* Entry i of the table of s is sealed under the chain of all the blocks of s
\* up to its own.
ChainOK(s, i) ==
    i * BLOCK_SIZE <= Covered(s) =>
        blocks[block_table[s][i]].hash = Chain(token_ids[s], i)

ChainsOK ==
    \A s \in SeqId : Live(s) => \A i \in DOMAIN block_table[s] : ChainOK(s, i)

\* The locals of a running allocate: the chain so far, and every block before
\* the first miss counted as cached.
LoopOK ==
    call.op = "allocate" =>
        /\ call.h = Chain(token_ids[call.seq], LoopIndex)
        /\ ~call.cache_miss =>
               num_cached_tokens[call.seq] = LoopIndex * BLOCK_SIZE

ChainInv == ChainsOK /\ LoopOK

\* A step leaves the hashes of the blocks in use.
HashesKept ==
    \A b \in BlockId : blocks[b].ref_count > 0 => blocks'[b].hash = blocks[b].hash

\* The chains of a table depend on its covered tokens only.
LEMMA ChainsKept ==
    ASSUME IInv, NEW s \in SeqId, Live(s), HashesKept,
           \A i \in DOMAIN block_table[s] : ChainOK(s, i),
           Covered(s)' = Covered(s),
           \A i \in DOMAIN block_table[s] :
               /\ block_table'[s][i] = block_table[s][i]
               /\ i * BLOCK_SIZE <= Covered(s) =>
                      block(token_ids'[s], i - 1) = block(token_ids[s], i - 1)
    PROVE  \A i \in DOMAIN block_table[s] : ChainOK(s, i)'
  <1> SUFFICES ASSUME NEW i \in DOMAIN block_table[s],
                      i * BLOCK_SIZE <= Covered(s)
               PROVE  blocks'[block_table[s][i]].hash = Chain(token_ids'[s], i)
    BY DEF ChainOK
  <1>1. blocks'[block_table[s][i]].hash = Chain(token_ids[s], i)
    BY EntryReferenced DEF HashesKept, ChainOK
  <1>2. \A j \in 1 .. i : block(token_ids'[s], j - 1) = block(token_ids[s], j - 1)
    <2> TAKE j \in 1 .. i
    <2>1. j \in DOMAIN block_table[s] /\ j \in Int /\ i \in Int /\ j <= i
      BY SequenceTypes
    <2>2. /\ j * BLOCK_SIZE \in Int /\ i * BLOCK_SIZE \in Int
          /\ j * BLOCK_SIZE <= i * BLOCK_SIZE
      BY <2>1, BlockMultiples
    <2>3. j * BLOCK_SIZE <= Covered(s)
      BY <2>2, SequenceTypes
    <2> QED  BY <2>1, <2>3
  <1>3. Chain(token_ids'[s], i) = Chain(token_ids[s], i)
    BY <1>2 DEF Chain
  <1> QED  BY <1>1, <1>3

\* A step that leaves the tables alone, and the tokens they cover.
LEMMA QuietChains ==
    ASSUME IInv, ChainInv,
           UNCHANGED << blocks, block_table >>,
           \A t \in SeqId : block_table[t] # << >> /\ Live(t)' =>
               /\ Live(t) /\ Covered(t)' = Covered(t)
               /\ \A i \in DOMAIN block_table[t] : i * BLOCK_SIZE <= Covered(t) =>
                      block(token_ids'[t], i - 1) = block(token_ids[t], i - 1),
           LoopOK'
    PROVE  ChainInv'
  <1>1. HashesKept
    BY DEF HashesKept
  <1>2. ChainsOK'
    <2> SUFFICES ASSUME NEW t \in SeqId, Live(t)', NEW i \in DOMAIN block_table[t]
                 PROVE  ChainOK(t, i)'
      BY DEF ChainsOK
    <2>1. block_table[t] # << >>
      BY EmptySeq
    <2>2. Live(t) /\ Covered(t)' = Covered(t)
      BY <2>1
    <2>3. \A j \in DOMAIN block_table[t] : ChainOK(t, j)
      BY <2>2 DEF ChainInv, ChainsOK
    <2> QED  BY <1>1, <2>1, <2>2, <2>3, ChainsKept
  <1> QED  BY <1>2 DEF ChainInv

\* What an iteration of allocate makes of the chains, if the block it takes is
\* a free one or one that the chain at hand is sealed in.
LEMMA IterationChains ==
    ASSUME IInv, ContentInv, ChainInv, call.op = "allocate", UNCHANGED pending,
           NEW b \in BlockId, NEW blk \in Block, NEW miss \in BOOLEAN,
           EndIteration(b, blk, miss),
           \/ blk = reset /\ blocks[b].ref_count = 0
           \/ LoopHash # kNoHash /\ blocks[b].hash = LoopHash,
           ~miss => /\ ~call.cache_miss /\ LoopHash # kNoHash
                    /\ num_cached_tokens' =
                           [num_cached_tokens EXCEPT ![call.seq] = @ + BLOCK_SIZE]
    PROVE  ChainInv'
  <1>1. PICK s, n : s = call.seq /\ n = LoopIndex
    OBVIOUS
  <1>2. /\ s \in SeqId /\ n \in Nat /\ n = Len(block_table[s])
        /\ n < num_blocks(token_ids[s])
        /\ num_blocks(token_ids[s]) \in Nat
        /\ UNCHANGED token_ids
        /\ token_ids[s] \in Seq(Token)
        /\ LoopTokens = block(token_ids[s], n)
        /\ \/ /\ n + 1 < num_blocks(token_ids[s])
              /\ call' = [call EXCEPT !.h = LoopHash, !.cache_miss = miss]
           \/ ~(n + 1 < num_blocks(token_ids[s])) /\ call' = NoCall
    BY <1>1, LoopTypes, SequenceTypes DEF EndIteration, LoopIndex, LoopTokens
  <1>3. /\ \A t \in SeqId : Live(t) /\ Covered(t)' = Covered(t)
        /\ Covered(s) = Len(token_ids[s])
    <2>1. ~pending[s]
      BY <1>1, <1>2 DEF IInv, ClientOK
    <2> QED  BY <1>2, <2>1, SequenceTypes DEF Live, Covered
  <1>4. LoopHash # kNoHash <=> (n + 1) * BLOCK_SIZE <= Covered(s)
    BY <1>1, <1>3, LoopHashFull
  <1>5. /\ Len(block_table'[s]) = n + 1
        /\ DOMAIN block_table'[s] = DOMAIN block_table[s] \cup {n + 1}
        /\ \A i \in DOMAIN block_table[s] : block_table'[s][i] = block_table[s][i]
        /\ block_table'[s][n + 1] = b
        /\ \A t \in SeqId : t # s => block_table'[t] = block_table[t]
    BY <1>1, IterationTables
  <1>6. /\ \A c \in BlockId : c # b => blocks'[c] = blocks[c]
        /\ LoopHash # kNoHash => blocks'[b].hash = LoopHash
    <2>1. blocks \in [BlockId -> Block]
      BY DEF IInv, TypeOK, BMTypeOK
    <2>2. /\ \A c \in BlockId : c # b => blocks'[c] = blocks[c]
          /\ LoopHash # kNoHash => blocks'[b] = update(blk, LoopHash, LoopTokens)
      BY <2>1 DEF EndIteration
    <2> QED  BY <2>2 DEF update, Block
  <1>7. HashesKept
    <2> SUFFICES ASSUME NEW c \in BlockId, blocks[c].ref_count > 0
                 PROVE  blocks'[c].hash = blocks[c].hash
      BY DEF HashesKept
    <2>1. CASE c # b
      BY <1>6, <2>1
    <2>2. CASE c = b
      BY <1>6, <2>2
    <2> QED  BY <2>1, <2>2
  <1>8. LoopHash # kNoHash => LoopHash = Chain(token_ids[s], n + 1)
    <2>1. call.h = Chain(token_ids[s], n)
      BY <1>1 DEF ChainInv, LoopOK
    <2>2. Append(Chain(token_ids[s], n), block(token_ids[s], n)) =
              Chain(token_ids[s], n + 1)
      BY <1>2, ChainAppend
    <2> QED  BY <1>2, <2>1, <2>2 DEF LoopHash, compute_hash
  <1>9. ChainsOK'
    <2> SUFFICES ASSUME NEW t \in SeqId, NEW i \in DOMAIN block_table'[t]
                 PROVE  ChainOK(t, i)'
      BY DEF ChainsOK
    <2>1. CASE i \in DOMAIN block_table[t]
      <3>1. \A j \in DOMAIN block_table[t] : ChainOK(t, j)
        BY <1>3 DEF ChainInv, ChainsOK
      <3>2. \A j \in DOMAIN block_table[t] : block_table'[t][j] = block_table[t][j]
        BY <1>5
      <3> QED  BY <1>2, <1>3, <1>7, <2>1, <3>1, <3>2, ChainsKept
    <2>2. CASE t = s /\ i = n + 1
      <3>1. block_table'[s][n + 1] = b /\ Covered(s)' = Covered(s)
        BY <1>2, <1>3, <1>5
      <3> QED  BY <1>2, <1>4, <1>6, <1>8, <2>2, <3>1 DEF ChainOK
    <2> QED  BY <1>5, <2>1, <2>2
  <1>10. LoopOK'
    <2> SUFFICES ASSUME call'.op = "allocate"
                 PROVE  /\ call'.h = Chain(token_ids[s], n + 1)
                        /\ ~call'.cache_miss =>
                               num_cached_tokens'[s] = (n + 1) * BLOCK_SIZE
                        /\ call'.seq = s
      BY <1>2, <1>5 DEF LoopOK, LoopIndex
    <2>1. /\ n + 1 < num_blocks(token_ids[s])
          /\ call' = [call EXCEPT !.h = LoopHash, !.cache_miss = miss]
      BY <1>2 DEF NoCall
    <2>2. /\ call'.h = LoopHash /\ call'.cache_miss = miss /\ call'.seq = s
      BY <1>1, <2>1 DEF IInv, TypeOK, BMTypeOK, Call
    <2>3. (n + 1) * BLOCK_SIZE <= Covered(s)
      <3>1. /\ n + 1 \in Nat
            /\ (n + 1) * BLOCK_SIZE < Len(token_ids[s])
        BY <1>2, <2>1, NumBlocksCeil
      <3>2. (n + 1) * BLOCK_SIZE \in Int
        BY <3>1, BlockProduct
      <3> QED  BY <1>3, <3>1, <3>2, SequenceTypes
    <2>4. ~miss => num_cached_tokens'[s] = (n + 1) * BLOCK_SIZE
      <3> SUFFICES ASSUME ~miss
                   PROVE  num_cached_tokens'[s] = (n + 1) * BLOCK_SIZE
        OBVIOUS
      <3>1. num_cached_tokens'[s] = num_cached_tokens[s] + BLOCK_SIZE
        BY <1>1, <1>2 DEF IInv, TypeOK, BMTypeOK
      <3>2. num_cached_tokens[s] = n * BLOCK_SIZE
        BY <1>1 DEF ChainInv, LoopOK
      <3>3. (n + 1) * BLOCK_SIZE = n * BLOCK_SIZE + BLOCK_SIZE
        BY <1>2, BlockMultiples
      <3> QED  BY <3>1, <3>2, <3>3
    <2> QED  BY <1>4, <1>8, <2>2, <2>3, <2>4
  <1> QED  BY <1>9, <1>10 DEF ChainInv

LEMMA HitUsedChains ==
    ASSUME IInv, ContentInv, ChainInv, HitsKnowTheirChain,
           AllocateHitUsed, UNCHANGED pending
    PROVE  ChainInv'
  <1>1. PICK b : b = hash_to_block_id[LoopHash]
    OBVIOUS
  <1>2. /\ call.op = "allocate" /\ CacheHit
        /\ EndIteration(b, AddRef(blocks[b]), FALSE)
        /\ num_cached_tokens' =
               [num_cached_tokens EXCEPT ![call.seq] = @ + BLOCK_SIZE]
    BY <1>1 DEF AllocateHitUsed
  <1>3. b \in BlockId
    BY <1>1, <1>2, HitBlock
  <1>4. AddRef(blocks[b]) \in Block
    <2>1. blocks[b] \in Block
      BY <1>3 DEF IInv, TypeOK, BMTypeOK
    <2> QED  BY <2>1 DEF AddRef, Block
  <1>5. LoopHash # kNoHash /\ ~call.cache_miss
    BY <1>2 DEF CacheHit, ContentInv, IndexHashed
  <1>6. blocks[b].hash = LoopHash
    BY <1>1, <1>2 DEF HitsKnowTheirChain
  <1> QED  BY <1>2, <1>3, <1>4, <1>5, <1>6, IterationChains

LEMMA HitFreeChains ==
    ASSUME IInv, ContentInv, ChainInv, AllocateHitFree, UNCHANGED pending
    PROVE  ChainInv'
  <1>1. PICK b : b = hash_to_block_id[LoopHash]
    OBVIOUS
  <1>2. /\ call.op = "allocate" /\ CacheHit /\ b \notin used_block_ids
        /\ EndIteration(b, reset, FALSE)
        /\ num_cached_tokens' =
               [num_cached_tokens EXCEPT ![call.seq] = @ + BLOCK_SIZE]
    BY <1>1 DEF AllocateHitFree
  <1>3. b \in BlockId
    BY <1>1, <1>2, HitBlock
  <1>4. LoopHash # kNoHash /\ ~call.cache_miss
    BY <1>2 DEF CacheHit, ContentInv, IndexHashed
  <1>5. blocks[b].ref_count = 0
    <2>1. blocks[b].ref_count \in Nat
      BY <1>3 DEF IInv, TypeOK, BMTypeOK, Block
    <2>2. ~(blocks[b].ref_count > 0)
      BY <1>2, <1>3 DEF IInv, FreeUsedPartition
    <2> QED  BY <2>1, <2>2
  <1> QED  BY <1>2, <1>3, <1>4, <1>5, ResetType, IterationChains

LEMMA MissChains ==
    ASSUME IInv, ContentInv, ChainInv, AllocateMiss, UNCHANGED pending
    PROVE  ChainInv'
  <1>1. PICK b : b = Head(free_block_ids)
    OBVIOUS
  <1>2. call.op = "allocate" /\ EndIteration(b, reset, TRUE)
    BY <1>1 DEF AllocateMiss
  <1>3. b \in BlockId /\ blocks[b].ref_count = 0
    <2>1. Len(free_block_ids) > 0
      BY <1>2, LoopTypes
    <2>2. free_block_ids \in Seq(BlockId)
      BY DEF IInv, TypeOK, BMTypeOK
    <2>3. b \in ToSet(free_block_ids)
      BY <1>1, <2>1, <2>2, HeadFree
    <2> QED  BY <2>3 DEF IInv, FreeUsedPartition
  <1> QED  BY <1>2, <1>3, ResetType, IterationChains

LEMMA DeallocateChains ==
    ASSUME IInv, ContentInv, ChainInv, DeallocateStep, UNCHANGED pending
    PROVE  ChainInv'
  <1>1. PICK s, b : s = call.seq /\ b = block_table[s][call.it]
    OBVIOUS
  <1>2. /\ call.op = "deallocate" /\ s \in SeqId /\ call \in Call
        /\ blocks' = [blocks EXCEPT ![b].ref_count = @ - 1]
        /\ UNCHANGED token_ids
    BY <1>1 DEF IInv, TypeOK, BMTypeOK, Call, DeallocateStep
  <1>3. HashesKept
    <2> SUFFICES ASSUME NEW c \in BlockId
                 PROVE  blocks'[c].hash = blocks[c].hash
      BY DEF HashesKept
    <2>1. blocks \in [BlockId -> Block]
      BY DEF IInv, TypeOK, BMTypeOK
    <2>2. CASE c # b
      BY <1>2, <2>1, <2>2
    <2>3. CASE c = b
      BY <1>2, <2>1, <2>3 DEF Block
    <2> QED  BY <2>2, <2>3
  <1>4. \A t \in SeqId : t # s =>
            /\ block_table'[t] = block_table[t]
            /\ Live(t) /\ Covered(t)' = Covered(t)
    BY <1>1, <1>2 DEF DeallocateStep, IInv, TypeOK, BMTypeOK, Live, Covered
  <1>5. /\ ~Live(s)' \/ block_table'[s] = << >>
        /\ call'.op # "allocate"
    <2>1. CASE call.it > 1
      <3>1. call' = [call EXCEPT !.it = @ - 1]
        BY <2>1 DEF DeallocateStep
      <3>2. call'.op = "deallocate" /\ call'.seq = s
        BY <1>1, <1>2, <3>1 DEF Call
      <3> QED  BY <3>2 DEF Live
    <2>2. CASE ~(call.it > 1)
      BY <1>1, <1>2, <2>2 DEF DeallocateStep, IInv, TypeOK, BMTypeOK, NoCall
    <2> QED  BY <2>1, <2>2
  <1>6. ChainsOK'
    <2> SUFFICES ASSUME NEW t \in SeqId, Live(t)', NEW i \in DOMAIN block_table'[t]
                 PROVE  ChainOK(t, i)'
      BY DEF ChainsOK
    <2>1. CASE t = s
      BY <1>5, <2>1
    <2>2. CASE t # s
      <3>1. \A j \in DOMAIN block_table[t] : ChainOK(t, j)
        BY <1>4, <2>2 DEF ChainInv, ChainsOK
      <3> QED  BY <1>2, <1>3, <1>4, <2>2, <3>1, ChainsKept
    <2> QED  BY <2>1, <2>2
  <1> QED  BY <1>5, <1>6 DEF ChainInv, LoopOK

-----------------------------------------------------------------------------
(* Chains are kept: the client's actions *)

LEMMA NewRequestChains ==
    ASSUME IInv, ChainInv, NEW s \in SeqId, NEW p \in Prompts, NewRequest(s, p)
    PROVE  ChainInv'
  <1>1. /\ block_table[s] = << >> /\ call = NoCall
        /\ token_ids' = [token_ids EXCEPT ![s] = p]
        /\ UNCHANGED << blocks, block_table, num_cached_tokens, call, pending >>
    BY DEF NewRequest
  <1>2. \A t \in SeqId : t # s => token_ids'[t] = token_ids[t]
    BY <1>1 DEF IInv, TypeOK, BMTypeOK
  <1>3. \A t \in SeqId : t # s => Covered(t)' = Covered(t) /\ Live(t)
    BY <1>1, <1>2 DEF Covered, Live, NoCall
  <1>4. LoopOK'
    BY <1>1 DEF LoopOK, NoCall
  <1> QED  BY <1>1, <1>2, <1>3, <1>4, QuietChains

\* A new table starts from the empty chain, and nothing is cached.
LEMMA AllocateChains ==
    ASSUME IInv, ContentInv, ChainInv, NEW s \in SeqId, Allocate(s)
    PROVE  ChainInv'
  <1>1. /\ call = NoCall /\ block_table[s] = << >>
        /\ call' = [NoCall EXCEPT !.op = "allocate", !.seq = s]
        /\ UNCHANGED << blocks, token_ids, block_table, num_cached_tokens,
                        pending >>
    BY DEF Allocate, BeginAllocate
  <1>2. /\ call.op = "none" /\ call'.op = "allocate" /\ call'.seq = s
        /\ call'.h = kNoHash
    BY <1>1 DEF NoCall
  <1>3. \A t \in SeqId : Covered(t)' = Covered(t) /\ Live(t)
    BY <1>1, <1>2 DEF Covered, Live
  <1>4. LoopOK'
    <2>1. Len(block_table'[s]) = 0 /\ token_ids'[s] \in Seq(Token)
      BY <1>1, EmptySeq, SequenceTypes
    <2>2. Chain(token_ids'[s], 0) = << >>
      BY <2>1, ChainAppend
    <2>3. /\ num_cached_tokens'[s] = 0 /\ 0 * BLOCK_SIZE = 0
      <3>1. /\ num_cached_tokens[s] <= BLOCK_SIZE * Len(block_table[s])
            /\ num_cached_tokens[s] \in Nat
        BY SequenceTypes DEF ContentInv, CachedWithinTable
      <3>2. Len(block_table[s]) = 0 /\ BLOCK_SIZE * 0 = 0 /\ 0 * BLOCK_SIZE = 0
        BY <1>1, EmptySeq, BlockSizeAssumption
      <3> QED  BY <1>1, <3>1, <3>2
    <2> QED  BY <1>2, <2>1, <2>2, <2>3 DEF LoopOK, LoopIndex, kNoHash
  <1> QED  BY <1>1, <1>3, <1>4, QuietChains

LEMMA append_tokenChains ==
    ASSUME IInv, ChainInv, NEW s \in SeqId, NEW x \in Sampled, append_token(s, x)
    PROVE  ChainInv'
  <1>1. /\ call = NoCall /\ ~pending[s]
        /\ token_ids' = [token_ids EXCEPT ![s] = Append(@, x)]
        /\ pending' = [pending EXCEPT ![s] = TRUE]
        /\ UNCHANGED << blocks, block_table, call >>
    BY DEF append_token
  <1>2. /\ x \in Token /\ token_ids[s] \in Seq(Token)
        /\ Len(Append(token_ids[s], x)) = Len(token_ids[s]) + 1
        /\ Len(token_ids[s]) \in Nat
    BY SampledAssumption, SequenceTypes, AppendProperties
  <1>3. /\ token_ids'[s] = Append(token_ids[s], x) /\ pending'[s] = TRUE
        /\ \A t \in SeqId : t # s => /\ token_ids'[t] = token_ids[t]
                                     /\ pending'[t] = pending[t]
    BY <1>1 DEF IInv, TypeOK, BMTypeOK
  <1>4. Covered(s) = Len(token_ids[s]) /\ Covered(s)' = Covered(s)
    <2>1. Covered(s)' = Len(token_ids'[s]) - 1
      BY <1>3 DEF Covered
    <2>2. Len(token_ids'[s]) = Len(token_ids[s]) + 1
      BY <1>2, <1>3
    <2> QED  BY <1>1, <1>2, <2>1, <2>2, SequenceTypes
  <1>5. \A i \in DOMAIN block_table[s] : i * BLOCK_SIZE <= Covered(s) =>
            block(token_ids'[s], i - 1) = block(token_ids[s], i - 1)
    <2> SUFFICES ASSUME NEW i \in DOMAIN block_table[s], i * BLOCK_SIZE <= Covered(s)
                 PROVE  block(Append(token_ids[s], x), i - 1) =
                            block(token_ids[s], i - 1)
      BY <1>3
    <2>1. i - 1 \in Nat /\ (i - 1) + 1 = i
      BY SequenceTypes
    <2> QED  BY <1>2, <1>4, <2>1, BlockAppend
  <1>6. \A t \in SeqId : Live(t)
    BY <1>1 DEF Live, NoCall
  <1>7. \A t \in SeqId : t # s => Covered(t)' = Covered(t)
    BY <1>3 DEF Covered
  <1>8. LoopOK'
    BY <1>1 DEF LoopOK, NoCall
  <1> QED  BY <1>1, <1>3, <1>4, <1>5, <1>6, <1>7, <1>8, QuietChains

LEMMA ReleaseChains ==
    ASSUME IInv, ChainInv, NEW s \in SeqId, Release(s)
    PROVE  ChainInv'
  <1>1. /\ call = NoCall
        /\ call' = [NoCall EXCEPT !.op = "deallocate", !.seq = s,
                                  !.it = Len(block_table[s])]
        /\ pending' = [pending EXCEPT ![s] = FALSE]
        /\ UNCHANGED << blocks, token_ids, block_table >>
    BY DEF Release, BeginDeallocate
  <1>2. call.op = "none" /\ call'.op = "deallocate" /\ call'.seq = s
    BY <1>1 DEF NoCall
  <1>3. \A t \in SeqId : Live(t) /\ (Live(t)' => t # s /\ Covered(t)' = Covered(t))
    BY <1>1, <1>2 DEF Covered, Live, IInv, TypeOK
  <1>4. LoopOK'
    BY <1>2 DEF LoopOK
  <1> QED  BY <1>1, <1>3, <1>4, QuietChains

-----------------------------------------------------------------------------
(* Chains are kept: may_append *)

\* The entries of the other sequences, and of s the ones before the last, are
\* full before the call or not at all; only the last one may become full.
LEMMA MayAppendChains ==
    ASSUME IInv, ContentInv, ChainInv, NEW s \in SeqId,
           call = NoCall, UNCHANGED << token_ids, call >>,
           pending[s], pending' = [pending EXCEPT ![s] = FALSE],
           \A b \in BlockId : blocks[b].hash # kNoHash /\ blocks[b].ref_count > 0 =>
               blocks'[b].hash = blocks[b].hash,
           \A t \in SeqId : \A i \in DOMAIN block_table[t] :
               block_table'[t][i] = block_table[t][i],
           NEW t \in SeqId, NEW i \in DOMAIN block_table[t],
           ~(t = s /\ i = Len(block_table[s]) /\ rem(s) = 0)
    PROVE  ChainOK(t, i)'
  <1>1. /\ Live(t) /\ ChainOK(t, i) /\ EntryOK(t, i)
    BY DEF Live, NoCall, ChainInv, ChainsOK, ContentInv, EntriesOK
  <1>2. i * BLOCK_SIZE <= Covered(t)' => i * BLOCK_SIZE <= Covered(t)
    <2>1. CASE t # s
      <3>1. Covered(t)' = Covered(t)
        BY <2>1 DEF Covered, IInv, TypeOK
      <3> QED  BY <3>1
    <2>2. CASE t = s
      <3> DEFINE n == Len(block_table[s])
                 c == Covered(s)
      <3>1. /\ n \in Nat /\ n > 0 /\ c \in Nat
            /\ c <= n * BLOCK_SIZE
            /\ rem(s) = 0 <=> c + 1 = n * BLOCK_SIZE
            /\ \A j \in 1 .. n - 1 : j * BLOCK_SIZE <= c
            /\ DOMAIN block_table[s] = 1 .. n
            /\ Len(token_ids[s]) = c + 1
        BY PendingTable, SequenceTypes
      <3>2. Covered(s)' = c + 1
        <4>1. pending'[s] = FALSE
          BY DEF IInv, TypeOK
        <4>2. Covered(s)' = Len(token_ids[s]) - 0
          BY <4>1 DEF Covered
        <4> QED  BY <3>1, <4>2
      <3> HIDE DEF n, c
      <3>3. CASE i \in 1 .. n - 1
        BY <2>2, <3>1, <3>3 DEF c
      <3>4. CASE i = n
        <4>1. rem(s) # 0
          BY <2>2, <3>4 DEF n
        <4>2. n * BLOCK_SIZE \in Int
          BY <3>1, BlockProduct
        <4>3. n * BLOCK_SIZE <= c + 1 => n * BLOCK_SIZE <= c
          BY <3>1, <4>1, <4>2
        <4> QED  BY <2>2, <3>2, <3>4, <4>3 DEF c
      <3> QED  BY <2>2, <3>1, <3>3, <3>4
    <2> QED  BY <2>1, <2>2
  <1>3. ASSUME i * BLOCK_SIZE <= Covered(t)'
        PROVE  blocks'[block_table'[t][i]].hash = Chain(token_ids'[t], i)
    <2>1. i * BLOCK_SIZE <= Covered(t)
      BY <1>2, <1>3
    <2>2. /\ block_table[t][i] \in BlockId
          /\ blocks[block_table[t][i]].ref_count > 0
      BY <1>1, EntryReferenced
    <2>3. /\ blocks[block_table[t][i]].hash # kNoHash
          /\ blocks[block_table[t][i]].hash = Chain(token_ids[t], i)
      BY <1>1, <2>1 DEF EntryOK, ChainOK
    <2> QED  BY <2>2, <2>3
  <1> QED  BY <1>3 DEF ChainOK

LEMMA GrowTableChains ==
    ASSUME IInv, ContentInv, ChainInv, NEW s \in SeqId, MayAppend(s), GrowTable(s)
    PROVE  ChainInv'
  <1>1. PICK b : b = Head(free_block_ids)
    OBVIOUS
  <1>2. /\ rem(s) = 1 /\ call = NoCall
        /\ blocks' = [blocks EXCEPT ![b] = reset]
        /\ block_table' = [block_table EXCEPT ![s] = Append(@, b)]
        /\ pending[s] /\ pending' = [pending EXCEPT ![s] = FALSE]
        /\ UNCHANGED << token_ids, call >>
    BY <1>1 DEF GrowTable, MayAppend, may_append
  <1>3. b \in BlockId /\ blocks[b].ref_count = 0
    <2>1. free_block_ids \in Seq(BlockId) /\ Len(free_block_ids) \in Nat
      BY LenProperties DEF IInv, TypeOK, BMTypeOK
    <2>2. Len(free_block_ids) > 0
      BY <1>2, <2>1 DEF MayAppend, can_append
    <2>3. b \in ToSet(free_block_ids)
      BY <1>1, <2>1, <2>2, HeadFree
    <2> QED  BY <2>3 DEF IInv, FreeUsedPartition
  <1> DEFINE n == Len(block_table[s])
             c == Covered(s)
  <1>4. /\ n \in Nat /\ c \in Nat /\ BLOCK_SIZE \in Nat /\ BLOCK_SIZE >= 2
        /\ c = n * BLOCK_SIZE /\ Len(token_ids[s]) = c + 1
        /\ DOMAIN block_table[s] = 1 .. n
    BY <1>2, PendingTable, SequenceTypes, BlockSizeAssumption
  <1>5. /\ DOMAIN block_table'[s] = 1 .. n + 1
        /\ \A i \in 1 .. n : block_table'[s][i] = block_table[s][i]
        /\ \A t \in SeqId : t # s => block_table'[t] = block_table[t]
    <2>1. block_table'[s] = Append(block_table[s], b)
      BY <1>2 DEF IInv, TypeOK, BMTypeOK
    <2>2. block_table[s] \in Seq(BlockId)
      BY SequenceTypes
    <2>3. Append(block_table[s], b) \in Seq(BlockId)
      BY <1>3, <2>2, AppendProperties
    <2>4. \A t \in SeqId : t # s => block_table'[t] = block_table[t]
      BY <1>2 DEF IInv, TypeOK, BMTypeOK
    <2> QED  BY <1>3, <2>1, <2>2, <2>3, <2>4, AppendProperties, LenProperties
  <1>6. \A d \in BlockId : d # b => blocks'[d] = blocks[d]
    BY <1>2, <1>3 DEF IInv, TypeOK, BMTypeOK
  <1>7. \A d \in BlockId : blocks[d].ref_count > 0 => blocks'[d].hash = blocks[d].hash
    BY <1>3, <1>6
  <1>8. \A t \in SeqId : \A i \in DOMAIN block_table[t] :
            block_table'[t][i] = block_table[t][i]
    BY <1>4, <1>5
  <1>9. Covered(s)' = c + 1
    <2>1. pending'[s] = FALSE
      BY <1>2 DEF IInv, TypeOK
    <2>2. Covered(s)' = Len(token_ids[s]) - 0
      BY <1>2, <2>1 DEF Covered
    <2> QED  BY <1>4, <2>2
  <1> HIDE DEF n, c
  <1>10. ~((n + 1) * BLOCK_SIZE <= c + 1)
    <2>1. (n + 1) * BLOCK_SIZE = n * BLOCK_SIZE + BLOCK_SIZE
      BY <1>4, BlockMultiples
    <2> QED  BY <1>4, <2>1
  <1>11. ChainsOK'
    <2> SUFFICES ASSUME NEW t \in SeqId, NEW i \in DOMAIN block_table'[t]
                 PROVE  ChainOK(t, i)'
      BY DEF ChainsOK
    <2>1. CASE i \in DOMAIN block_table[t]
      <3>1. ~(t = s /\ i = Len(block_table[s]) /\ rem(s) = 0)
        BY <1>2
      <3> QED  BY <1>2, <1>7, <1>8, <2>1, <3>1, MayAppendChains
    <2>2. CASE t = s /\ i = n + 1
      BY <1>9, <1>10, <2>2 DEF ChainOK
    <2>3. \A j \in 1 .. n + 1 : j \in 1 .. n \/ j = n + 1
      BY <1>4
    <2> QED  BY <1>4, <1>5, <2>1, <2>2, <2>3
  <1>12. LoopOK'
    BY <1>2 DEF LoopOK, NoCall
  <1> QED  BY <1>11, <1>12 DEF ChainInv

\* The block is sealed under the hash its predecessor has, which is the chain
\* of all the blocks before it.
LEMMA SealLastChains ==
    ASSUME IInv, ContentInv, ChainInv, NEW s \in SeqId, MayAppend(s), SealLast(s)
    PROVE  ChainInv'
  <1> DEFINE table == block_table[s]
             n == Len(table)
             c == Covered(s)
             tokens == block(token_ids[s], num_blocks(token_ids[s]) - 1)
             prefix == IF Len(table) > 1 THEN blocks[table[Len(table) - 1]].hash
                       ELSE kNoHash
             h == compute_hash(tokens, prefix)
  <1>1. PICK b : b = Last(table)
    OBVIOUS
  <1>2. /\ rem(s) = 0 /\ call = NoCall
        /\ blocks' = [blocks EXCEPT ![b] = update(@, h, tokens)]
        /\ pending[s] /\ pending' = [pending EXCEPT ![s] = FALSE]
        /\ UNCHANGED << token_ids, call, block_table >>
    BY <1>1 DEF SealLast, MayAppend, may_append
  <1>3. /\ n \in Nat /\ n > 0 /\ c \in Nat /\ c + 1 = n * BLOCK_SIZE
        /\ (n - 1) * BLOCK_SIZE < c
        /\ Len(token_ids[s]) = c + 1
        /\ \A i \in 1 .. n : EntryOK(s, i)
        /\ \A i \in 1 .. n - 1 : i * BLOCK_SIZE <= c
        /\ DOMAIN block_table[s] = 1 .. n
        /\ block_table[s] \in Seq(BlockId)
        /\ token_ids[s] \in Seq(Token)
    BY <1>2, PendingTable, SequenceTypes
  <1>4. n \in DOMAIN block_table[s] /\ b = block_table[s][n]
    <2>1. n \in 1 .. n
      BY <1>3
    <2> QED  BY <1>1, <1>3, <2>1 DEF Last
  <1>5. \A t \in SeqId : Live(t)
    BY <1>2 DEF Live, NoCall
  <1>6. b \in BlockId
    BY <1>4, <1>5, EntryReferenced
  <1>7. blocks[b].hash = kNoHash
    <2>1. EntryOK(s, n) /\ ~(n * BLOCK_SIZE <= Covered(s))
      <3>1. n \in 1 .. n
        BY <1>3
      <3>2. ~(c + 1 <= c)
        BY <1>3
      <3> QED  BY <1>3, <3>1, <3>2
    <2> QED  BY <1>4, <2>1 DEF EntryOK
  <1>8. tokens = block(token_ids[s], n - 1)
    <2>1. n = num_blocks(token_ids[s])
      <3>1. (n - 1) * BLOCK_SIZE < Len(token_ids[s])
        <4>1. (n - 1) * BLOCK_SIZE \in Int
          <5>1. n - 1 \in Int
            BY <1>3
          <5> QED  BY <5>1, BlockProduct
        <4> QED  BY <1>3, <4>1
      <3>2. Len(token_ids[s]) <= n * BLOCK_SIZE
        BY <1>3
      <3> HIDE DEF n
      <3> QED  BY <1>3, <3>1, <3>2, NumBlocksCeil
    <2> QED  BY <2>1
  <1> HIDE DEF c, tokens
  <1>9. prefix = Chain(token_ids[s], n - 1)
    <2>1. CASE n > 1
      <3>1. n - 1 \in 1 .. n - 1 /\ n - 1 \in DOMAIN block_table[s]
        BY <1>3, <2>1
      <3>2. (n - 1) * BLOCK_SIZE <= Covered(s)
        BY <1>3, <3>1 DEF c
      <3>3. ChainOK(s, n - 1)
        BY <1>5, <3>1 DEF ChainInv, ChainsOK
      <3> QED  BY <2>1, <3>2, <3>3 DEF ChainOK
    <2>2. CASE ~(n > 1)
      <3>1. n - 1 = 0
        <4> HIDE DEF n
        <4> QED  BY <1>3, <2>2
      <3>2. Chain(token_ids[s], 0) = << >>
        BY <1>3, ChainAppend
      <3> QED  BY <2>2, <3>1, <3>2 DEF kNoHash
    <2> QED  BY <2>1, <2>2
  <1> HIDE DEF prefix, n
  <1>10. h = Chain(token_ids[s], n)
    <2>1. n - 1 \in Nat /\ (n - 1) + 1 = n
      BY <1>3
    <2>2. Append(Chain(token_ids[s], n - 1), block(token_ids[s], n - 1)) =
              Chain(token_ids[s], n)
      BY <1>3, <2>1, ChainAppend
    <2> QED  BY <1>8, <1>9, <2>2 DEF compute_hash
  <1> HIDE DEF h
  <1>11. /\ blocks'[b].hash = h
         /\ \A d \in BlockId : d # b => blocks'[d] = blocks[d]
    <2>1. blocks \in [BlockId -> Block]
      BY DEF IInv, TypeOK, BMTypeOK
    <2>2. blocks'[b] = update(blocks[b], h, tokens)
      BY <1>2, <1>6, <2>1
    <2>3. \A d \in BlockId : d # b => blocks'[d] = blocks[d]
      BY <1>2, <2>1
    <2> QED  BY <1>6, <2>1, <2>2, <2>3 DEF update, Block
  <1>12. ChainsOK'
    <2> SUFFICES ASSUME NEW t \in SeqId, NEW i \in DOMAIN block_table[t]
                 PROVE  ChainOK(t, i)'
      BY <1>2 DEF ChainsOK
    <2>1. CASE t = s /\ i = n
      BY <1>2, <1>4, <1>10, <1>11, <2>1 DEF ChainOK
    <2>2. CASE ~(t = s /\ i = n)
      <3>1. ~(t = s /\ i = Len(block_table[s]) /\ rem(s) = 0)
        BY <2>2 DEF n
      <3>2. \A d \in BlockId : blocks[d].hash # kNoHash /\ blocks[d].ref_count > 0 =>
                blocks'[d].hash = blocks[d].hash
        BY <1>7, <1>11
      <3> QED  BY <1>2, <3>1, <3>2, MayAppendChains
    <2> QED  BY <2>1, <2>2
  <1>13. LoopOK'
    BY <1>2 DEF LoopOK, NoCall
  <1> QED  BY <1>12, <1>13 DEF ChainInv

LEMMA KeepFillingChains ==
    ASSUME IInv, ContentInv, ChainInv, NEW s \in SeqId, MayAppend(s), KeepFilling(s)
    PROVE  ChainInv'
  <1>1. /\ rem(s) \notin {0, 1} /\ call = NoCall
        /\ pending[s] /\ pending' = [pending EXCEPT ![s] = FALSE]
        /\ UNCHANGED << blocks, token_ids, call, block_table >>
    BY DEF KeepFilling, MayAppend, may_append
  <1>2. ChainsOK'
    <2> SUFFICES ASSUME NEW t \in SeqId, NEW i \in DOMAIN block_table[t]
                 PROVE  ChainOK(t, i)'
      BY <1>1 DEF ChainsOK
    <2>1. ~(t = s /\ i = Len(block_table[s]) /\ rem(s) = 0)
      BY <1>1
    <2> QED  BY <1>1, <2>1, MayAppendChains
  <1>3. LoopOK'
    BY <1>1 DEF LoopOK, NoCall
  <1> QED  BY <1>2, <1>3 DEF ChainInv

-----------------------------------------------------------------------------
(* What the steps make of tables and hashes, for those who fill the blocks *)

\* The steps of a client that leave blocks and tables alone.
QuietStep ==
    \E s \in SeqId :
        \/ \E p \in Prompts : NewRequest(s, p)
        \/ Allocate(s)
        \/ \E x \in Sampled : append_token(s, x)
        \/ Release(s)

\* They keep every prefix that a table goes on to cover.
LEMMA QuietTokens ==
    ASSUME IInv, QuietStep
    PROVE  /\ UNCHANGED << blocks, block_table, num_cached_tokens >>
           /\ \A t \in SeqId : block_table[t] # << >> /\ Live(t)' =>
                  /\ Live(t) /\ Covered(t)' = Covered(t)
                  /\ \A m \in 0 .. Covered(t) :
                         SubSeq(token_ids'[t], 1, m) = SubSeq(token_ids[t], 1, m)
  <1>1. ASSUME NEW s \in SeqId, NEW p \in Prompts, NewRequest(s, p),
               NEW t \in SeqId, block_table[t] # << >>
        PROVE  Live(t) /\ Covered(t)' = Covered(t) /\ token_ids'[t] = token_ids[t]
    <2>1. t # s /\ call = NoCall /\ UNCHANGED pending
          /\ token_ids'[t] = token_ids[t]
      BY <1>1 DEF NewRequest, IInv, TypeOK, BMTypeOK
    <2> QED  BY <2>1 DEF Live, NoCall, Covered
  <1>2. ASSUME NEW s \in SeqId, Allocate(s), NEW t \in SeqId
        PROVE  Live(t) /\ Covered(t)' = Covered(t) /\ token_ids'[t] = token_ids[t]
    <2>1. call = NoCall /\ UNCHANGED << token_ids, pending >>
      BY <1>2 DEF Allocate, BeginAllocate
    <2> QED  BY <2>1 DEF Live, NoCall, Covered
  <1>3. ASSUME NEW s \in SeqId, NEW x \in Sampled, append_token(s, x),
               NEW t \in SeqId
        PROVE  /\ Live(t) /\ Covered(t)' = Covered(t)
               /\ \A m \in 0 .. Covered(t) :
                      SubSeq(token_ids'[t], 1, m) = SubSeq(token_ids[t], 1, m)
    <2>1. /\ call = NoCall /\ ~pending[s]
          /\ token_ids' = [token_ids EXCEPT ![s] = Append(@, x)]
          /\ pending' = [pending EXCEPT ![s] = TRUE]
      BY <1>3 DEF append_token
    <2>2. Live(t)
      BY <2>1 DEF Live, NoCall
    <2>3. CASE t # s
      <3>1. token_ids'[t] = token_ids[t] /\ pending'[t] = pending[t]
        BY <2>1, <2>3 DEF IInv, TypeOK, BMTypeOK
      <3> QED  BY <2>2, <3>1 DEF Covered
    <2>4. CASE t = s
      <3>1. PICK u \in Seq(Token) : u = token_ids[s]
        BY SequenceTypes
      <3>2. token_ids'[s] = Append(u, x) /\ pending'[s] = TRUE
        BY <2>1, <3>1 DEF IInv, TypeOK, BMTypeOK
      <3>3. /\ x \in Token /\ Len(u) \in Nat
            /\ Append(u, x) \in Seq(Token) /\ Len(Append(u, x)) = Len(u) + 1
            /\ \A i \in 1 .. Len(u) : Append(u, x)[i] = u[i]
        BY <3>1, SampledAssumption, AppendProperties, LenProperties
      <3>4. Covered(s) = Len(u) /\ Covered(s)' = Covered(s)
        <4>1. Covered(s)' = Len(token_ids'[s]) - 1
          BY <3>2 DEF Covered
        <4> QED  BY <2>1, <3>1, <3>2, <3>3, <4>1, SequenceTypes
      <3>5. ASSUME NEW m \in 0 .. Len(u)
            PROVE  SubSeq(Append(u, x), 1, m) = SubSeq(u, 1, m)
        <4>1. m \in Nat
          BY <3>3
        <4>2. \A i \in 1 .. m : /\ u[i] \in Token /\ Append(u, x)[i] = u[i]
          <5> TAKE i \in 1 .. m
          <5>1. i \in 1 .. Len(u)
            BY <3>3
          <5> QED  BY <3>3, <5>1, ElementOfSeq
        <4> QED  BY <4>1, <4>2, SubSeqProperties
      <3> QED  BY <2>2, <2>4, <3>1, <3>2, <3>4, <3>5
    <2> QED  BY <2>3, <2>4
  <1>4. ASSUME NEW s \in SeqId, Release(s), NEW t \in SeqId, Live(t)'
        PROVE  Live(t) /\ Covered(t)' = Covered(t) /\ token_ids'[t] = token_ids[t]
    <2>1. /\ call = NoCall /\ UNCHANGED token_ids
          /\ call'.op = "deallocate" /\ call'.seq = s
          /\ pending' = [pending EXCEPT ![s] = FALSE]
      BY <1>4 DEF Release, BeginDeallocate, NoCall
    <2>2. t # s /\ pending'[t] = pending[t]
      BY <1>4, <2>1 DEF Live, IInv, TypeOK
    <2> QED  BY <2>1, <2>2 DEF Live, NoCall, Covered
  <1>5. UNCHANGED << blocks, block_table, num_cached_tokens >>
    BY DEF QuietStep, NewRequest, Allocate, BeginAllocate, append_token, Release,
           BeginDeallocate
  <1> QED  BY <1>1, <1>2, <1>3, <1>4, <1>5 DEF QuietStep

\* An iteration of allocate either takes a block that is sealed under the
\* chain up to its own place, or one that nobody holds, behind all the tokens
\* that count as cached.
LEMMA IterationEntries ==
    ASSUME IInv, ContentInv, ChainInv, HitsKnowTheirChain, UNCHANGED pending,
           AllocateHitUsed \/ AllocateHitFree \/ AllocateMiss
    PROVE  \E s \in SeqId, n \in Nat, b \in BlockId :
               /\ call.op = "allocate" /\ call.seq = s
               /\ n = Len(block_table[s]) /\ n < num_blocks(token_ids[s])
               /\ UNCHANGED token_ids
               /\ \A t \in SeqId : /\ Live(t) /\ Live(t)'
                                   /\ Covered(t)' = Covered(t)
               /\ \A t \in SeqId : t # s =>
                      /\ block_table'[t] = block_table[t]
                      /\ num_cached_tokens'[t] = num_cached_tokens[t]
               /\ Covered(s) = Len(token_ids[s])
               /\ DOMAIN block_table'[s] = DOMAIN block_table[s] \cup {n + 1}
               /\ \A i \in DOMAIN block_table[s] :
                      block_table'[s][i] = block_table[s][i]
               /\ block_table'[s][n + 1] = b
               /\ \A c \in BlockId : c # b => blocks'[c].hash = blocks[c].hash
               /\ num_cached_tokens[s] <= n * BLOCK_SIZE
               /\ \/ /\ blocks'[b].hash = blocks[b].hash
                     /\ blocks[b].hash = Chain(token_ids[s], n + 1)
                     /\ (n + 1) * BLOCK_SIZE <= Len(token_ids[s])
                     /\ num_cached_tokens[s] = n * BLOCK_SIZE
                  \/ /\ blocks[b].ref_count = 0
                     /\ num_cached_tokens'[s] = num_cached_tokens[s]
                     /\ \/ blocks'[b].hash = kNoHash
                        \/ /\ blocks'[b].hash = Chain(token_ids[s], n + 1)
                           /\ (n + 1) * BLOCK_SIZE <= Len(token_ids[s])
  <1> DEFINE hit == hash_to_block_id[LoopHash]
             b == IF AllocateMiss THEN Head(free_block_ids) ELSE hit
             blk == IF AllocateHitUsed THEN AddRef(blocks[b]) ELSE reset
             miss == IF AllocateMiss THEN TRUE ELSE FALSE
  <1>1. PICK s, n : s = call.seq /\ n = LoopIndex
    OBVIOUS
  <1>2. /\ call.op = "allocate" /\ EndIteration(b, blk, miss)
    BY DEF AllocateHitUsed, AllocateHitFree, AllocateMiss
  <1>3. /\ s \in SeqId /\ n \in Nat /\ n = Len(block_table[s])
        /\ n < num_blocks(token_ids[s])
        /\ UNCHANGED token_ids
        /\ call' = NoCall \/ (call'.op = "allocate" /\ call'.seq = s)
    <2>1. /\ call \in Call /\ UNCHANGED token_ids
          /\ \/ call' = [call EXCEPT !.h = LoopHash, !.cache_miss = miss]
             \/ call' = NoCall
      BY <1>2 DEF IInv, TypeOK, BMTypeOK, EndIteration
    <2>2. call' = NoCall \/ (call'.op = "allocate" /\ call'.seq = s)
      BY <1>1, <1>2, <2>1 DEF Call
    <2> QED  BY <1>1, <1>2, <2>1, <2>2, LoopTypes DEF LoopIndex
  <1>4. /\ \A t \in SeqId : Live(t) /\ Live(t)' /\ Covered(t)' = Covered(t)
        /\ Covered(s) = Len(token_ids[s])
    <2>1. ~pending[s]
      BY <1>1, <1>3 DEF IInv, ClientOK
    <2> QED  BY <1>2, <1>3, <2>1, SequenceTypes DEF Live, Covered, NoCall
  <1>11. b \in BlockId
    <2>1. CASE AllocateMiss
      <3>1. Len(free_block_ids) > 0
        BY <1>2, LoopTypes
      <3>2. free_block_ids \in Seq(BlockId)
        BY DEF IInv, TypeOK, BMTypeOK
      <3>3. b \in ToSet(free_block_ids)
        BY <2>1, <3>1, <3>2, HeadFree
      <3> QED  BY <3>3 DEF IInv, FreeUsedPartition
    <2>2. CASE ~AllocateMiss
      <3>1. b = hit /\ CacheHit
        BY <2>2 DEF AllocateHitUsed, AllocateHitFree
      <3> QED  BY <1>2, <3>1, HitBlock
    <2> QED  BY <2>1, <2>2
  <1>5. /\ DOMAIN block_table'[s] = DOMAIN block_table[s] \cup {n + 1}
        /\ \A i \in DOMAIN block_table[s] : block_table'[s][i] = block_table[s][i]
        /\ block_table'[s][n + 1] = b
        /\ \A t \in SeqId : t # s => block_table'[t] = block_table[t]
    <2> HIDE DEF b, blk, miss
    <2> QED  BY <1>1, <1>2, <1>11, IterationTables
  <1>6. num_cached_tokens[s] <= n * BLOCK_SIZE
    <2>1. num_cached_tokens[s] <= BLOCK_SIZE * Len(block_table[s])
      BY <1>3 DEF ContentInv, CachedWithinTable
    <2> QED  BY <1>3, <2>1, BlockSizeAssumption
  <1>7. ContentInv' /\ ChainInv'
    BY HitUsedContent, HitFreeContent, MissContent, HitUsedChains, HitFreeChains,
       MissChains
  <1>8. /\ (n + 1) * BLOCK_SIZE <= Len(token_ids[s]) =>
               blocks'[b].hash = Chain(token_ids[s], n + 1)
        /\ ~((n + 1) * BLOCK_SIZE <= Len(token_ids[s])) => blocks'[b].hash = kNoHash
    <2>1. ChainOK(s, n + 1)' /\ EntryOK(s, n + 1)'
      BY <1>3, <1>4, <1>5, <1>7 DEF ContentInv, ChainInv, EntriesOK, ChainsOK
    <2>2. Covered(s)' = Len(token_ids[s]) /\ token_ids'[s] = token_ids[s]
      BY <1>3, <1>4
    <2> QED  BY <1>5, <2>1, <2>2 DEF ChainOK, EntryOK
  <1>9. CASE AllocateMiss
    <2>1. b = Head(free_block_ids) /\ UNCHANGED num_cached_tokens
      BY <1>9 DEF AllocateMiss
    <2>2. b \in BlockId /\ blocks[b].ref_count = 0
      <3>1. Len(free_block_ids) > 0
        BY <1>2, LoopTypes
      <3>2. free_block_ids \in Seq(BlockId)
        BY DEF IInv, TypeOK, BMTypeOK
      <3>3. b \in ToSet(free_block_ids)
        BY <2>1, <3>1, <3>2, HeadFree
      <3> QED  BY <3>3 DEF IInv, FreeUsedPartition
    <2>3. \A c \in BlockId : c # b => blocks'[c].hash = blocks[c].hash
      BY <1>2 DEF EndIteration, IInv, TypeOK, BMTypeOK
    <2> HIDE DEF b, blk, miss
    <2> QED  BY <1>1, <1>2, <1>3, <1>4, <1>5, <1>6, <1>8, <2>1, <2>2, <2>3
  <1>10. CASE ~AllocateMiss
    <2>1. /\ b = hit /\ CacheHit
          /\ num_cached_tokens' =
                 [num_cached_tokens EXCEPT ![call.seq] = @ + BLOCK_SIZE]
      BY <1>10 DEF AllocateHitUsed, AllocateHitFree
    <2>2. b \in BlockId
      BY <1>2, <2>1, HitBlock
    <2>3. LoopHash # kNoHash /\ ~call.cache_miss /\ blocks[b].hash = LoopHash
      BY <1>2, <2>1 DEF CacheHit, ContentInv, IndexHashed, HitsKnowTheirChain
    <2>4. (n + 1) * BLOCK_SIZE <= Len(token_ids[s])
      BY <1>1, <1>2, <2>3, LoopHashFull
    <2>5. num_cached_tokens[s] = n * BLOCK_SIZE
      BY <1>1, <1>2, <2>3 DEF ChainInv, LoopOK
    <2>6. blocks'[b].hash = LoopHash
      <3>1. blocks'[b] = update(blk, LoopHash, LoopTokens)
        <4> HIDE DEF b, blk, miss
        <4>1. blocks' = [blocks EXCEPT ![b] = update(blk, LoopHash, LoopTokens)]
          BY <1>2, <2>3 DEF EndIteration
        <4> QED  BY <2>2, <4>1 DEF IInv, TypeOK, BMTypeOK
      <3>2. blk \in Block
        <4>1. blk = AddRef(blocks[b]) \/ blk = reset
          OBVIOUS
        <4> HIDE DEF blk, b
        <4>2. blocks[b] \in Block
          BY <2>2 DEF IInv, TypeOK, BMTypeOK
        <4>3. AddRef(blocks[b]) \in Block
          BY <4>2 DEF AddRef, Block
        <4> QED  BY <4>1, <4>3, ResetType
      <3> HIDE DEF blk, b
      <3> QED  BY <3>1, <3>2 DEF update, Block
    <2>7. \A c \in BlockId : c # b => blocks'[c].hash = blocks[c].hash
      BY <1>2 DEF EndIteration, IInv, TypeOK, BMTypeOK
    <2>8. \A t \in SeqId : t # s => num_cached_tokens'[t] = num_cached_tokens[t]
      BY <1>1, <2>1 DEF IInv, TypeOK, BMTypeOK
    <2> HIDE DEF b, blk, miss, hit
    <2>9. PICK c \in BlockId : c = b
      BY <2>2
    <2>10. /\ blocks'[c].hash = blocks[c].hash
           /\ blocks[c].hash = Chain(token_ids[s], n + 1)
           /\ (n + 1) * BLOCK_SIZE <= Len(token_ids[s])
           /\ num_cached_tokens[s] = n * BLOCK_SIZE
      BY <1>8, <2>3, <2>4, <2>5, <2>6, <2>9
    <2>11. \A t \in SeqId : t # s => /\ block_table'[t] = block_table[t]
                                    /\ num_cached_tokens'[t] = num_cached_tokens[t]
      BY <1>5, <2>8
    <2>12. /\ \A i \in DOMAIN block_table[s] : block_table'[s][i] = block_table[s][i]
           /\ block_table'[s][n + 1] = c
           /\ \A d \in BlockId : d # c => blocks'[d].hash = blocks[d].hash
      BY <1>5, <2>7, <2>9
    <2>13. call.op = "allocate" /\ call.seq = s
      BY <1>1, <1>2
    <2> QED  BY <1>3, <1>4, <1>5, <1>6, <2>10, <2>11, <2>12, <2>13
  <1> QED  BY <1>9, <1>10

\* may_append covers one token more: the first of a new block, or one more of
\* the last, which is sealed under the chain up to it when that fills it.
LEMMA MayAppendEntries ==
    ASSUME IInv, ContentInv, ChainInv, NEW s \in SeqId, MayAppend(s)
    PROVE  LET n == Len(block_table[s]) IN
           /\ UNCHANGED << token_ids, num_cached_tokens >>
           /\ Len(token_ids[s]) = Covered(s) + 1
           /\ \A t \in SeqId : Live(t) /\ Live(t)'
           /\ \A t \in SeqId : t # s => /\ Covered(t)' = Covered(t)
                                        /\ block_table'[t] = block_table[t]
           /\ Covered(s)' = Covered(s) + 1
           /\ DOMAIN block_table[s] \subseteq DOMAIN block_table'[s]
           /\ \A i \in DOMAIN block_table[s] : block_table'[s][i] = block_table[s][i]
           /\ \A i \in DOMAIN block_table'[s] \ DOMAIN block_table[s] :
                  i = n + 1 /\ n * BLOCK_SIZE = Covered(s)
           /\ \A b \in BlockId :
                  \/ blocks'[b].hash = blocks[b].hash
                  \/ blocks'[b].hash = kNoHash
                  \/ /\ n \in DOMAIN block_table[s] /\ b = block_table[s][n]
                     /\ n * BLOCK_SIZE = Covered(s) + 1
                     /\ blocks'[b].hash = Chain(token_ids[s], n)
  <1> DEFINE n == Len(block_table[s])
             c == Covered(s)
  <1>1. /\ call = NoCall /\ pending[s] /\ pending' = [pending EXCEPT ![s] = FALSE]
        /\ UNCHANGED << token_ids, num_cached_tokens, call >>
        /\ GrowTable(s) \/ SealLast(s) \/ KeepFilling(s)
    BY DEF MayAppend, may_append
  <1>2. /\ n \in Nat /\ n > 0 /\ c \in Nat
        /\ rem(s) = 1 <=> c = n * BLOCK_SIZE
        /\ rem(s) = 0 <=> c + 1 = n * BLOCK_SIZE
        /\ Len(token_ids[s]) = c + 1
        /\ DOMAIN block_table[s] = 1 .. n
        /\ block_table[s] \in Seq(BlockId)
    BY <1>1, PendingTable, SequenceTypes
  <1>3. blocks \in [BlockId -> Block] /\ block_table \in [SeqId -> Seq(BlockId)]
    BY DEF IInv, TypeOK, BMTypeOK
  <1>4. /\ \A t \in SeqId : Live(t) /\ Live(t)'
        /\ \A t \in SeqId : t # s => Covered(t)' = Covered(t)
        /\ Covered(s)' = c + 1
    <2>1. /\ pending'[s] = FALSE
          /\ \A t \in SeqId : t # s => pending'[t] = pending[t]
      BY <1>1 DEF IInv, TypeOK
    <2>2. Covered(s)' = Len(token_ids[s]) - 0
      BY <1>1, <2>1 DEF Covered
    <2>3. \A t \in SeqId : t # s => Covered(t)' = Covered(t)
      BY <1>1, <2>1 DEF Covered
    <2>4. \A t \in SeqId : Live(t) /\ Live(t)'
      BY <1>1 DEF Live, NoCall
    <2> QED  BY <1>2, <2>2, <2>3, <2>4
  <1>5. CASE GrowTable(s)
    <2>1. PICK b : b = Head(free_block_ids)
      OBVIOUS
    <2>2. /\ blocks' = [blocks EXCEPT ![b] = reset] /\ rem(s) = 1
          /\ block_table' = [block_table EXCEPT ![s] = Append(@, b)]
      BY <1>5, <2>1 DEF GrowTable
    <2>3. b \in BlockId
      <3>1. free_block_ids \in Seq(BlockId) /\ Len(free_block_ids) \in Nat
        BY LenProperties DEF IInv, TypeOK, BMTypeOK
      <3>2. Len(free_block_ids) > 0
        BY <2>2, <3>1 DEF MayAppend, can_append
      <3>3. b \in ToSet(free_block_ids)
        BY <2>1, <3>1, <3>2, HeadFree
      <3> QED  BY <3>3 DEF IInv, FreeUsedPartition
    <2>4. \A d \in BlockId : \/ blocks'[d].hash = blocks[d].hash
                             \/ blocks'[d].hash = kNoHash
      BY <1>3, <2>2, <2>3 DEF reset
    <2>5. /\ block_table'[s] = Append(block_table[s], b)
          /\ \A t \in SeqId : t # s => block_table'[t] = block_table[t]
      BY <1>3, <2>2
    <2>6. /\ DOMAIN block_table'[s] = 1 .. n + 1
          /\ \A i \in 1 .. n : block_table'[s][i] = block_table[s][i]
      <3>1. Append(block_table[s], b) \in Seq(BlockId)
        BY <1>2, <2>3, AppendProperties
      <3> QED  BY <1>2, <2>3, <2>5, <3>1, AppendProperties, LenProperties
    <2> HIDE DEF n, c
    <2>7. /\ 1 .. n \subseteq 1 .. n + 1
          /\ \A i \in (1 .. n + 1) \ (1 .. n) : i = n + 1
      BY <1>2
    <2> QED  BY <1>1, <1>2, <1>4, <2>2, <2>4, <2>5, <2>6, <2>7 DEF n, c
  <1>6. CASE SealLast(s)
    <2>1. /\ ChainInv' /\ UNCHANGED block_table /\ rem(s) = 0
      BY <1>6, SealLastChains DEF SealLast
    <2> DEFINE last == block_table[s][n]
    <2>2. n \in DOMAIN block_table[s] /\ last = Last(block_table[s])
      <3>1. n \in 1 .. n
        BY <1>2
      <3> QED  BY <1>2, <3>1 DEF Last
    <2>3. \A d \in BlockId : d # last => blocks'[d].hash = blocks[d].hash
      BY <1>3, <1>6, <2>2 DEF SealLast
    <2>4. c + 1 = n * BLOCK_SIZE
      BY <1>2, <2>1
    <2>5. blocks'[last].hash = Chain(token_ids[s], n)
      <3>1. ChainOK(s, n)'
        BY <1>4, <2>1, <2>2 DEF ChainInv, ChainsOK
      <3>2. n * BLOCK_SIZE <= Covered(s)'
        <4> HIDE DEF n, c
        <4> QED  BY <1>2, <1>4, <2>4
      <3> QED  BY <1>1, <2>1, <3>1, <3>2 DEF ChainOK
    <2> HIDE DEF n, c, last
    <2>6. last = block_table[s][n]
      BY DEF last
    <2> QED  BY <1>1, <1>2, <1>4, <2>1, <2>2, <2>3, <2>4, <2>5, <2>6 DEF n, c
  <1>7. CASE KeepFilling(s)
    <2>1. UNCHANGED << blocks, block_table >>
      BY <1>7 DEF KeepFilling
    <2> QED  BY <1>1, <1>2, <1>4, <2>1
  <1> QED  BY <1>1, <1>5, <1>6, <1>7

-----------------------------------------------------------------------------
(* What a step writes into a block: nothing, or the tokens of an entry that  *)
(* is full when the step is over                                             *)

SameSeal(b) == /\ blocks'[b].token_ids = blocks[b].token_ids
               /\ blocks'[b].hash = blocks[b].hash
Unsealed(b) == blocks'[b].token_ids = << >>

\* Entry i of s is full and was not before the step.
FullAfter(s, i) ==
    Live(s)' /\ i \in DOMAIN block_table'[s] /\ i * BLOCK_SIZE <= Covered(s)'

LEMMA IterationSeals ==
    ASSUME IInv, UNCHANGED pending,
           AllocateHitUsed \/ AllocateHitFree \/ AllocateMiss
    PROVE  \A c \in BlockId :
               \/ SameSeal(c) \/ Unsealed(c)
               \/ \E i \in Nat : FullAfter(call.seq, i) /\ block_table'[call.seq][i] = c
  <1> DEFINE hit == hash_to_block_id[LoopHash]
             b == IF AllocateMiss THEN Head(free_block_ids) ELSE hit
             blk == IF AllocateHitUsed THEN AddRef(blocks[b]) ELSE reset
             miss == IF AllocateMiss THEN TRUE ELSE FALSE
  <1>1. PICK s, n : s = call.seq /\ n = LoopIndex
    OBVIOUS
  <1>2. /\ call.op = "allocate" /\ EndIteration(b, blk, miss)
    BY DEF AllocateHitUsed, AllocateHitFree, AllocateMiss
  <1>3. /\ s \in SeqId /\ n \in Nat /\ UNCHANGED token_ids
        /\ call' = NoCall \/ call'.op = "allocate"
    <2>1. /\ call \in Call /\ UNCHANGED token_ids
          /\ \/ call' = [call EXCEPT !.h = LoopHash, !.cache_miss = miss]
             \/ call' = NoCall
      BY <1>2 DEF IInv, TypeOK, BMTypeOK, EndIteration
    <2>2. call' = NoCall \/ call'.op = "allocate"
      BY <1>2, <2>1 DEF Call
    <2> QED  BY <1>1, <1>2, <2>1, <2>2, LoopTypes
  <1>4. Live(s)' /\ Covered(s)' = Len(token_ids[s])
    <2>1. ~pending[s]
      BY <1>1, <1>2, <1>3 DEF IInv, ClientOK
    <2> QED  BY <1>3, <2>1, SequenceTypes DEF Live, Covered, NoCall
  <1>5. b \in BlockId
    <2>1. CASE AllocateMiss
      <3>1. Len(free_block_ids) > 0
        BY <1>2, LoopTypes
      <3>2. free_block_ids \in Seq(BlockId)
        BY DEF IInv, TypeOK, BMTypeOK
      <3>3. b \in ToSet(free_block_ids)
        BY <2>1, <3>1, <3>2, HeadFree
      <3> QED  BY <3>3 DEF IInv, FreeUsedPartition
    <2>2. CASE ~AllocateMiss
      <3>1. b = hit /\ CacheHit
        BY <2>2 DEF AllocateHitUsed, AllocateHitFree
      <3> QED  BY <1>2, <3>1, HitBlock
    <2> QED  BY <2>1, <2>2
  <1>6. blk = reset \/ (AllocateHitUsed /\ blk = AddRef(blocks[b]))
    OBVIOUS
  <1>7. AllocateHitUsed => b = hit
    BY DEF AllocateHitUsed, AllocateMiss
  <1> HIDE DEF b, blk, miss
  <1>8. b \in DOMAIN blocks /\ DOMAIN blocks = BlockId
    BY <1>5 DEF IInv, TypeOK, BMTypeOK
  <1>9. \A c \in BlockId : c # b => SameSeal(c)
    BY <1>2, <1>8 DEF EndIteration, SameSeal
  <1>10. CASE LoopHash # kNoHash
    <2>1. (n + 1) * BLOCK_SIZE <= Len(token_ids[s])
      BY <1>1, <1>2, <1>10, LoopHashFull
    <2>2. n + 1 \in DOMAIN block_table'[s] /\ block_table'[s][n + 1] = b
      BY <1>1, <1>2, <1>5, IterationTables
    <2>3. FullAfter(s, n + 1) /\ n + 1 \in Nat
      BY <1>3, <1>4, <2>1, <2>2 DEF FullAfter
    <2> QED  BY <1>1, <1>9, <2>2, <2>3
  <1>11. CASE LoopHash = kNoHash
    <2>1. blocks' = [blocks EXCEPT ![b] = blk]
      BY <1>2, <1>11 DEF EndIteration
    <2>2. blocks'[b] = blk
      BY <1>8, <2>1
    <2>3. CASE blk = reset
      <3>1. Unsealed(b)
        BY <2>2, <2>3 DEF Unsealed, reset
      <3> QED  BY <1>9, <3>1
    <2>4. CASE AllocateHitUsed /\ blk = AddRef(blocks[b])
      <3>1. blocks[b] \in Block
        BY <1>5 DEF IInv, TypeOK, BMTypeOK
      <3>2. SameSeal(b)
        BY <2>2, <2>4, <3>1 DEF SameSeal, AddRef, Block
      <3> QED  BY <1>9, <3>2
    <2> QED  BY <1>6, <2>3, <2>4
  <1> QED  BY <1>10, <1>11

LEMMA MayAppendSeals ==
    ASSUME IInv, ContentInv, ChainInv, NEW s \in SeqId, MayAppend(s)
    PROVE  \A c \in BlockId :
               \/ SameSeal(c) \/ Unsealed(c)
               \/ \E i \in Nat : FullAfter(s, i) /\ block_table'[s][i] = c
  <1>1. blocks \in [BlockId -> Block]
    BY DEF IInv, TypeOK, BMTypeOK
  <1>2. GrowTable(s) \/ SealLast(s) \/ KeepFilling(s)
    BY DEF MayAppend, may_append
  <1>3. CASE GrowTable(s)
    BY <1>1, <1>3 DEF GrowTable, SameSeal, Unsealed, reset
  <1>4. CASE SealLast(s)
    <2>1. PICK n : n = Len(block_table[s])
      OBVIOUS
    <2>2. /\ n \in Nat /\ n > 0 /\ Covered(s) \in Nat /\ rem(s) = 0
          /\ Covered(s) + 1 = n * BLOCK_SIZE
          /\ DOMAIN block_table[s] = 1 .. n
          /\ block_table[s] \in Seq(BlockId) /\ UNCHANGED block_table
      <3>1. call = NoCall /\ pending[s] /\ rem(s) = 0 /\ UNCHANGED block_table
        BY <1>4 DEF MayAppend, may_append, SealLast
      <3> QED  BY <2>1, <3>1, PendingTable, SequenceTypes
    <2>3. Live(s)' /\ Covered(s)' = Covered(s) + 1
      BY MayAppendEntries
    <2>4. PICK last : last = block_table[s][n] /\ last = Last(block_table[s])
      BY <2>1 DEF Last
    <2>5. n \in DOMAIN block_table[s]
      BY <2>2
    <2>6. FullAfter(s, n) /\ block_table'[s][n] = last
      <3>1. n * BLOCK_SIZE <= Covered(s)'
        BY <2>2, <2>3
      <3> QED  BY <2>2, <2>3, <2>4, <2>5, <3>1 DEF FullAfter
    <2>7. \A c \in BlockId : c # last => SameSeal(c)
      BY <1>1, <1>4, <2>4 DEF SealLast, SameSeal
    <2> QED  BY <2>2, <2>6, <2>7
  <1>5. CASE KeepFilling(s)
    BY <1>5 DEF KeepFilling, SameSeal
  <1> QED  BY <1>2, <1>3, <1>4, <1>5

LEMMA DeallocateSeals ==
    ASSUME IInv, DeallocateStep
    PROVE  \A c \in BlockId : SameSeal(c)
  <1>1. PICK b : b = block_table[call.seq][call.it]
    OBVIOUS
  <1>2. blocks' = [blocks EXCEPT ![b].ref_count = @ - 1]
    BY <1>1 DEF DeallocateStep
  <1>3. blocks \in [BlockId -> Block]
    BY DEF IInv, TypeOK, BMTypeOK
  <1> QED  BY <1>2, <1>3 DEF SameSeal, Block

-----------------------------------------------------------------------------
(* Chains are right from the start, and kept while hits know theirs *)

LEMMA InitChains ==
    ASSUME Init
    PROVE  ChainInv
  BY DEF Init, BMInit, ChainInv, ChainsOK, LoopOK, NoCall

LEMMA NextChains ==
    ASSUME IInv, ContentInv, ChainInv, HitsKnowTheirChain, [Next]_vars
    PROVE  ChainInv'
  <1>1. ASSUME NEW s \in SeqId, NEW p \in Prompts, NewRequest(s, p)
        PROVE  ChainInv'
    BY <1>1, NewRequestChains
  <1>2. ASSUME NEW s \in SeqId, Allocate(s)
        PROVE  ChainInv'
    BY <1>2, AllocateChains
  <1>3. ASSUME NEW s \in SeqId, NEW t \in Sampled, append_token(s, t)
        PROVE  ChainInv'
    BY <1>3, append_tokenChains
  <1>4. ASSUME NEW s \in SeqId, MayAppend(s)
        PROVE  ChainInv'
    <2>1. GrowTable(s) \/ SealLast(s) \/ KeepFilling(s)
      BY <1>4 DEF MayAppend, may_append
    <2> QED  BY <1>4, <2>1, GrowTableChains, SealLastChains, KeepFillingChains
  <1>5. ASSUME NEW s \in SeqId, Release(s)
        PROVE  ChainInv'
    BY <1>5, ReleaseChains
  <1>6. CASE BMStep /\ UNCHANGED pending
    BY <1>6, HitUsedChains, HitFreeChains, MissChains, DeallocateChains
       DEF BMStep
  <1>7. CASE UNCHANGED vars
    <2>1. UNCHANGED << blocks, token_ids, block_table, num_cached_tokens, call,
                       pending >>
      BY <1>7 DEF vars, bmVars
    <2>2. \A t \in SeqId : (Live(t)' => Live(t)) /\ Covered(t)' = Covered(t)
      BY <2>1 DEF Live, Covered
    <2>3. LoopOK'
      BY <2>1 DEF ChainInv, LoopOK, LoopIndex
    <2> QED  BY <2>1, <2>2, <2>3, QuietChains
  <1> QED  BY <1>1, <1>2, <1>3, <1>4, <1>5, <1>6, <1>7 DEF Next

\* As long as a hit is a hit on the whole chain, every full block in use is
\* sealed under the chain of the sequence it is used by.
THEOREM ChainsHold == Spec /\ []HitsKnowTheirChain => []ChainInv
  <1>1. Init => ChainInv
    BY InitChains
  <1>2. IInv /\ ContentInv /\ ChainInv /\ HitsKnowTheirChain /\ [Next]_vars
            => ChainInv'
    BY NextChains
  <1> QED  BY <1>1, <1>2, InvariantHolds, ContentHolds, PTL DEF Spec

\* Two sequences share a block only behind the same prefix, as the
\* documentation has it, as long as a hit is a hit on the whole chain: this
\* is all that the lookup's comparison of one block's tokens leaves open.
THEOREM SharingIsByPrefix ==
    Spec /\ []HitsKnowTheirChain => []SharedOnlySamePrefix
  <1>1. IInv /\ ContentInv /\ ChainInv => SharedOnlySamePrefix
    <2> SUFFICES ASSUME IInv, ContentInv, ChainInv,
                        NEW s \in SeqId, NEW t \in SeqId, s # t,
                        Settled(s), Settled(t),
                        NEW i \in DOMAIN block_table[s],
                        NEW j \in DOMAIN block_table[t],
                        block_table[s][i] = block_table[t][j]
                 PROVE  /\ i = j
                        /\ \A k \in 0 .. i - 1 :
                               block(token_ids[s], k) = block(token_ids[t], k)
      BY DEF SharedOnlySamePrefix
    <2>1. /\ Live(s) /\ Live(t) /\ i \in Nat /\ j \in Nat
          /\ token_ids[s] \in Seq(Token) /\ token_ids[t] \in Seq(Token)
      BY SequenceTypes DEF Settled, Live
    <2>2. EntryOK(s, i) /\ EntryOK(t, j) /\ ChainOK(s, i) /\ ChainOK(t, j)
      BY <2>1 DEF ContentInv, EntriesOK, ChainInv, ChainsOK
    <2>3. PICK b \in BlockId : /\ b = block_table[s][i]
                               /\ blocks[b].ref_count > 0
                               /\ << s, i >> \in Refs(b) /\ << t, j >> \in Refs(b)
      BY <2>1, EntryReferenced
    <2>4. blocks[b].hash # kNoHash
      <3>1. ASSUME blocks[b].hash = kNoHash
            PROVE  << s, i >> = << t, j >>
        BY <2>3, <3>1, OnlyReference DEF ContentInv, UnsealedPrivate
      <3> QED  BY <3>1
    <2>5. i * BLOCK_SIZE <= Covered(s) /\ j * BLOCK_SIZE <= Covered(t)
      BY <2>2, <2>3, <2>4 DEF EntryOK
    <2>6. Chain(token_ids[s], i) = Chain(token_ids[t], j)
      BY <2>2, <2>3, <2>5 DEF ChainOK
    <2>7. i = j
      <3>1. Len(Chain(token_ids[s], i)) = i /\ Len(Chain(token_ids[t], j)) = j
        BY <2>1, ChainAppend
      <3> QED  BY <2>6, <3>1
    <2>8. ASSUME NEW k \in 0 .. i - 1
          PROVE  block(token_ids[s], k) = block(token_ids[t], k)
      <3>1. k + 1 \in 1 .. i /\ (k + 1) - 1 = k
        BY <2>1
      <3>2. Chain(token_ids[s], i)[k + 1] = Chain(token_ids[t], i)[k + 1]
        BY <2>6, <2>7
      <3> QED  BY <3>1, <3>2 DEF Chain
    <2> QED  BY <2>7, <2>8
  <1> QED  BY <1>1, InvariantHolds, ContentHolds, ChainsHold, PTL
=============================================================================
