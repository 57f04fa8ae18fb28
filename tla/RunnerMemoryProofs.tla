------------------------- MODULE RunnerMemoryProofs -------------------------
(***************************************************************************)
(* Proofs about the memory a ModelRunner works with: the CudaAllocator     *)
(* loses no block and hands none out twice, the regions of the pinned      *)
(* staging buffer lie within it, and the tensors of a run are gone when    *)
(* the run has ended.                                                      *)
(***************************************************************************)
EXTENDS RunnerMemory, QueueProofs

USE AllocatorAssumption, KernelsAssumption, GraphAssumption, RunnerAssumption

-----------------------------------------------------------------------------
(* The CudaAllocator *)

Bucket == { round_size(bytes) : bytes \in Nat }

\* BlocksPartitioned, of any heap.
Partitioned(h) ==
    /\ \A m, n \in DOMAIN h.held : h.held[m] = h.held[n] => m = n
    /\ \A b \in DOMAIN h.free_blocks : IsInjective(h.free_blocks[b])
    /\ \A block \in DOMAIN h.bucket :
           (\E n \in DOMAIN h.held : h.held[n] = block)
               <=> block \notin ToSet(FreeList(h, h.bucket[block]))
    /\ \A n \in DOMAIN h.held : h.held[n] \in DOMAIN h.bucket
    /\ \A b \in DOMAIN h.free_blocks : \A block \in ToSet(h.free_blocks[b]) :
           block \in DOMAIN h.bucket /\ h.bucket[block] = b

SoundHeap(h) ==
    /\ h.bucket \in Seq(Bucket)
    /\ \A b \in DOMAIN h.free_blocks : h.free_blocks[b] \in Seq(Nat)
    /\ Partitioned(h)

LEMMA PartitionedHeap == Partitioned(heap) <=> BlocksPartitioned
  BY SMTT(30) DEF Partitioned, BlocksPartitioned

LEMMA NewHeapSound == SoundHeap(NewHeap) /\ DOMAIN NewHeap.held = {}
  <1>1. NewHeap.bucket = << >> /\ NewHeap.held = << >> /\ NewHeap.free_blocks = << >>
    BY DEF NewHeap
  <1>2. << >> \in Seq(Bucket) /\ DOMAIN << >> = {}
    BY EmptySeq
  <1> QED  BY <1>1, <1>2 DEF SoundHeap, Partitioned

\* What is known of the list of a bucket, if it has one or not.
LEMMA FreeListSound ==
    ASSUME NEW h, SoundHeap(h), NEW b
    PROVE  /\ FreeList(h, b) \in Seq(Nat) /\ IsInjective(FreeList(h, b))
           /\ \A block \in ToSet(FreeList(h, b)) :
                  block \in DOMAIN h.bucket /\ h.bucket[block] = b
  <1>1. CASE b \in DOMAIN h.free_blocks
    BY <1>1 DEF SoundHeap, Partitioned, FreeList
  <1>2. CASE b \notin DOMAIN h.free_blocks
    <2>1. FreeList(h, b) = << >>
      BY <1>2 DEF FreeList
    <2> QED  BY <2>1, EmptyElements, EmptySeq
  <1> QED  BY <1>1, <1>2

\* allocate: a block that was free, or a new one, becomes the tensor's.
LEMMA AllocateSound ==
    ASSUME NEW h, SoundHeap(h), NEW name, name \notin DOMAIN h.held,
           NEW bytes \in Nat, NEW g, g = allocate(h, name, bytes)
    PROVE  SoundHeap(g) /\ DOMAIN g.held = DOMAIN h.held \cup {name}
  <1> DEFINE k == round_size(bytes)
             list == FreeList(h, k)
  <1>k. k \in Bucket
    BY DEF Bucket
  <1>1. /\ list \in Seq(Nat) /\ IsInjective(list)
        /\ \A block \in ToSet(list) : block \in DOMAIN h.bucket /\ h.bucket[block] = k
    BY FreeListSound
  <1>2. /\ h.bucket \in Seq(Bucket)
        /\ \A b \in DOMAIN h.free_blocks : h.free_blocks[b] \in Seq(Nat)
        /\ Partitioned(h)
    BY DEF SoundHeap
  <1>n. Len(h.bucket) \in Nat /\ DOMAIN h.bucket = 1 .. Len(h.bucket)
    BY <1>2, LenProperties
  <1>g. g = IF list # << >>
            THEN [free_blocks |-> WithFreeList(h, k, Front(list)),
                  bucket |-> h.bucket,
                  held |-> WithBlock(h, name, Last(list))]
            ELSE [free_blocks |-> h.free_blocks,
                  bucket |-> Append(h.bucket, k),
                  held |-> WithBlock(h, name, Len(h.bucket) + 1)]
    BY DEF allocate
  <1> HIDE DEF k, list
  <1>3. CASE list # << >>
    <2> DEFINE x == Last(list)
               left == Front(list)
    <2>1. /\ g.free_blocks = WithFreeList(h, k, left) /\ g.bucket = h.bucket
          /\ g.held = WithBlock(h, name, x)
      BY <1>g, <1>3
    <2>2. x \in Nat /\ left \in Seq(Nat) /\ list = left \o << x >>
      BY <1>1, <1>3, FrontBeforeLast
    <2>3. ToSet(list) = ToSet(left) \cup {x}
      BY <1>1, <1>3, EndElements
    <2>4. IsInjective(left) /\ x \notin ToSet(left)
      <3>1. << x >> \in Seq(Nat) /\ ToSet(<< x >>) = {x}
        BY <2>2, Singleton
      <3>2. \A a, b \in Seq(Nat) : IsInjective(a \o b) =>
                IsInjective(a) /\ \A y \in ToSet(a) : y \notin ToSet(b)
        BY ConcatInjective
      <3>3. IsInjective(left \o << x >>)
        BY <1>1, <2>2
      <3> HIDE DEF x, left
      <3>4. IsInjective(left) /\ \A y \in ToSet(left) : y \notin ToSet(<< x >>)
        BY <2>2, <3>1, <3>2, <3>3, Zenon
      <3> QED  BY <3>1, <3>4
    <2>5. /\ DOMAIN g.held = DOMAIN h.held \cup {name} /\ g.held[name] = x
          /\ \A n \in DOMAIN h.held : g.held[n] = h.held[n]
      BY <2>1 DEF WithBlock
    <2>6. /\ DOMAIN g.free_blocks = DOMAIN h.free_blocks \cup {k}
          /\ g.free_blocks[k] = left
          /\ \A b \in DOMAIN h.free_blocks : b # k => g.free_blocks[b] = h.free_blocks[b]
      BY <2>1 DEF WithFreeList
    <2>7. FreeList(g, k) = left /\ \A b : b # k => FreeList(g, b) = FreeList(h, b)
      BY <2>6 DEF FreeList
    <2> HIDE DEF x, left
    <2>8. x \in DOMAIN h.bucket /\ h.bucket[x] = k
      BY <1>1, <2>3
    <2>9. \A n \in DOMAIN h.held : h.held[n] # x
      BY <1>2, <2>3, <2>8 DEF Partitioned, list
    <2>10. \A m, n \in DOMAIN g.held : g.held[m] = g.held[n] => m = n
      BY <1>2, <2>5, <2>9 DEF Partitioned
    <2>11. \A b \in DOMAIN g.free_blocks :
               g.free_blocks[b] \in Seq(Nat) /\ IsInjective(g.free_blocks[b])
      BY <1>2, <2>2, <2>4, <2>6 DEF Partitioned
    <2>12. ASSUME NEW block \in DOMAIN g.bucket
           PROVE  (\E n \in DOMAIN g.held : g.held[n] = block)
                      <=> block \notin ToSet(FreeList(g, g.bucket[block]))
      <3>1. /\ block \in DOMAIN h.bucket /\ g.bucket[block] = h.bucket[block]
            /\ (\E n \in DOMAIN h.held : h.held[n] = block)
                   <=> block \notin ToSet(FreeList(h, h.bucket[block]))
        BY <1>2, <2>1, <2>12 DEF Partitioned
      <3>2. CASE h.bucket[block] = k
        BY <2>3, <2>4, <2>5, <2>7, <3>1, <3>2 DEF list
      <3>3. CASE h.bucket[block] # k
        BY <2>5, <2>7, <2>8, <3>1, <3>3
      <3> QED  BY <3>2, <3>3
    <2>13. \A n \in DOMAIN g.held : g.held[n] \in DOMAIN g.bucket
      BY <1>2, <2>1, <2>5, <2>8 DEF Partitioned
    <2>14. \A b \in DOMAIN g.free_blocks : \A block \in ToSet(g.free_blocks[b]) :
               block \in DOMAIN g.bucket /\ g.bucket[block] = b
      BY <1>1, <1>2, <2>1, <2>3, <2>6 DEF Partitioned
    <2>15. Partitioned(g)
      BY <2>10, <2>11, <2>12, <2>13, <2>14 DEF Partitioned
    <2> QED  BY <1>2, <2>1, <2>5, <2>11, <2>15 DEF SoundHeap
  <1>4. CASE list = << >>
    <2> DEFINE x == Len(h.bucket) + 1
    <2>1. /\ g.free_blocks = h.free_blocks /\ g.bucket = Append(h.bucket, k)
          /\ g.held = WithBlock(h, name, x)
      BY <1>g, <1>4
    <2>2. /\ g.bucket \in Seq(Bucket) /\ DOMAIN g.bucket = DOMAIN h.bucket \cup {x}
          /\ g.bucket[x] = k /\ x \notin DOMAIN h.bucket
          /\ \A block \in DOMAIN h.bucket : g.bucket[block] = h.bucket[block]
      <3>1. /\ g.bucket \in Seq(Bucket) /\ Len(g.bucket) = Len(h.bucket) + 1
            /\ \A i \in 1 .. Len(h.bucket) : g.bucket[i] = h.bucket[i]
            /\ g.bucket[Len(h.bucket) + 1] = k
        <4>1. PICK q, e : q = h.bucket /\ e = k
          OBVIOUS
        <4>2. q \in Seq(Bucket) /\ e \in Bucket
          BY <1>2, <1>k, <4>1
        <4>3. /\ Append(q, e) \in Seq(Bucket) /\ Len(Append(q, e)) = Len(q) + 1
              /\ \A i \in 1 .. Len(q) : Append(q, e)[i] = q[i]
              /\ Append(q, e)[Len(q) + 1] = e
          BY <4>2, AppendProperties
        <4>4. g.bucket = Append(q, e)
          BY <2>1, <4>1
        <4> HIDE DEF k
        <4> QED  BY <4>1, <4>3, <4>4
      <3>2. DOMAIN g.bucket = 1 .. Len(h.bucket) + 1
        BY <3>1, LenProperties
      <3>3. PICK n \in Nat : n = Len(h.bucket)
        BY <1>n
      <3>4. DOMAIN h.bucket = 1 .. n /\ DOMAIN g.bucket = 1 .. n + 1 /\ x = n + 1
        BY <1>n, <3>2, <3>3
      <3>5. 1 .. n + 1 = (1 .. n) \cup {n + 1} /\ n + 1 \notin 1 .. n
        BY SMTT(30)
      <3>6. g.bucket[x] = k /\ \A block \in DOMAIN h.bucket : g.bucket[block] = h.bucket[block]
        BY <3>1, <3>3, <3>4
      <3> HIDE DEF x, k
      <3> QED  BY <3>1, <3>4, <3>5, <3>6
    <2>3. /\ DOMAIN g.held = DOMAIN h.held \cup {name} /\ g.held[name] = x
          /\ \A n \in DOMAIN h.held : g.held[n] = h.held[n]
      BY <2>1 DEF WithBlock
    <2>4. \A b : FreeList(g, b) = FreeList(h, b)
      BY <2>1 DEF FreeList
    <2> HIDE DEF x
    <2>5. \A n \in DOMAIN h.held : h.held[n] # x
      BY <1>2, <2>2 DEF Partitioned
    <2>6. \A m, n \in DOMAIN g.held : g.held[m] = g.held[n] => m = n
      BY <1>2, <2>3, <2>5 DEF Partitioned
    <2>7. ASSUME NEW block \in DOMAIN g.bucket
          PROVE  (\E n \in DOMAIN g.held : g.held[n] = block)
                     <=> block \notin ToSet(FreeList(g, g.bucket[block]))
      <3>1. CASE block = x
        <4>1. x \notin ToSet(FreeList(h, k))
          BY <2>2, FreeListSound
        <4> QED  BY <2>2, <2>3, <2>4, <3>1, <4>1
      <3>2. CASE block # x
        <4>1. /\ block \in DOMAIN h.bucket /\ g.bucket[block] = h.bucket[block]
              /\ (\E n \in DOMAIN h.held : h.held[n] = block)
                     <=> block \notin ToSet(FreeList(h, h.bucket[block]))
          BY <1>2, <2>2, <2>7, <3>2 DEF Partitioned
        <4> QED  BY <2>3, <2>4, <3>2, <4>1
      <3> QED  BY <3>1, <3>2
    <2>8. \A n \in DOMAIN g.held : g.held[n] \in DOMAIN g.bucket
      BY <1>2, <2>2, <2>3 DEF Partitioned
    <2>9. \A b \in DOMAIN g.free_blocks : \A block \in ToSet(g.free_blocks[b]) :
              block \in DOMAIN g.bucket /\ g.bucket[block] = b
      <3>1. \A b \in DOMAIN h.free_blocks : \A block \in ToSet(h.free_blocks[b]) :
                block \in DOMAIN h.bucket /\ h.bucket[block] = b
        BY <1>2 DEF Partitioned
      <3> QED  BY <2>1, <2>2, <3>1, SMTT(30)
    <2>10. Partitioned(g)
      BY <1>2, <2>1, <2>6, <2>7, <2>8, <2>9 DEF Partitioned
    <2> QED  BY <1>2, <2>1, <2>2, <2>3, <2>10 DEF SoundHeap
  <1> QED  BY <1>3, <1>4

\* The blocks that go back to one bucket.
LEMMA ReturnedBlocks ==
    ASSUME NEW h, SoundHeap(h), NEW N, NEW names \in Seq(N), IsInjective(names),
           NEW b, NEW r, r = Returned(h, names, b)
    PROVE  /\ r \in Seq(Nat) /\ IsInjective(r)
           /\ \A block : block \in ToSet(r) <=>
                  \E n \in ToSet(names) \cap DOMAIN h.held :
                      h.held[n] = block /\ h.bucket[block] = b
  <1> DEFINE len == Len(names)
             name(i) == names[len + 1 - i]
             e == [i \in 1 .. len |-> h.held[name(i)]]
             P == { i \in 1 .. len : Holds(h, name(i)) /\ h.bucket[h.held[name(i)]] = b }
             q == [i \in 1 .. len |-> IF i \in P THEN << e[i] >> ELSE << >>]
  <1>n. len \in Nat /\ DOMAIN names = 1 .. len
    BY LenProperties
  <1>i. \A i, j \in 1 .. len : names[i] = names[j] => i = j
    BY <1>n DEF IsInjective
  <1>p. \A i \in 1 .. len : len + 1 - i \in 1 .. len
    BY <1>n
  <1>h. /\ \A n \in DOMAIN h.held : h.held[n] \in DOMAIN h.bucket
        /\ \A m, n \in DOMAIN h.held : h.held[m] = h.held[n] => m = n
    BY DEF SoundHeap, Partitioned
  <1>d. \A block \in DOMAIN h.bucket : block \in Nat
    <2>1. h.bucket \in Seq(Bucket)
      BY DEF SoundHeap
    <2>2. DOMAIN h.bucket = 1 .. Len(h.bucket)
      BY <2>1, LenProperties
    <2> QED  BY <2>2
  <1>1. r = FlattenSeq(q)
    <2>1. q = [i \in DOMAIN names |->
                  LET n == names[Len(names) + 1 - i]
                  IN  IF Holds(h, n) /\ h.bucket[h.held[n]] = b THEN <<h.held[n]>> ELSE << >>]
      <3>1. ASSUME NEW i \in 1 .. len
            PROVE  q[i] = LET n == names[Len(names) + 1 - i]
                          IN  IF Holds(h, n) /\ h.bucket[h.held[n]] = b
                              THEN <<h.held[n]>> ELSE << >>
        OBVIOUS
      <3> QED  BY <1>n, <3>1
    <2> HIDE DEF q
    <2> QED  BY <2>1 DEF Returned
  <1>2. \A i \in 1 .. len : i \in P => e[i] \in Nat
    BY <1>h, <1>d DEF Holds
  <1>3. \A i \in P : name(i) \in DOMAIN h.held /\ e[i] = h.held[name(i)] /\ i \in 1 .. len
    BY DEF Holds
  <1>4. ASSUME NEW i \in P \cap 1 .. len, NEW j \in P \cap 1 .. len, e[i] = e[j]
        PROVE  i = j
    <2>1. name(i) = name(j)
      BY <1>3, <1>4, <1>h
    <2>2. len + 1 - i = len + 1 - j
      BY <1>i, <1>p, <2>1
    <2> QED  BY <1>n, <2>2
  <1>5. q = [i \in 1 .. len |-> IF i \in P THEN << e[i] >> ELSE << >>]
    OBVIOUS
  <1>6. /\ r \in Seq(Nat) /\ IsInjective(r)
        /\ \A x : x \in ToSet(r) <=> \E i \in 1 .. len : i \in P /\ e[i] = x
    <2>1. PICK T, f, p : T = P /\ f = e /\ p = q
      OBVIOUS
    <2>2. q \in Seq(Seq(Nat)) /\ Len(q) = len
      <3>1. q \in [1 .. len -> Seq(Nat)]
        <4>1. ASSUME NEW i \in 1 .. len
              PROVE  q[i] \in Seq(Nat)
          BY <1>2, EmptySeq
        <4> HIDE DEF P, e, len
        <4> QED  BY <4>1
      <3> HIDE DEF q, len
      <3> QED  BY <1>n, <3>1, LenProperties
    <2>3. \A i \in 1 .. len : /\ i \in P => q[i] = << e[i] >>
                              /\ i \notin P => q[i] = << >>
      OBVIOUS
    <2> HIDE DEF q, P, e, len
    <2>4. p \in Seq(Seq(Nat)) /\ Len(p) = len
      BY <2>1, <2>2
    <2>5. \A i \in 1 .. Len(p) : i \in T => f[i] \in Nat /\ p[i] = << f[i] >>
      BY <1>2, <2>1, <2>2, <2>3
    <2>6. \A i \in 1 .. Len(p) : i \notin T => p[i] = << >>
      BY <2>1, <2>2, <2>3
    <2>7. \A i, j \in 1 .. Len(p) : i \in T /\ j \in T /\ f[i] = f[j] => i = j
      BY <1>4, <2>1, <2>2
    <2>8. /\ FlattenSeq(p) \in Seq(Nat) /\ IsInjective(FlattenSeq(p))
          /\ \A x : x \in ToSet(FlattenSeq(p)) <=>
                        \E i \in 1 .. Len(p) : i \in T /\ f[i] = x
      <3>1. Picks(Nat, p, T, f)
        BY <2>4, <2>5, <2>6, <2>7 DEF Picks
      <3> QED  BY <3>1, FlattenPicked
    <2> QED  BY <1>1, <2>1, <2>2, <2>8
  <1>7. ASSUME NEW n \in ToSet(names) \cap DOMAIN h.held, h.bucket[h.held[n]] = b
        PROVE  h.held[n] \in ToSet(r)
    <2>1. PICK k \in 1 .. len : names[k] = n
      BY ElementPositions
    <2>2. len + 1 - k \in 1 .. len /\ len + 1 - (len + 1 - k) = k
      BY <1>n, SMTT(30)
    <2>3. len + 1 - k \in P /\ e[len + 1 - k] = h.held[n]
      BY <1>7, <2>1, <2>2 DEF Holds
    <2> HIDE DEF e, P, len
    <2> QED  BY <1>6, <2>2, <2>3
  <1>8. ASSUME NEW block \in ToSet(r)
        PROVE  \E n \in ToSet(names) \cap DOMAIN h.held :
                   h.held[n] = block /\ h.bucket[block] = b
    <2>1. PICK i \in P : e[i] = block
      BY <1>6
    <2>2. name(i) \in DOMAIN h.held /\ h.held[name(i)] = block /\ h.bucket[block] = b
      BY <1>3, <2>1
    <2>3. name(i) \in ToSet(names)
      BY <1>n, <1>p DEF ToSet
    <2> QED  BY <2>2, <2>3
  <1> QED  BY <1>6, <1>7, <1>8

\* return_blocks: every block of a tensor that goes is free again.
LEMMA ReturnSound ==
    ASSUME NEW h, SoundHeap(h), NEW N, NEW names \in Seq(N), IsInjective(names),
           NEW g, g = return_blocks(h, names)
    PROVE  SoundHeap(g) /\ DOMAIN g.held = DOMAIN h.held \ ToSet(names)
  <1> DEFINE gone == ToSet(names) \cap DOMAIN h.held
             Back(b) == Returned(h, names, b)
  <1>1. /\ h.bucket \in Seq(Bucket)
        /\ \A b \in DOMAIN h.free_blocks : h.free_blocks[b] \in Seq(Nat)
        /\ Partitioned(h)
    BY DEF SoundHeap
  <1>2. /\ g.bucket = h.bucket
        /\ DOMAIN g.held = DOMAIN h.held \ gone
        /\ \A n \in DOMAIN g.held : g.held[n] = h.held[n]
        /\ DOMAIN g.free_blocks = DOMAIN h.free_blocks \cup { h.bucket[h.held[n]] : n \in gone }
        /\ \A b \in DOMAIN g.free_blocks : g.free_blocks[b] = FreeList(h, b) \o Back(b)
    BY DEF return_blocks
  <1>3. \A b : /\ Back(b) \in Seq(Nat) /\ IsInjective(Back(b))
               /\ \A block : block \in ToSet(Back(b)) <=>
                      \E n \in gone : h.held[n] = block /\ h.bucket[block] = b
    BY ReturnedBlocks
  <1>4. \A b : /\ FreeList(h, b) \in Seq(Nat) /\ IsInjective(FreeList(h, b))
               /\ \A block \in ToSet(FreeList(h, b)) :
                      block \in DOMAIN h.bucket /\ h.bucket[block] = b
    BY FreeListSound
  <1> HIDE DEF gone, Back
  <1>5. \A n \in DOMAIN h.held : h.held[n] \in DOMAIN h.bucket
    BY <1>1 DEF Partitioned
  <1>6. \A block \in DOMAIN h.bucket :
            (\E n \in DOMAIN h.held : h.held[n] = block)
                <=> block \notin ToSet(FreeList(h, h.bucket[block]))
    BY <1>1 DEF Partitioned
  <1>7. \A b, block : block \in ToSet(FreeList(h, b)) => block \notin ToSet(Back(b))
    <2> SUFFICES ASSUME NEW b, NEW block \in ToSet(FreeList(h, b)), block \in ToSet(Back(b))
                 PROVE  FALSE
      OBVIOUS
    <2>1. block \in DOMAIN h.bucket /\ h.bucket[block] = b
      BY <1>4
    <2>2. \E n \in DOMAIN h.held : h.held[n] = block
      BY <1>3 DEF gone
    <2> QED  BY <1>6, <2>1, <2>2
  <1>8. ASSUME NEW b \in DOMAIN g.free_blocks
        PROVE  /\ g.free_blocks[b] \in Seq(Nat) /\ IsInjective(g.free_blocks[b])
               /\ ToSet(g.free_blocks[b]) = ToSet(FreeList(h, b)) \cup ToSet(Back(b))
    <2>1. PICK l \in Seq(Nat) : l = FreeList(h, b)
      BY <1>4
    <2>2. PICK r \in Seq(Nat) : r = Back(b)
      BY <1>3
    <2>3. /\ IsInjective(l) /\ IsInjective(r) /\ \A x \in ToSet(l) : x \notin ToSet(r)
      BY <1>3, <1>4, <1>7, <2>1, <2>2
    <2>4. IsInjective(l \o r)
      BY <2>3, ConcatInjective
    <2>5. ToSet(l \o r) = ToSet(l) \cup ToSet(r) /\ l \o r \in Seq(Nat)
      BY ConcatElements, ConcatProperties
    <2>6. g.free_blocks[b] = l \o r
      BY <1>2, <2>1, <2>2
    <2> QED  BY <2>1, <2>2, <2>4, <2>5, <2>6
  <1>9. ASSUME NEW b
        PROVE  ToSet(FreeList(g, b)) = ToSet(FreeList(h, b)) \cup ToSet(Back(b))
    <2>1. CASE b \in DOMAIN g.free_blocks
      BY <1>8, <2>1 DEF FreeList
    <2>2. CASE b \notin DOMAIN g.free_blocks
      <3>1. FreeList(g, b) = << >> /\ FreeList(h, b) = << >>
        BY <1>2, <2>2 DEF FreeList
      <3>2. \A n \in gone : h.bucket[h.held[n]] # b
        BY <1>2, <2>2
      <3>3. ToSet(Back(b)) = {}
        BY <1>3, <3>2, SMTT(30)
      <3> QED  BY <3>1, <3>3, EmptyElements
    <2> QED  BY <2>1, <2>2
  <1>10. \A m, n \in DOMAIN g.held : g.held[m] = g.held[n] => m = n
    BY <1>1, <1>2 DEF Partitioned
  <1>11. ASSUME NEW block \in DOMAIN g.bucket
         PROVE  (\E n \in DOMAIN g.held : g.held[n] = block)
                    <=> block \notin ToSet(FreeList(g, g.bucket[block]))
    <2> DEFINE b == h.bucket[block]
    <2>1. /\ block \in DOMAIN h.bucket /\ g.bucket[block] = b
          /\ (\E n \in DOMAIN h.held : h.held[n] = block)
                 <=> block \notin ToSet(FreeList(h, b))
      BY <1>2, <1>6, <1>11
    <2>2. block \in ToSet(FreeList(g, b)) <=>
              block \in ToSet(FreeList(h, b)) \/ block \in ToSet(Back(b))
      BY <1>9
    <2>3. block \in ToSet(Back(b)) <=> \E n \in gone : h.held[n] = block
      BY <1>3
    <2>4. \A m, n \in DOMAIN h.held : h.held[m] = h.held[n] => m = n
      BY <1>1 DEF Partitioned
    <2>5. gone \subseteq DOMAIN h.held
      BY DEF gone
    <2> HIDE DEF b
    <2>6. ASSUME NEW n \in DOMAIN g.held, g.held[n] = block
          PROVE  block \notin ToSet(FreeList(g, b))
      <3>1. n \in DOMAIN h.held /\ n \notin gone /\ h.held[n] = block
        BY <1>2, <2>6
      <3> QED  BY <2>1, <2>2, <2>3, <2>4, <2>5, <3>1
    <2>7. ASSUME block \notin ToSet(FreeList(g, b))
          PROVE  \E n \in DOMAIN g.held : g.held[n] = block
      <3>1. PICK n \in DOMAIN h.held : h.held[n] = block
        BY <2>1, <2>2, <2>7
      <3>2. n \notin gone
        BY <2>2, <2>3, <2>7, <3>1
      <3> QED  BY <1>2, <3>1, <3>2
    <2> QED  BY <2>1, <2>6, <2>7
  <1>12. \A n \in DOMAIN g.held : g.held[n] \in DOMAIN g.bucket
    BY <1>2, <1>5
  <1>13. ASSUME NEW b \in DOMAIN g.free_blocks, NEW block \in ToSet(g.free_blocks[b])
         PROVE  block \in DOMAIN g.bucket /\ g.bucket[block] = b
    <2>1. CASE block \in ToSet(FreeList(h, b))
      BY <1>2, <1>4, <2>1
    <2>2. CASE block \in ToSet(Back(b))
      <3>1. PICK n \in gone : h.held[n] = block /\ h.bucket[block] = b
        BY <1>3, <2>2
      <3> QED  BY <1>2, <1>5, <3>1 DEF gone
    <2> QED  BY <1>8, <2>1, <2>2
  <1>14. Partitioned(g)
    BY <1>8, <1>10, <1>11, <1>12, <1>13 DEF Partitioned
  <1>15. DOMAIN g.held = DOMAIN h.held \ ToSet(names)
    BY <1>2 DEF gone
  <1> QED  BY <1>1, <1>2, <1>8, <1>14, <1>15 DEF SoundHeap

-----------------------------------------------------------------------------
(* Pinned staging *)

SoundStaging(p) ==
    /\ p \in [bytes : Nat, offset : Nat, generation : Nat]
    /\ p.offset <= p.bytes
    /\ p.generation > 0 => p.bytes > 0

LEMMA AlignedBytes ==
    ASSUME NEW bytes \in Nat \ {0}
    PROVE  Aligned(bytes) \in Nat /\ Aligned(bytes) >= bytes
  BY DEF Aligned, CeilTo

\* Doubling reaches any size, whatever it starts from.
LEMMA Doubling ==
    ASSUME NEW first \in Nat \ {0}, NEW needed \in Nat
    PROVE  LET doubled[i \in 0 .. needed] == IF i = 0 THEN first ELSE 2 * doubled[i - 1]
               size == doubled[CHOOSE i \in 0 .. needed :
                                  /\ doubled[i] >= needed
                                  /\ \A j \in 0 .. i - 1 : doubled[j] < needed]
           IN  size \in Nat /\ size > 0 /\ size >= needed
  <1> DEFINE Loop(h) == h = [i \in 0 .. needed |-> IF i = 0 THEN first ELSE 2 * h[i - 1]]
             f == CHOOSE h : Loop(h)
             step == [k \in 1 .. needed |-> [v \in Nat |-> 2 * v]]
             Least(i) == /\ f[i] >= needed
                         /\ \A j \in 0 .. i - 1 : f[j] < needed
             i0 == CHOOSE i \in 0 .. needed : Least(i)
  <1>1. PICK g \in [0 .. needed -> Nat] :
            g[0] = first /\ \A k \in 1 .. needed : g[k] = 2 * g[k - 1]
    <2>1. step \in [1 .. needed -> [Nat -> Nat]]
      OBVIOUS
    <2>2. LoopFunctions(Nat, first, needed, step) # {}
      <3> HIDE DEF step
      <3> QED  BY <2>1, LoopFunction
    <2>3. PICK g \in [0 .. needed -> Nat] :
              g[0] = first /\ \A k \in 1 .. needed : g[k] = step[k][g[k - 1]]
      <3> HIDE DEF step
      <3> QED  BY <2>2 DEF LoopFunctions
    <2>4. \A k \in 1 .. needed : g[k - 1] \in Nat
      OBVIOUS
    <2> QED  BY <2>3, <2>4
  <1>2. Loop(g)
    <2>1. \A i \in 0 .. needed : g[i] = IF i = 0 THEN first ELSE 2 * g[i - 1]
      BY <1>1
    <2> QED  BY <2>1
  <1>3. Loop(f)
    <2> HIDE DEF Loop
    <2> QED  BY <1>2
  <1> HIDE DEF f
  <1>4. /\ f[0] = first
        /\ \A k \in 1 .. needed : f[k] = 2 * f[k - 1]
    <2>1. \A i \in 0 .. needed : f[i] = IF i = 0 THEN first ELSE 2 * f[i - 1]
      BY <1>3
    <2>2. 0 \in 0 .. needed /\ \A k \in 1 .. needed : k \in 0 .. needed /\ k # 0
      OBVIOUS
    <2> HIDE DEF Loop
    <2> QED  BY <2>1, <2>2
  <1> HIDE DEF Loop
  <1> DEFINE T == { k \in 0 .. needed : f[k] \in Nat /\ f[k] >= k + 1 }
  <1>5. 0 .. needed \subseteq T
    <2>1. 0 \in T
      <3>1. 0 \in 0 .. needed /\ f[0] >= 0 + 1 /\ f[0] \in Nat
        BY <1>4
      <3> QED  BY <3>1
    <2>2. ASSUME NEW k \in 1 .. needed, k - 1 \in T
          PROVE  k \in T
      <3>1. f[k - 1] \in Nat /\ f[k - 1] >= k /\ k \in 0 .. needed
        BY <2>2
      <3>2. f[k] = 2 * f[k - 1]
        BY <1>4
      <3>3. PICK v \in Nat : v = f[k - 1]
        BY <3>1
      <3>4. f[k] \in Nat /\ f[k] >= k + 1
        <4>0. v \in Nat /\ v >= k /\ k \in Nat /\ k >= 1
          BY <3>1, <3>3
        <4>1. 2 * v \in Nat /\ 2 * v >= k + 1
          BY <4>0
        <4> HIDE DEF T, Loop, Least, step
        <4> QED  BY <3>2, <3>3, <4>1
      <3> QED  BY <3>1, <3>4
    <2> HIDE DEF T
    <2> QED  BY <2>1, <2>2, LoopInduction
  <1>6. \E i \in 0 .. needed : Least(i)
    <2> DEFINE Enough == { i \in 0 .. needed : f[i] >= needed }
    <2>1. needed \in Enough
      <3>1. needed \in T
        <4>1. needed \in 0 .. needed
          OBVIOUS
        <4> HIDE DEF T
        <4> QED  BY <1>5, <4>1
      <3> QED  BY <3>1
    <2>2. PICK i \in Enough : \A m \in Enough : i <= m
      <3>1. Enough \subseteq 0 .. needed /\ 0 .. needed \subseteq Nat
        OBVIOUS
      <3> HIDE DEF Enough
      <3>2. Enough \subseteq Nat /\ Enough # {}
        BY <2>1, <3>1
      <3> QED  BY <3>2, LeastNatural
    <2>3. ASSUME NEW j \in 0 .. i - 1
          PROVE  f[j] < needed
      <3>1. i \in 0 .. needed
        BY <2>2
      <3>2. j \in 0 .. needed /\ ~(i <= j)
        BY <3>1
      <3>3. j \notin Enough
        <4> HIDE DEF Enough
        <4> QED  BY <2>2, <3>2
      <3>4. j \in T
        <4> HIDE DEF T
        <4> QED  BY <1>5, <3>2
      <3>5. f[j] \in Nat /\ ~(f[j] >= needed)
        BY <3>2, <3>3, <3>4
      <3>6. PICK v \in Nat : v = f[j]
        BY <3>5
      <3> HIDE DEF T, Enough
      <3> QED  BY <3>5, <3>6, SMTT(30)
    <2> QED  BY <2>2, <2>3
  <1>7. i0 \in 0 .. needed /\ Least(i0)
    <2> HIDE DEF Least
    <2> QED  BY <1>6
  <1> HIDE DEF i0
  <1>8. f[i0] \in Nat /\ f[i0] > 0 /\ f[i0] >= needed
    <2>1. PICK k \in 0 .. needed : k = i0
      BY <1>7
    <2>2. k \in T
      <3> HIDE DEF T
      <3> QED  BY <1>5
    <2>3. f[k] \in Nat /\ f[k] >= k + 1
      BY <2>2
    <2>4. PICK v \in Nat : v = f[k]
      BY <2>3
    <2>5. v > 0
      BY <2>3, <2>4, SMTT(30)
    <2>6. v >= needed
      BY <1>7, <2>1, <2>4
    <2> HIDE DEF T, Least
    <2> QED  BY <2>1, <2>4, <2>5, <2>6
  <1> QED  BY <1>8 DEF f, i0, Loop

LEMMA PinnedAllocSound ==
    ASSUME NEW p, SoundStaging(p), NEW bytes \in Nat \ {0},
           NEW q, q = pinned_alloc(p, bytes).staging,
           NEW at, at = pinned_alloc(p, bytes).at
    PROVE  /\ SoundStaging(q) /\ at \in Nat /\ at < q.bytes
           /\ ~Grows(p, bytes) => q.bytes = p.bytes
  <1> DEFINE first == IF p.generation = 0 THEN StagingBytes ELSE 2 * p.bytes
             needed == p.offset + Aligned(bytes)
  <1>1. Aligned(bytes) \in Nat /\ Aligned(bytes) >= 1
    BY AlignedBytes
  <1>2. /\ p \in [bytes : Nat, offset : Nat, generation : Nat] /\ p.offset <= p.bytes
        /\ p.generation > 0 => p.bytes > 0
    BY DEF SoundStaging
  <1>3. first \in Nat \ {0} /\ needed \in Nat
    <2>1. p.generation # 0 => p.generation > 0
      BY <1>2
    <2>2. p.generation = 0 => first = StagingBytes
      OBVIOUS
    <2>3. p.generation # 0 => first = 2 * p.bytes /\ p.bytes \in Nat /\ p.bytes > 0
      BY <1>2, <2>1
    <2>4. StagingBytes \in Nat \ {0}
      BY AllocatorAssumption
    <2>5. needed \in Nat
      BY <1>1, <1>2, SMTT(30)
    <2> HIDE DEF first, needed
    <2>6. ASSUME p.generation # 0
          PROVE  first \in Nat \ {0}
      <3>1. PICK v \in Nat : v = p.bytes
        BY <2>3, <2>6
      <3> QED  BY <2>3, <2>6, <3>1, SMTT(30)
    <2> QED  BY <2>2, <2>4, <2>5, <2>6
  <1>4. GrownBytes(p, bytes) \in Nat /\ GrownBytes(p, bytes) > 0
        /\ GrownBytes(p, bytes) >= needed
    <2>1. PICK n, m : n = first /\ m = needed
      OBVIOUS
    <2>2. n \in Nat \ {0} /\ m \in Nat
      BY <1>3, <2>1
    <2> DEFINE Size(a, b) == LET doubled[i \in 0 .. b] == IF i = 0 THEN a ELSE 2 * doubled[i - 1]
                             IN  doubled[CHOOSE i \in 0 .. b :
                                            /\ doubled[i] >= b
                                            /\ \A j \in 0 .. i - 1 : doubled[j] < b]
    <2>3. GrownBytes(p, bytes) = Size(first, needed)
      BY DEF GrownBytes
    <2>4. Size(n, m) \in Nat /\ Size(n, m) > 0 /\ Size(n, m) >= m
      BY <2>2, Doubling
    <2> HIDE DEF first, needed, Size
    <2> QED  BY <2>1, <2>3, <2>4
  <1>5. CASE Grows(p, bytes)
    <2>1. /\ q = [bytes |-> GrownBytes(p, bytes), offset |-> Aligned(bytes),
                  generation |-> p.generation + 1]
          /\ at = 0
      BY <1>1, <1>5, SMTT(30) DEF pinned_alloc
    <2> HIDE DEF first
    <2> QED  BY <1>1, <1>2, <1>4, <1>5, <2>1, SMTT(30) DEF SoundStaging
  <1>6. CASE ~Grows(p, bytes)
    <2>1. /\ q = [p EXCEPT !.offset = @ + Aligned(bytes)] /\ at = p.offset
          /\ p.generation # 0 /\ ~(needed > p.bytes)
      BY <1>6 DEF pinned_alloc, Grows
    <2>2. /\ q.bytes = p.bytes /\ q.offset = needed /\ q.generation = p.generation
          /\ q \in [bytes : Nat, offset : Nat, generation : Nat]
      <3>1. p.offset + Aligned(bytes) \in Nat
        BY <1>1, <1>2, SMTT(30)
      <3> HIDE DEF first
      <3> QED  BY <1>2, <2>1, <3>1
    <2>3. needed <= p.bytes /\ p.offset < p.bytes
      <3>1. PICK a, o, b \in Nat : a = Aligned(bytes) /\ o = p.offset /\ b = p.bytes
        BY <1>1, <1>2
      <3>2. ~(o + a > b) /\ a >= 1
        BY <1>1, <2>1, <3>1
      <3>3. o + a <= b /\ o < b
        BY <3>2
      <3> QED  BY <3>1, <3>3
    <2> HIDE DEF first, needed
    <2> QED  BY <1>1, <1>2, <1>3, <2>1, <2>2, <2>3 DEF SoundStaging
  <1> QED  BY <1>5, <1>6

-----------------------------------------------------------------------------
(* The inputs of a run *)

InputNames == { "input_ids", "positions", "cu_seqlens_q", "cu_seqlens_k",
                "slot_mapping", "packed", "block_tables" }
SampleNames == { "temperatures", "top_ks", "top_ps" }
GraphNames == { "g_input_ids", "g_positions", "g_slot_mapping", "g_context_lens",
                "g_block_tables" }
LayerNames == { "hidden", "qkv", "attended", "softmax_lse", "last", "logits", "output" }
RunNames == InputNames \cup SampleNames \cup LayerNames

\* Tensors to allocate one after the other: each has a name of its own and
\* some bytes.
SoundTodo(todo, names) ==
    /\ todo \in Seq(ToSet(todo))
    /\ \A i \in 1 .. Len(todo) : todo[i].name \in names /\ todo[i].bytes \in Nat \ {0}
    /\ \A i, j \in 1 .. Len(todo) : todo[i].name = todo[j].name => i = j

SeqsTypeOK ==
    /\ seqs \in [SeqId -> [status : {"waiting", "running", "gone"}, len : 1 .. MaxLen,
                           cached : Nat]]
    /\ \A s \in SeqId : seqs[s].cached < seqs[s].len

BatchOK == runner.batch \in Seq(SeqId) /\ runner.batch # << >>

LEMMA SequenceOfElements ==
    ASSUME NEW S, NEW q \in Seq(S)
    PROVE  q \in Seq(ToSet(q))
  <1>1. Len(q) \in Nat /\ DOMAIN q = 1 .. Len(q) /\ q = [i \in 1 .. Len(q) |-> q[i]]
    BY LenProperties
  <1>2. \A i \in 1 .. Len(q) : q[i] \in ToSet(q)
    BY ElementPositions
  <1>3. PICK n \in Nat : n = Len(q)
    BY <1>1
  <1>4. q = [i \in 1 .. n |-> q[i]] /\ \A i \in 1 .. n : q[i] \in ToSet(q)
    BY <1>1, <1>2, <1>3
  <1>5. PICK T : T = ToSet(q)
    OBVIOUS
  <1>6. q \in [1 .. n -> T]
    BY <1>4, <1>5
  <1> QED  BY <1>5, <1>6, FunctionSequence

LEMMA TodoHead ==
    ASSUME NEW todo, NEW names, SoundTodo(todo, names), todo # << >>
    PROVE  /\ Head(todo).name \in names /\ Head(todo).bytes \in Nat \ {0}
           /\ SoundTodo(Tail(todo), names)
           /\ \A i \in 1 .. Len(Tail(todo)) :
                  /\ Tail(todo)[i].name # Head(todo).name
                  /\ \E j \in 1 .. Len(todo) : Tail(todo)[i] = todo[j]
           /\ \E j \in 1 .. Len(todo) : Head(todo) = todo[j]
  <1> DEFINE t == Tail(todo)
  <1>1. /\ todo \in Seq(ToSet(todo)) /\ Len(todo) \in Nat /\ Len(todo) >= 1
        /\ Head(todo) = todo[1]
    BY EmptySeq, LenProperties DEF SoundTodo
  <1>2. /\ t \in Seq(ToSet(todo)) /\ Len(t) = Len(todo) - 1
        /\ \A i \in 1 .. Len(t) : t[i] = todo[i + 1]
    BY <1>1, HeadTailProperties DEF SoundTodo
  <1> HIDE DEF t
  <1>3. \A i \in 1 .. Len(t) : i + 1 \in 1 .. Len(todo) /\ i + 1 # 1
    BY <1>1, <1>2
  <1>4. 1 \in 1 .. Len(todo)
    BY <1>1
  <1>5. t \in Seq(ToSet(t))
    BY <1>2, SequenceOfElements
  <1>6. \A i, j \in 1 .. Len(t) : t[i].name = t[j].name => i = j
    <2> SUFFICES ASSUME NEW i \in 1 .. Len(t), NEW j \in 1 .. Len(t), t[i].name = t[j].name
                 PROVE  i = j
      OBVIOUS
    <2>1. i + 1 = j + 1
      BY <1>2, <1>3, ZenonT(60) DEF SoundTodo
    <2> QED  BY <1>1, <1>2, <2>1
  <1>7. SoundTodo(t, names)
    BY <1>2, <1>3, <1>5, <1>6 DEF SoundTodo
  <1> QED  BY <1>1, <1>2, <1>3, <1>4, <1>7 DEF SoundTodo, t

LEMMA PositiveProduct ==
    ASSUME NEW a \in Nat \ {0}, NEW b \in Nat \ {0}
    PROVE  a * b \in Nat \ {0}
  OBVIOUS

LEMMA WholeBlocks ==
    ASSUME NEW n \in Nat \ {0}, NEW b \in Nat \ {0}
    PROVE  /\ (n + b - 1) \div b \in Nat \ {0} /\ (n + b - 1) \div b <= n + b
  <1>1. PICK m \in Nat : m = n + b - 1
    OBVIOUS
  <1>2. m \div b \in Nat /\ m \div b <= m
    BY Quotient, SMTT(30)
  <1>3. b * 1 <= m <=> 1 <= m \div b
    BY Quotient
  <1>4. b * 1 = b /\ b <= m /\ m <= n + b
    BY <1>1
  <1>5. PICK d \in Nat : d = m \div b
    BY <1>2
  <1>6. d \in Nat \ {0} /\ d <= n + b
    BY <1>2, <1>3, <1>4, <1>5
  <1> QED  BY <1>1, <1>5, <1>6

LEMMA QueryLength ==
    ASSUME SeqsTypeOK, NEW s \in SeqId
    PROVE  /\ query_begin(s) \in Nat /\ query_len(s) \in Nat \ {0}
           /\ seqs[s].len \in Nat \ {0} /\ query_begin(s) < seqs[s].len
  BY DEF SeqsTypeOK, query_begin, query_len

\* A batch computes at least one row.
LEMMA RowsOfBatch ==
    ASSUME SeqsTypeOK, BatchOK
    PROVE  Rows \in Seq(SeqId \X Nat) /\ Len(Rows) \in Nat \ {0}
  <1> DEFINE R == SeqId \X Nat
             part(s) == [k \in 1 .. query_len(s) |-> <<s, query_begin(s) + k - 1>>]
             q == [i \in DOMAIN runner.batch |-> part(runner.batch[i])]
  <1>1. /\ Len(runner.batch) \in Nat /\ DOMAIN runner.batch = 1 .. Len(runner.batch)
        /\ Len(runner.batch) >= 1 /\ \A i \in 1 .. Len(runner.batch) : runner.batch[i] \in SeqId
    BY LenProperties, EmptySeq, ElementOfSeq DEF BatchOK
  <1>2. ASSUME NEW s \in SeqId
        PROVE  part(s) \in Seq(R) /\ Len(part(s)) = query_len(s)
    <2>1. query_len(s) \in Nat /\ query_begin(s) \in Nat
      BY QueryLength
    <2>2. \A k \in 1 .. query_len(s) : query_begin(s) + k - 1 \in Nat
      BY <2>1
    <2>3. part(s) \in [1 .. query_len(s) -> R]
      BY <2>2
    <2> HIDE DEF R, part
    <2> QED  BY <2>1, <2>3, FunctionSequence
  <1>3. Rows = FlattenSeq(q)
    BY DEF Rows
  <1>4. q \in Seq(Seq(R)) /\ Len(q) = Len(runner.batch)
    <2>1. q \in [1 .. Len(runner.batch) -> Seq(R)]
      <3> HIDE DEF R, part
      <3> QED  BY <1>1, <1>2
    <2> HIDE DEF q, R
    <2> QED  BY <1>1, <2>1, FunctionSequence
  <1>5. Len(q[1]) \in Nat /\ Len(q[1]) >= 1
    <2>1. q[1] = part(runner.batch[1]) /\ runner.batch[1] \in SeqId
      <3> HIDE DEF part
      <3> QED  BY <1>1
    <2>2. query_len(runner.batch[1]) \in Nat \ {0}
      BY <2>1, QueryLength
    <2> HIDE DEF q, R, part
    <2> QED  BY <1>2, <2>1, <2>2
  <1> HIDE DEF q, R
  <1>6. PICK p \in Seq(Seq(R)) : p = q
    BY <1>4
  <1>7. Len(p) >= 1 /\ Len(p) \in Nat /\ Len(p[1]) \in Nat /\ Len(p[1]) >= 1 /\ p # << >>
    BY <1>1, <1>4, <1>5, <1>6, EmptySeq
  <1>8. PICK g \in [0 .. Len(p) -> Seq(R)] :
            /\ g[0] = << >> /\ FlattenSeq(p) = g[Len(p)]
            /\ \A i \in 1 .. Len(p) : g[i] = g[i - 1] \o p[i]
    BY <1>7, FlattenLoop
  <1>9. FlattenSeq(p) \in Seq(R)
    <2>1. Len(p) \in 0 .. Len(p)
      BY <1>7
    <2> QED  BY <1>8, <2>1
  <1>10. 1 \in DOMAIN FlattenSeq(p)
    <2> DEFINE f == [j \in 1 .. Len(p) |-> Len(p[j])]
    <2>1. SumFunctionOnSet(f, 1 .. 1 - 1) = 0
      <3>1. 1 .. 1 - 1 = {}
        OBVIOUS
      <3> QED  BY <3>1, SumEmpty
    <2>2. \A j \in 1 .. Len(p) : f[j] = Len(p[j])
      OBVIOUS
    <2>3. 1 \in 1 .. Len(p) /\ 1 \in 1 .. Len(p[1])
      BY <1>7
    <2> HIDE DEF f
    <2>4. SumFunctionOnSet(f, 1 .. 1 - 1) + 1 \in DOMAIN FlattenSeq(p)
      BY <2>2, <2>3, FlattenElement
    <2>5. SumFunctionOnSet(f, 1 .. 1 - 1) + 1 = 1
      BY <2>1
    <2> QED  BY <2>4, <2>5
  <1>11. Len(FlattenSeq(p)) \in Nat /\ Len(FlattenSeq(p)) >= 1
    BY <1>9, <1>10, LenProperties
  <1> QED  BY <1>3, <1>6, <1>9, <1>11 DEF R

LEMMA TableLength ==
    ASSUME SeqsTypeOK, NEW s \in SeqId
    PROVE  /\ Len(block_table(s)) = (seqs[s].len + BLOCK_SIZE - 1) \div BLOCK_SIZE
           /\ Len(block_table(s)) \in Nat \ {0}
           /\ Len(block_table(s)) <= MaxLen + BLOCK_SIZE
           /\ DOMAIN block_table(s) = 1 .. Len(block_table(s))
           /\ \A i \in 1 .. Len(block_table(s)) :
                  block_table(s)[i] = (s - 1) * MaxBlocks + i - 1
  <1> DEFINE n == (seqs[s].len + BLOCK_SIZE - 1) \div BLOCK_SIZE
             f == [i \in 1 .. n |-> (s - 1) * MaxBlocks + i - 1]
             S == { f[i] : i \in 1 .. n }
  <1>1. seqs[s].len \in Nat \ {0} /\ seqs[s].len <= MaxLen /\ BLOCK_SIZE \in Nat \ {0}
        /\ MaxLen \in Nat
    BY DEF SeqsTypeOK
  <1>2. n \in Nat \ {0} /\ n <= seqs[s].len + BLOCK_SIZE
    BY <1>1, WholeBlocks
  <1>3. block_table(s) = f
    BY DEF block_table
  <1>4. Len(f) = n /\ DOMAIN f = 1 .. n
    <2>1. f \in [1 .. n -> S]
      OBVIOUS
    <2> HIDE DEF f, n, S
    <2> QED  BY <1>2, <2>1, FunctionSequence
  <1>5. n <= MaxLen + BLOCK_SIZE
    <2> HIDE DEF n
    <2> QED  BY <1>1, <1>2, SMTT(30)
  <1>6. \A i \in 1 .. n : f[i] = (s - 1) * MaxBlocks + i - 1
    OBVIOUS
  <1> HIDE DEF f
  <1>7. /\ Len(f) = n /\ n \in Nat \ {0} /\ n <= MaxLen + BLOCK_SIZE
        /\ DOMAIN f = 1 .. Len(f)
        /\ \A i \in 1 .. Len(f) : f[i] = (s - 1) * MaxBlocks + i - 1
    BY <1>2, <1>4, <1>5, <1>6
  <1> QED  BY <1>3, <1>7

LEMMA WidestTable ==
    ASSUME SeqsTypeOK, BatchOK
    PROVE  /\ max_blocks \in Nat \ {0}
           /\ \A s \in ToSet(runner.batch) : Len(block_table(s)) <= max_blocks
  <1> DEFINE S == { Len(block_table(s)) : s \in ToSet(runner.batch) }
             b == MaxLen + BLOCK_SIZE
  <1>1. ToSet(runner.batch) \subseteq SeqId /\ ToSet(runner.batch) # {}
    <2>1. Len(runner.batch) \in Nat /\ Len(runner.batch) >= 1
      BY LenProperties, EmptySeq DEF BatchOK
    <2>2. 1 \in 1 .. Len(runner.batch)
      BY <2>1
    <2> QED  BY <2>2, ElementPositions DEF BatchOK
  <1>2. b \in Nat
    OBVIOUS
  <1>3. \A s \in SeqId : Len(block_table(s)) \in 0 .. b
    <2> TAKE s \in SeqId
    <2>1. Len(block_table(s)) \in Nat /\ Len(block_table(s)) <= b
      BY TableLength
    <2> HIDE DEF b
    <2> QED  BY <1>2, <2>1
  <1>4. S \subseteq 0 .. b /\ S # {} /\ \A x \in S : x # 0
    <2>1. \A s \in SeqId : Len(block_table(s)) # 0
      BY TableLength
    <2> HIDE DEF b
    <2> QED  BY <1>1, <1>3, <2>1
  <1>5. max_blocks = Max(S)
    BY DEF max_blocks
  <1>6. Max(S) \in S /\ \A x \in S : x <= Max(S)
    <2> HIDE DEF S, b
    <2> QED  BY <1>2, <1>4, MaxBounded
  <1>7. max_blocks \in Nat \ {0}
    <2> HIDE DEF S, b
    <2>1. PICK m : m = Max(S)
      OBVIOUS
    <2>2. m \in 0 .. b /\ m # 0
      BY <1>4, <1>6, <2>1
    <2> QED  BY <1>2, <1>5, <2>1, <2>2
  <1> QED  BY <1>5, <1>6, <1>7

\* Sums of so many lengths, and nothing before the first.
LEMMA SumsLength ==
    ASSUME NEW n \in Nat, NEW f \in [1 .. n -> Nat]
    PROVE  Len(Sums(f)) = n + 1
  <1>1. Len(f) = n
    BY FunctionSequence
  <1> DEFINE g == Sums(f)
             S == { g[i] : i \in 1 .. n + 1 }
  <1>2. g = [i \in 1 .. n + 1 |-> SumFunctionOnSet(f, 1 .. i - 1)]
    BY <1>1 DEF Sums
  <1> HIDE DEF g
  <1>3. g \in [1 .. n + 1 -> S]
    BY <1>2
  <1> HIDE DEF S
  <1>4. Len(g) = n + 1
    <2>1. n + 1 \in Nat
      OBVIOUS
    <2> QED  BY <1>3, <2>1, FunctionSequence
  <1> QED  BY <1>4 DEF g

LEMMA BatchPositions ==
    ASSUME BatchOK
    PROVE  /\ Len(runner.batch) \in Nat \ {0}
           /\ DOMAIN runner.batch = 1 .. Len(runner.batch)
           /\ \A i \in 1 .. Len(runner.batch) : runner.batch[i] \in SeqId
  BY LenProperties, EmptySeq, ElementOfSeq DEF BatchOK

LEMMA CumulativeLengths ==
    ASSUME SeqsTypeOK, BatchOK
    PROVE  /\ Len(cu_seqlens_q) = Len(runner.batch) + 1
           /\ Len(cu_seqlens_k) = Len(runner.batch) + 1
  <1> DEFINE n == Len(runner.batch)
             q == [i \in DOMAIN runner.batch |-> query_len(runner.batch[i])]
             k == [i \in DOMAIN runner.batch |-> seqs[runner.batch[i]].len]
  <1>1. /\ n \in Nat /\ DOMAIN runner.batch = 1 .. n
        /\ \A i \in 1 .. n : runner.batch[i] \in SeqId
    BY BatchPositions
  <1>2. q \in [1 .. n -> Nat] /\ k \in [1 .. n -> Nat]
    <2>1. \A i \in 1 .. n : /\ query_len(runner.batch[i]) \in Nat
                             /\ seqs[runner.batch[i]].len \in Nat
      BY <1>1, QueryLength
    <2> HIDE DEF n
    <2> QED  BY <1>1, <2>1
  <1>3. cu_seqlens_q = Sums(q) /\ cu_seqlens_k = Sums(k)
    BY DEF cu_seqlens_q, cu_seqlens_k
  <1> HIDE DEF n, q, k
  <1>4. Len(Sums(q)) = n + 1 /\ Len(Sums(k)) = n + 1
    BY <1>1, <1>2, SumsLength
  <1> QED  BY <1>3, <1>4 DEF n

LEMMA TwoUploads ==
    ASSUME NEW names, NEW u1, NEW u2,
           /\ u1.name \in names /\ u1.bytes \in Nat \ {0}
           /\ u2.name \in names /\ u2.bytes \in Nat \ {0}
           /\ u1.name # u2.name
    PROVE  SoundTodo(<< u1, u2 >>, names)
  <1> DEFINE q == << u1, u2 >>
             S == { u1, u2 }
  <1>1. q \in Seq(S) /\ Len(q) = 2
    OBVIOUS
  <1>2. q[1] = u1 /\ q[2] = u2
    OBVIOUS
  <1>3. \A i \in 1 .. 2 : i = 1 \/ i = 2
    OBVIOUS
  <1> HIDE DEF q, S
  <1>4. q \in Seq(ToSet(q))
    BY <1>1, SequenceOfElements
  <1>5. \A i \in 1 .. 2 : q[i].name \in names /\ q[i].bytes \in Nat \ {0}
    BY <1>2, <1>3
  <1>6. \A i, j \in 1 .. 2 : q[i].name = q[j].name => i = j
    BY <1>2, <1>3
  <1>7. SoundTodo(q, names)
    BY <1>1, <1>4, <1>5, <1>6 DEF SoundTodo
  <1> QED  BY <1>7 DEF q

LEMMA ThreeUploads ==
    ASSUME NEW names, NEW u1, NEW u2, NEW u3,
           /\ u1.name \in names /\ u1.bytes \in Nat \ {0}
           /\ u2.name \in names /\ u2.bytes \in Nat \ {0}
           /\ u3.name \in names /\ u3.bytes \in Nat \ {0}
           /\ u1.name # u2.name /\ u1.name # u3.name
           /\ u2.name # u3.name
    PROVE  SoundTodo(<< u1, u2, u3 >>, names)
  <1> DEFINE q == << u1, u2, u3 >>
             S == { u1, u2, u3 }
  <1>1. q \in Seq(S) /\ Len(q) = 3
    OBVIOUS
  <1>2. q[1] = u1 /\ q[2] = u2 /\ q[3] = u3
    OBVIOUS
  <1>3. \A i \in 1 .. 3 : i = 1 \/ i = 2 \/ i = 3
    OBVIOUS
  <1> HIDE DEF q, S
  <1>4. q \in Seq(ToSet(q))
    BY <1>1, SequenceOfElements
  <1>5. \A i \in 1 .. 3 : q[i].name \in names /\ q[i].bytes \in Nat \ {0}
    BY <1>2, <1>3
  <1>6. \A i, j \in 1 .. 3 : q[i].name = q[j].name => i = j
    BY <1>2, <1>3
  <1>7. SoundTodo(q, names)
    BY <1>1, <1>4, <1>5, <1>6 DEF SoundTodo
  <1> QED  BY <1>7 DEF q

LEMMA FiveUploads ==
    ASSUME NEW names, NEW u1, NEW u2, NEW u3, NEW u4, NEW u5,
           /\ u1.name \in names /\ u1.bytes \in Nat \ {0}
           /\ u2.name \in names /\ u2.bytes \in Nat \ {0}
           /\ u3.name \in names /\ u3.bytes \in Nat \ {0}
           /\ u4.name \in names /\ u4.bytes \in Nat \ {0}
           /\ u5.name \in names /\ u5.bytes \in Nat \ {0}
           /\ u1.name # u2.name /\ u1.name # u3.name /\ u1.name # u4.name /\ u1.name # u5.name
           /\ u2.name # u3.name /\ u2.name # u4.name /\ u2.name # u5.name
           /\ u3.name # u4.name /\ u3.name # u5.name
           /\ u4.name # u5.name
    PROVE  SoundTodo(<< u1, u2, u3, u4, u5 >>, names)
  <1> DEFINE q == << u1, u2, u3, u4, u5 >>
             S == { u1, u2, u3, u4, u5 }
  <1>1. q \in Seq(S) /\ Len(q) = 5
    OBVIOUS
  <1>2. q[1] = u1 /\ q[2] = u2 /\ q[3] = u3 /\ q[4] = u4 /\ q[5] = u5
    OBVIOUS
  <1>3. \A i \in 1 .. 5 : i = 1 \/ i = 2 \/ i = 3 \/ i = 4 \/ i = 5
    OBVIOUS
  <1> HIDE DEF q, S
  <1>4. q \in Seq(ToSet(q))
    BY <1>1, SequenceOfElements
  <1>5. \A i \in 1 .. 5 : q[i].name \in names /\ q[i].bytes \in Nat \ {0}
    BY <1>2, <1>3
  <1>6. \A i, j \in 1 .. 5 : q[i].name = q[j].name => i = j
    BY <1>2, <1>3
  <1>7. SoundTodo(q, names)
    BY <1>1, <1>4, <1>5, <1>6 DEF SoundTodo
  <1> QED  BY <1>7 DEF q

LEMMA OneMoreUpload ==
    ASSUME NEW names, NEW todo, SoundTodo(todo, names),
           NEW u, u.name \notin names, u.bytes \in Nat \ {0}
    PROVE  SoundTodo(todo \o << u >>, names \cup {u.name})
  <1> DEFINE S == ToSet(todo) \cup {u}
             c == todo \o << u >>
  <1>1. todo \in Seq(S) /\ Len(todo) \in Nat
    <2>1. todo \in Seq(ToSet(todo))
      BY DEF SoundTodo
    <2> QED  BY <2>1, SeqMonotonic, LenProperties
  <1>2. << u >> \in Seq(S) /\ Len(<< u >>) = 1 /\ << u >>[1] = u
    OBVIOUS
  <1>3. PICK v \in Seq(S) : v = << u >>
    BY <1>2
  <1> HIDE DEF S
  <1>4. /\ todo \o v \in Seq(S) /\ Len(todo \o v) = Len(todo) + 1
        /\ \A i \in 1 .. Len(todo) + 1 :
               (todo \o v)[i] = IF i <= Len(todo) THEN todo[i] ELSE v[i - Len(todo)]
    BY <1>1, <1>2, <1>3, ConcatProperties
  <1>5. /\ c \in Seq(S) /\ Len(c) = Len(todo) + 1
        /\ \A i \in 1 .. Len(todo) : c[i] = todo[i]
        /\ c[Len(todo) + 1] = u
    <2>1. Len(todo) + 1 - Len(todo) = 1 /\ ~(Len(todo) + 1 <= Len(todo))
      BY <1>1
    <2>2. c = todo \o v
      BY <1>3
    <2> HIDE DEF c
    <2> QED  BY <1>1, <1>2, <1>3, <1>4, <2>1, <2>2
  <1> HIDE DEF c
  <1>6. \A i \in 1 .. Len(c) : i \in 1 .. Len(todo) \/ i = Len(todo) + 1
    BY <1>1, <1>5, SMTT(30)
  <1>7. c \in Seq(ToSet(c))
    BY <1>5, SequenceOfElements
  <1>8. \A i \in 1 .. Len(c) : c[i].name \in names \cup {u.name} /\ c[i].bytes \in Nat \ {0}
    BY <1>5, <1>6 DEF SoundTodo
  <1>9. \A i, j \in 1 .. Len(c) : c[i].name = c[j].name => i = j
    BY <1>5, <1>6, ZenonT(60) DEF SoundTodo
  <1>10. SoundTodo(c, names \cup {u.name})
    BY <1>7, <1>8, <1>9 DEF SoundTodo
  <1> QED  BY <1>10 DEF c

LEMMA MoreNames ==
    ASSUME NEW names, NEW more, names \subseteq more, NEW todo, SoundTodo(todo, names)
    PROVE  SoundTodo(todo, more)
  BY DEF SoundTodo

\* What prepare_prefill, prepare_decode, prepare_sample and warmup_model upload
\* and initialize_buffers zeroes.
LEMMA PreparePrefillSound ==
    ASSUME SeqsTypeOK, BatchOK
    PROVE  SoundTodo(prepare_prefill, InputNames)
  <1>1. Len(Rows) \in Nat \ {0} /\ max_blocks \in Nat \ {0} /\ Len(runner.batch) \in Nat \ {0}
    BY RowsOfBatch, WidestTable, BatchPositions
  <1>2. /\ Len(cu_seqlens_q) = Len(runner.batch) + 1
        /\ Len(cu_seqlens_k) = Len(runner.batch) + 1
    BY CumulativeLengths
  <1>3. PICK u1, u2, u3, u4, u5, u6 :
            /\ u1 = Upload("input_ids", Len(Rows), "input_ids" :> input_ids)
            /\ u2 = Upload("positions", Len(Rows), "positions" :> positions)
            /\ u3 = Upload("cu_seqlens_q", Len(cu_seqlens_q), "cu_seqlens_q" :> cu_seqlens_q)
            /\ u4 = Upload("cu_seqlens_k", Len(cu_seqlens_k), "cu_seqlens_k" :> cu_seqlens_k)
            /\ u5 = Upload("slot_mapping", Len(Rows), "slot_mapping" :> slot_mapping)
            /\ u6 = BlockTablesUpload
    OBVIOUS
  <1>4. /\ u1.name = "input_ids" /\ u1.bytes = 4 * Len(Rows)
        /\ u2.name = "positions" /\ u2.bytes = 4 * Len(Rows)
        /\ u3.name = "cu_seqlens_q" /\ u3.bytes = 4 * Len(cu_seqlens_q)
        /\ u4.name = "cu_seqlens_k" /\ u4.bytes = 4 * Len(cu_seqlens_k)
        /\ u5.name = "slot_mapping" /\ u5.bytes = 4 * Len(Rows)
        /\ u6.name = "block_tables" /\ u6.bytes = 4 * (Len(runner.batch) * max_blocks)
    BY <1>3 DEF Upload, BlockTablesUpload
  <1>5. Len(runner.batch) * max_blocks \in Nat \ {0}
    BY <1>1, PositiveProduct
  <1>6. /\ u1.bytes \in Nat \ {0} /\ u2.bytes \in Nat \ {0} /\ u3.bytes \in Nat \ {0}
        /\ u4.bytes \in Nat \ {0} /\ u5.bytes \in Nat \ {0} /\ u6.bytes \in Nat \ {0}
    <2>1. PICK n \in Nat \ {0} : n = Len(Rows)
      BY <1>1
    <2>2. PICK m \in Nat \ {0} : m = Len(runner.batch)
      BY <1>1
    <2>3. PICK b : b = Len(runner.batch) * max_blocks
      OBVIOUS
    <2>4. b \in Nat \ {0}
      BY <1>5, <2>3, Zenon
    <2>5. u6.bytes = 4 * b
      BY <1>4, <2>3, Zenon
    <2>6. u1.bytes \in Nat \ {0} /\ u2.bytes \in Nat \ {0} /\ u5.bytes \in Nat \ {0}
      BY <1>4, <2>1, SMTT(30)
    <2>7. u3.bytes \in Nat \ {0} /\ u4.bytes \in Nat \ {0}
      BY <1>2, <1>4, <2>2, SMTT(30)
    <2>8. u6.bytes \in Nat \ {0}
      BY <2>4, <2>5
    <2> QED  BY <2>6, <2>7, <2>8
  <1> DEFINE names == { "input_ids", "positions", "cu_seqlens_q", "cu_seqlens_k", "slot_mapping" }
  <1>7. SoundTodo(<< u1, u2, u3, u4, u5 >>, names)
    BY <1>4, <1>6, FiveUploads
  <1>8. SoundTodo(<< u1, u2, u3, u4, u5 >> \o << u6 >>, names \cup { "block_tables" })
    <2>1. PICK q : q = << u1, u2, u3, u4, u5 >>
      OBVIOUS
    <2>2. SoundTodo(q, names) /\ u6.name \notin names
      BY <1>4, <1>7, <2>1
    <2> HIDE DEF names
    <2>3. SoundTodo(q \o << u6 >>, names \cup {u6.name})
      BY <1>6, <2>2, OneMoreUpload
    <2> QED  BY <1>4, <2>1, <2>3
  <1>9. << u1, u2, u3, u4, u5 >> \o << >> = << u1, u2, u3, u4, u5 >>
    OBVIOUS
  <1>10. prepare_prefill = << u1, u2, u3, u4, u5 >>
             \o (IF Last(cu_seqlens_k) > Last(cu_seqlens_q) THEN << u6 >> ELSE << >>)
    BY <1>3 DEF prepare_prefill
  <1>11. names \subseteq InputNames /\ names \cup { "block_tables" } \subseteq InputNames
    BY DEF InputNames
  <1>12. PICK q : q = << u1, u2, u3, u4, u5 >>
    OBVIOUS
  <1> HIDE DEF names
  <1>13. prepare_prefill = q \/ prepare_prefill = q \o << u6 >>
    BY <1>9, <1>10, <1>12
  <1>14. SoundTodo(q, InputNames) /\ SoundTodo(q \o << u6 >>, InputNames)
    BY <1>7, <1>8, <1>11, <1>12, MoreNames
  <1> QED  BY <1>13, <1>14

LEMMA PrepareDecodeSound ==
    ASSUME SeqsTypeOK, BatchOK
    PROVE  SoundTodo(prepare_decode, InputNames)
  <1>1. Len(Rows) \in Nat \ {0} /\ max_blocks \in Nat \ {0} /\ Len(runner.batch) \in Nat \ {0}
    BY RowsOfBatch, WidestTable, BatchPositions
  <1> DEFINE columns == [input_ids |-> input_ids, positions |-> positions,
                         slot_mapping |-> slot_mapping,
                         context_lens |-> [i \in DOMAIN runner.batch |->
                                              seqs[runner.batch[i]].len]]
  <1>2. PICK u1, u2 : u1 = Upload("packed", 4 * Len(Rows), columns) /\ u2 = BlockTablesUpload
    OBVIOUS
  <1>3. prepare_decode = << u1, u2 >>
    BY <1>2 DEF prepare_decode
  <1>4. /\ u1.name = "packed" /\ u1.bytes = 4 * (4 * Len(Rows))
        /\ u2.name = "block_tables" /\ u2.bytes = 4 * (Len(runner.batch) * max_blocks)
    <2> HIDE DEF columns
    <2> QED  BY <1>2 DEF Upload, BlockTablesUpload
  <1>5. Len(runner.batch) * max_blocks \in Nat \ {0}
    BY <1>1, PositiveProduct
  <1>6. u1.bytes \in Nat \ {0} /\ u2.bytes \in Nat \ {0}
    <2>1. PICK n \in Nat \ {0} : n = Len(Rows)
      BY <1>1
    <2>2. PICK b : b = Len(runner.batch) * max_blocks
      OBVIOUS
    <2>3. b \in Nat \ {0}
      BY <1>5, <2>2, Zenon
    <2>4. u2.bytes = 4 * b
      BY <1>4, <2>2, Zenon
    <2> QED  BY <1>4, <2>1, <2>3, <2>4, SMTT(30)
  <1>7. u1.name \in InputNames /\ u2.name \in InputNames /\ u1.name # u2.name
    BY <1>4 DEF InputNames
  <1> HIDE DEF columns
  <1> QED  BY <1>3, <1>6, <1>7, TwoUploads

LEMMA PrepareSampleSound ==
    ASSUME BatchOK
    PROVE  SoundTodo(prepare_sample, SampleNames)
  <1>1. Len(runner.batch) \in Nat \ {0}
    BY BatchPositions
  <1>2. PICK u1, u2, u3 :
            /\ u1 = Upload("temperatures", Len(runner.batch), "temperatures" :> runner.batch)
            /\ u2 = Upload("top_ks", Len(runner.batch), "top_ks" :> runner.batch)
            /\ u3 = Upload("top_ps", Len(runner.batch), "top_ps" :> runner.batch)
    OBVIOUS
  <1>3. prepare_sample = << u1, u2, u3 >>
    BY <1>2 DEF prepare_sample
  <1>4. /\ u1.name = "temperatures" /\ u2.name = "top_ks" /\ u3.name = "top_ps"
        /\ u1.bytes = 4 * Len(runner.batch) /\ u2.bytes = 4 * Len(runner.batch)
        /\ u3.bytes = 4 * Len(runner.batch)
    BY <1>2 DEF Upload
  <1>5. u1.bytes \in Nat \ {0} /\ u2.bytes \in Nat \ {0} /\ u3.bytes \in Nat \ {0}
    <2>1. PICK n \in Nat \ {0} : n = Len(runner.batch)
      BY <1>1
    <2> QED  BY <1>4, <2>1
  <1>6. /\ u1.name \in SampleNames /\ u2.name \in SampleNames /\ u3.name \in SampleNames
        /\ u1.name # u2.name /\ u1.name # u3.name /\ u2.name # u3.name
    BY <1>4 DEF SampleNames
  <1> QED  BY <1>3, <1>5, <1>6, ThreeUploads

LEMMA WarmupTokens == warmup_tokens \in Nat \ {0}
  BY DEF warmup_tokens

LEMMA WarmupSound == SoundTodo(warmup_model, InputNames)
  <1> DEFINE v1 == "input_ids" :> [r \in 1 .. warmup_tokens |-> Junk.token]
             v2 == "positions" :> [r \in 1 .. warmup_tokens |-> r - 1]
             v3 == [cu_seqlens_q |-> <<0, warmup_tokens>>, cu_seqlens_k |-> <<0, warmup_tokens>>]
  <1>1. PICK u1, u2, u3 :
            /\ u1 = Upload("input_ids", warmup_tokens, v1)
            /\ u2 = Upload("positions", warmup_tokens, v2)
            /\ u3 = Upload("cu_seqlens_q", 2, v3)
    OBVIOUS
  <1>2. warmup_model = << u1, u2, u3 >>
    BY <1>1 DEF warmup_model
  <1> HIDE DEF v1, v2, v3
  <1>3. /\ u1.name = "input_ids" /\ u2.name = "positions" /\ u3.name = "cu_seqlens_q"
        /\ u1.bytes = 4 * warmup_tokens /\ u2.bytes = 4 * warmup_tokens /\ u3.bytes = 8
    BY <1>1 DEF Upload
  <1>4. u1.bytes \in Nat \ {0} /\ u2.bytes \in Nat \ {0} /\ u3.bytes \in Nat \ {0}
    <2>1. PICK n \in Nat \ {0} : n = warmup_tokens
      BY WarmupTokens
    <2> QED  BY <1>3, <2>1
  <1>5. /\ u1.name \in InputNames /\ u2.name \in InputNames /\ u3.name \in InputNames
        /\ u1.name # u2.name /\ u1.name # u3.name /\ u2.name # u3.name
    BY <1>3 DEF InputNames
  <1> QED  BY <1>2, <1>4, <1>5, ThreeUploads

LEMMA GraphSizes == max_bs \in Nat \ {0} /\ max_num_blocks_ \in Nat \ {0}
  <1>1. max_num_blocks_ \in Nat \ {0}
    BY WholeBlocks DEF max_num_blocks_
  <1> QED  BY <1>1 DEF max_bs

LEMMA ZeroInputsSound == SoundTodo(ZeroInputs, GraphNames)
  <1> DEFINE v1 == "input_ids" :> [r \in 1 .. max_bs |-> Junk.token]
             v2 == "positions" :> [r \in 1 .. max_bs |-> 0]
             v3 == "slot_mapping" :> [r \in 1 .. max_bs |-> 0]
             v4 == "context_lens" :> [r \in 1 .. max_bs |-> 0]
             v5 == "block_tables" :> [r \in 1 .. max_bs |-> [c \in 1 .. max_num_blocks_ |-> 0]]
  <1>1. PICK u1, u2, u3, u4, u5 :
            /\ u1 = [name |-> "g_input_ids", bytes |-> 4 * max_bs, value |-> v1]
            /\ u2 = [name |-> "g_positions", bytes |-> 4 * max_bs, value |-> v2]
            /\ u3 = [name |-> "g_slot_mapping", bytes |-> 4 * max_bs, value |-> v3]
            /\ u4 = [name |-> "g_context_lens", bytes |-> 4 * max_bs, value |-> v4]
            /\ u5 = [name |-> "g_block_tables", bytes |-> 4 * max_bs * max_num_blocks_,
                     value |-> v5]
    OBVIOUS
  <1>2. ZeroInputs = << u1, u2, u3, u4, u5 >>
    BY <1>1 DEF ZeroInputs
  <1> HIDE DEF v1, v2, v3, v4, v5
  <1>3. /\ u1.name = "g_input_ids" /\ u2.name = "g_positions" /\ u3.name = "g_slot_mapping"
        /\ u4.name = "g_context_lens" /\ u5.name = "g_block_tables"
        /\ u1.bytes = 4 * max_bs /\ u2.bytes = 4 * max_bs /\ u3.bytes = 4 * max_bs
        /\ u4.bytes = 4 * max_bs /\ u5.bytes = 4 * max_bs * max_num_blocks_
    BY <1>1
  <1>4. /\ u1.bytes \in Nat \ {0} /\ u2.bytes \in Nat \ {0} /\ u3.bytes \in Nat \ {0}
        /\ u4.bytes \in Nat \ {0} /\ u5.bytes \in Nat \ {0}
    <2>1. PICK n, m \in Nat \ {0} : n = max_bs /\ m = max_num_blocks_
      BY GraphSizes
    <2>2. 4 * n \in Nat \ {0}
      OBVIOUS
    <2>3. (4 * n) * m \in Nat \ {0}
      BY <2>2, PositiveProduct
    <2> QED  BY <1>3, <2>1, <2>2, <2>3
  <1>5. /\ u1.name \in GraphNames /\ u2.name \in GraphNames /\ u3.name \in GraphNames
        /\ u4.name \in GraphNames /\ u5.name \in GraphNames
        /\ u1.name # u2.name /\ u1.name # u3.name /\ u1.name # u4.name /\ u1.name # u5.name
        /\ u2.name # u3.name /\ u2.name # u4.name /\ u2.name # u5.name
        /\ u3.name # u4.name /\ u3.name # u5.name /\ u4.name # u5.name
    BY <1>3 DEF GraphNames
  <1> QED  BY <1>2, <1>4, <1>5, FiveUploads

-----------------------------------------------------------------------------
(* The tensors of a run, and the batch of the next *)

LEMMA RunTensorsSound ==
    RunTensors \in Seq(RunNames) /\ IsInjective(RunTensors) /\ ToSet(RunTensors) = RunNames
  <1> HIDE AllocatorAssumption, KernelsAssumption, GraphAssumption, RunnerAssumption
  <1>1. RunTensors \in Seq(RunNames) /\ Len(RunTensors) = 17 /\ DOMAIN RunTensors = 1 .. 17
    BY DEF RunTensors, RunNames, InputNames, SampleNames, LayerNames
  <1>2. \A i, j \in 1 .. 17 : RunTensors[i] = RunTensors[j] => i = j
    BY SMTT(60) DEF RunTensors
  <1>3. IsInjective(RunTensors)
    BY <1>1, <1>2, ElementPositions
  <1>4. \A n : n \in ToSet(RunTensors) <=> n \in RunNames
    BY SMTT(60) DEF RunTensors, ToSet, RunNames, InputNames, SampleNames, LayerNames
  <1> QED  BY <1>1, <1>3, <1>4

\* What forward allocates: three tensors, or four.
LEMMA IntermediatesSound ==
    ASSUME NEW n \in Nat \ {0}, NEW flash \in BOOLEAN,
           NEW sizes, sizes = Intermediates(n, flash)
    PROVE  /\ sizes[1] \in Nat /\ sizes[2] \in Nat /\ sizes[3] \in Nat
           /\ Len(sizes) # 3 => sizes[4] \in Nat
  <1>1. PICK a, b : a = n * HiddenBytes /\ b = n * QkvBytes
    OBVIOUS
  <1>2. a \in Nat /\ b \in Nat
    BY <1>1, GraphAssumption, PositiveProduct
  <1>3. sizes = << a, b, a >> \o (IF flash THEN << 4 * n >> ELSE << >>)
    BY <1>1 DEF Intermediates
  <1> QED  BY <1>2, <1>3

LEMMA InOrderSound ==
    ASSUME NEW S \in SUBSET SeqId
    PROVE  InOrder(S) \in Seq(SeqId)
  <1> DEFINE q == [s \in SeqId |-> IF s \in S THEN << s >> ELSE << >>]
             e == [s \in SeqId |-> s]
  <1>1. PICK n \in Nat : n = Len(PromptLens) /\ SeqId = 1 .. n
    BY LenProperties, RunnerAssumption DEF SeqId
  <1>2. q \in [1 .. n -> Seq(SeqId)]
    <2>1. \A s \in SeqId : << s >> \in Seq(SeqId)
      OBVIOUS
    <2>2. << >> \in Seq(SeqId)
      BY EmptySeq
    <2>3. \A s \in SeqId : (IF s \in S THEN << s >> ELSE << >>) \in Seq(SeqId)
      BY <2>1, <2>2
    <2> QED  BY <1>1, <2>3
  <1>3. q \in Seq(Seq(SeqId)) /\ Len(q) = n
    <2>1. PICK T : T = Seq(SeqId)
      OBVIOUS
    <2> HIDE DEF q
    <2> QED  BY <1>2, <2>1, FunctionSequence
  <1>4. Picks(SeqId, q, S, e)
    BY <1>1, <1>3 DEF Picks
  <1>5. InOrder(S) = FlattenSeq(q)
    BY DEF InOrder
  <1> HIDE DEF q, e
  <1> QED  BY <1>4, <1>5, FlattenPicked

LEMMA InitialBatch ==
    ASSUME NEW q \in Seq(SeqId), NEW n \in 1 .. Len(q)
    PROVE  SubSeq(q, 1, n) \in Seq(SeqId) /\ SubSeq(q, 1, n) # << >>
  <1>1. Len(q) \in Nat
    BY LenProperties
  <1>2. PICK r : r = SubSeq(q, 1, n)
    OBVIOUS
  <1>3. r \in Seq(SeqId) /\ Len(r) = n
    <2>1. 1 \in Int /\ n \in Int /\ 1 <= n /\ n - 1 + 1 = n
      BY <1>1
    <2>2. \A i \in 1 .. n : q[i] \in SeqId
      BY <1>1, LenProperties
    <2>3. /\ SubSeq(q, 1, n) \in Seq(SeqId)
          /\ Len(SubSeq(q, 1, n)) = IF 1 <= n THEN n - 1 + 1 ELSE 0
      BY <2>1, <2>2, SubSeqProperties
    <2>4. r \in Seq(SeqId) /\ Len(r) = IF 1 <= n THEN n - 1 + 1 ELSE 0
      BY <1>2, <2>3, Zenon
    <2> QED  BY <2>1, <2>4
  <1>4. r \in Seq(SeqId) /\ r # << >>
    BY <1>3, EmptySeq
  <1> QED  BY <1>2, <1>4, Zenon

\* The whole blocks before the last token of a sequence.
LEMMA CachedPrefix ==
    ASSUME NEW n \in Nat \ {0}
    PROVE  \E c \in Nat : c = ((n - 1) \div BLOCK_SIZE) * BLOCK_SIZE /\ c < n
  <1>1. PICK d : d = (n - 1) \div BLOCK_SIZE
    OBVIOUS
  <1>2. d \in Nat
    BY <1>1, KernelsAssumption, Quotient
  <1>3. BLOCK_SIZE * d <= n - 1
    BY <1>1, <1>2, KernelsAssumption, Quotient
  <1>4. d * BLOCK_SIZE = BLOCK_SIZE * d /\ d * BLOCK_SIZE \in Nat
    BY <1>2, KernelsAssumption
  <1>5. PICK p : p = d * BLOCK_SIZE
    OBVIOUS
  <1>6. p \in Nat
    BY <1>4, <1>5, Zenon
  <1>7. p <= n - 1
    BY <1>3, <1>4, <1>5, Zenon
  <1>8. p < n
    BY <1>6, <1>7
  <1>9. p = ((n - 1) \div BLOCK_SIZE) * BLOCK_SIZE
    BY <1>1, <1>5, Zenon
  <1> QED  BY <1>6, <1>8, <1>9, Zenon

-----------------------------------------------------------------------------
(* The inductive invariant: RMTypeOK and, for every point of the host's      *)
(* program, which tensors it may hold there and which it is about to         *)
(* allocate.                                                                 *)

Phases == { "construct", "prepare", "inputs", "sampling", "tables", "head", "sampler",
            "sync", "kv_cache", "buffers", "capture", "idle" }

InRun == { "prepare", "inputs", "sampling", "tables", "head", "sampler", "sync" }

RunnerOK ==
    /\ DOMAIN runner = { "pc", "kind", "batch", "todo" }
    /\ runner.pc \in Phases /\ runner.kind \in { "warmup", "prefill", "decode" }
    /\ runner.pc \in { "construct", "kv_cache" } => runner.kind = "warmup"
    /\ runner.pc \in { "prepare", "sampler" } => runner.kind # "warmup"
    /\ runner.pc \in InRun /\ runner.kind # "warmup" => BatchOK

\* Next to the buffers of the graphs.
MayHold ==
    CASE runner.pc = "inputs" -> InputNames
      [] runner.pc \in { "sampling", "tables" } -> InputNames \cup SampleNames
      [] runner.pc = "head" -> InputNames \cup SampleNames \cup { "attended" }
      [] runner.pc = "sampler" -> InputNames \cup SampleNames \cup { "logits" }
      [] runner.pc = "sync" -> InputNames \cup SampleNames \cup { "logits", "output" }
      [] OTHER -> {}

HeldOK ==
    /\ DOMAIN heap.held \subseteq GraphNames \cup MayHold
    /\ runner.kind = "warmup" /\ runner.pc \notin { "buffers", "capture", "idle" } =>
           DOMAIN heap.held \cap GraphNames = {}

Fresh(todo) == \A i \in 1 .. Len(todo) : todo[i].name \notin DOMAIN heap.held

TodoOK ==
    /\ runner.pc = "inputs" => SoundTodo(runner.todo, InputNames)
    /\ runner.pc = "sampling" => SoundTodo(runner.todo, SampleNames)
    /\ runner.pc = "buffers" => SoundTodo(runner.todo, GraphNames)
    /\ runner.pc \in { "inputs", "sampling", "buffers" } => Fresh(runner.todo)

StagedOK == SoundStaging(pinned) /\ \A o \in DOMAIN staged : o < pinned.bytes

RMInv == SoundHeap(heap) /\ StagedOK /\ SeqsTypeOK /\ RunnerOK /\ HeldOK /\ TodoOK

LEMMA RMInvTypeOK == RMInv => RMTypeOK
  <1> SUFFICES ASSUME RMInv
               PROVE  RMTypeOK
    OBVIOUS
  <1>1. BlocksPartitioned
    BY PartitionedHeap DEF RMInv, SoundHeap
  <1>2. pinned.offset <= pinned.bytes /\ \A o \in DOMAIN staged : o < pinned.bytes
    BY DEF RMInv, StagedOK, SoundStaging
  <1>3. ASSUME runner.pc = "idle"
        PROVE  DOMAIN heap.held \cap ToSet(RunTensors) = {}
    <2>1. MayHold = {}
      BY <1>3 DEF MayHold
    <2>2. GraphNames \cap RunNames = {}
      BY DEF GraphNames, RunNames, InputNames, SampleNames, LayerNames
    <2> QED  BY <2>1, <2>2, RunTensorsSound DEF RMInv, HeldOK
  <1> QED  BY <1>1, <1>2, <1>3 DEF RMTypeOK

LEMMA RMInitInv == RMInit => RMInv
  <1> SUFFICES ASSUME RMInit
               PROVE  RMInv
    OBVIOUS
  <1>1. SoundHeap(heap) /\ DOMAIN heap.held = {}
    BY NewHeapSound DEF RMInit
  <1>2. StagedOK
    <2>1. DOMAIN staged = {}
      BY EmptySeq DEF RMInit
    <2> QED  BY <2>1 DEF RMInit, StagedOK, SoundStaging, NoStaging
  <1>3. SeqsTypeOK
    <2>1. \A s \in SeqId : PromptLens[s] \in 1 .. MaxLen
      BY RunnerAssumption, LenProperties DEF SeqId
    <2> QED  BY <2>1, RunnerAssumption, SMTT(30) DEF RMInit, SeqsTypeOK
  <1>4. RunnerOK
    BY DEF RMInit, RunnerOK, Phases, InRun
  <1>5. HeldOK
    BY <1>1 DEF HeldOK
  <1>6. TodoOK
    BY DEF RMInit, TodoOK
  <1> QED  BY <1>1, <1>2, <1>3, <1>4, <1>5, <1>6 DEF RMInv

\* make_device_int_tensor and make_device_float_tensor: the new tensor, and
\* the region its values are staged in.
LEMMA UploadSound ==
    ASSUME SoundHeap(heap), StagedOK, NEW name, name \notin DOMAIN heap.held,
           NEW bytes \in Nat \ {0}, NEW value,
           make_device_tensor(heap, name, bytes, value)
    PROVE  /\ SoundHeap(heap') /\ DOMAIN heap'.held = DOMAIN heap.held \cup {name}
           /\ StagedOK'
  <1>1. PICK q, at : q = pinned_alloc(pinned, bytes).staging
                     /\ at = pinned_alloc(pinned, bytes).at
    OBVIOUS
  <1>2. /\ heap' = allocate(heap, name, bytes)
        /\ pinned' = q
        /\ staged' = [o \in DOMAIN (IF Grows(pinned, bytes) THEN << >> ELSE staged) \cup {at} |->
                        IF o = at THEN value
                        ELSE (IF Grows(pinned, bytes) THEN << >> ELSE staged)[o]]
    BY <1>1 DEF make_device_tensor
  <1>3. SoundHeap(heap') /\ DOMAIN heap'.held = DOMAIN heap.held \cup {name}
    BY <1>2, AllocateSound
  <1>4. /\ SoundStaging(q) /\ at \in Nat /\ at < q.bytes
        /\ ~Grows(pinned, bytes) => q.bytes = pinned.bytes
    BY <1>1, PinnedAllocSound DEF StagedOK
  <1>5. DOMAIN staged' = DOMAIN (IF Grows(pinned, bytes) THEN << >> ELSE staged) \cup {at}
    BY <1>2
  <1>6. ASSUME NEW o \in DOMAIN staged'
        PROVE  o < q.bytes
    <2>1. CASE o = at
      BY <1>4, <2>1
    <2>2. CASE o # at /\ Grows(pinned, bytes)
      BY <1>5, <1>6, <2>2, EmptySeq
    <2>3. CASE o # at /\ ~Grows(pinned, bytes)
      BY <1>4, <1>5, <1>6, <2>3 DEF StagedOK
    <2> QED  BY <2>1, <2>2, <2>3
  <1> QED  BY <1>2, <1>3, <1>4, <1>6 DEF StagedOK

\* What leaving a run does to its memory.
LEMMA LeaveSound ==
    ASSUME RMInv, NEW pc, Leave(pc)
    PROVE  /\ SoundHeap(heap') /\ StagedOK'
           /\ DOMAIN heap'.held = DOMAIN heap.held \cap GraphNames
           /\ runner'.pc = pc /\ runner'.kind = runner.kind
           /\ DOMAIN runner' = { "pc", "kind", "batch", "todo" }
  <1>1. heap' = return_blocks(heap, RunTensors)
    BY DEF Leave
  <1>2. SoundHeap(heap') /\ DOMAIN heap'.held = DOMAIN heap.held \ RunNames
    BY <1>1, RunTensorsSound, ReturnSound DEF RMInv
  <1>3. MayHold \subseteq RunNames /\ RunNames \cap GraphNames = {}
    BY DEF MayHold, GraphNames, RunNames, InputNames, SampleNames, LayerNames
  <1>4. DOMAIN heap'.held = DOMAIN heap.held \cap GraphNames
    BY <1>2, <1>3 DEF RMInv, HeldOK
  <1>5. StagedOK'
    BY DEF RMInv, StagedOK, Leave
  <1> QED  BY <1>2, <1>4, <1>5 DEF Leave, RMInv, RunnerOK

-----------------------------------------------------------------------------
(* The steps of the caller *)

\* A step that leaves the memory alone.
LEMMA MemoryKept ==
    ASSUME RMInv, heap' = heap, pinned' = pinned, staged' = staged
    PROVE  SoundHeap(heap') /\ StagedOK'
  BY DEF RMInv, StagedOK

LEMMA FinishInv == ASSUME RMInv, NEW s \in SeqId, Finish(s) PROVE RMInv'
  <1>1. SoundHeap(heap') /\ StagedOK'
    BY MemoryKept DEF Finish, Departs, kernelVars, memoryVars
  <1>2. runner' = runner /\ heap' = heap
    BY DEF Finish, Departs, kernelVars, memoryVars
  <1>3. SeqsTypeOK'
    BY DEF RMInv, SeqsTypeOK, Finish
  <1>4. RunnerOK' /\ HeldOK' /\ TodoOK'
    BY <1>2 DEF RMInv, RunnerOK, HeldOK, TodoOK, BatchOK, MayHold, Fresh
  <1> QED  BY <1>1, <1>3, <1>4 DEF RMInv

LEMMA PreemptInv == ASSUME RMInv, NEW s \in SeqId, Preempt(s) PROVE RMInv'
  <1>1. SoundHeap(heap') /\ StagedOK'
    BY MemoryKept DEF Preempt, Departs, kernelVars, memoryVars
  <1>2. runner' = runner /\ heap' = heap
    BY DEF Preempt, Departs, kernelVars, memoryVars
  <1>3. SeqsTypeOK'
    <2>1. SeqsTypeOK
      BY DEF RMInv
    <2>2. seqs[s].len \in Nat \ {0}
      BY <2>1, RunnerAssumption DEF SeqsTypeOK
    <2>3. PICK c \in Nat : /\ c = ((seqs[s].len - 1) \div BLOCK_SIZE) * BLOCK_SIZE
                           /\ c < seqs[s].len
      BY <2>2, CachedPrefix
    <2>4. seqs' = [seqs EXCEPT ![s].status = "waiting", ![s].cached = c]
      BY <2>3 DEF Preempt
    <2> QED  BY <2>1, <2>3, <2>4 DEF SeqsTypeOK
  <1>4. RunnerOK' /\ HeldOK' /\ TodoOK'
    BY <1>2 DEF RMInv, RunnerOK, HeldOK, TodoOK, BatchOK, MayHold, Fresh
  <1> QED  BY <1>1, <1>3, <1>4 DEF RMInv

LEMMA BeginRunInv ==
    ASSUME RMInv, NEW batch \in Seq(SeqId), NEW kind \in { "prefill", "decode" },
           BeginRun(batch, kind)
    PROVE  RMInv'
  <1>1. /\ heap' = heap /\ staged' = staged /\ seqs' = seqs /\ runner.pc = "idle"
        /\ pinned' = reset_pinned_staging(pinned) /\ batch # << >>
        /\ runner' = [runner EXCEPT !.pc = "prepare", !.kind = kind, !.batch = batch]
    BY DEF BeginRun, Doing
  <1>2. StagedOK'
    <2>1. StagedOK
      BY DEF RMInv
    <2>2. pinned' = [pinned EXCEPT !.offset = 0]
      BY <1>1 DEF reset_pinned_staging
    <2>3. /\ pinned' \in [bytes : Nat, offset : Nat, generation : Nat]
          /\ pinned'.offset = 0 /\ pinned'.bytes = pinned.bytes
          /\ pinned'.generation = pinned.generation /\ pinned.bytes \in Nat
      BY <2>1, <2>2 DEF StagedOK, SoundStaging
    <2> QED  BY <1>1, <2>1, <2>3 DEF StagedOK, SoundStaging
  <1>3. SoundHeap(heap') /\ SeqsTypeOK'
    BY <1>1 DEF RMInv, SeqsTypeOK
  <1>4. /\ DOMAIN runner' = { "pc", "kind", "batch", "todo" }
        /\ runner'.pc = "prepare" /\ runner'.kind = kind /\ runner'.batch = batch
    BY <1>1 DEF RMInv, RunnerOK
  <1>5. RunnerOK'
    BY <1>1, <1>4 DEF RunnerOK, BatchOK, Phases
  <1>6. HeldOK'
    <2>1. MayHold = {}
      BY <1>1 DEF MayHold
    <2> QED  BY <1>1, <1>4, <2>1 DEF RMInv, HeldOK
  <1>7. TodoOK'
    BY <1>4 DEF TodoOK
  <1> QED  BY <1>2, <1>3, <1>5, <1>6, <1>7 DEF RMInv

LEMMA BeginInv == ASSUME RMInv, Begin PROVE RMInv'
  <1> DEFINE waiting == InOrder({ s \in SeqId : seqs[s].status = "waiting" })
             running == InOrder({ s \in SeqId : seqs[s].status = "running" })
  <1>1. waiting \in Seq(SeqId) /\ running \in Seq(SeqId)
    <2>1. /\ { s \in SeqId : seqs[s].status = "waiting" } \in SUBSET SeqId
          /\ { s \in SeqId : seqs[s].status = "running" } \in SUBSET SeqId
      OBVIOUS
    <2> QED  BY <2>1, InOrderSound
  <1>2. \/ \E n \in 1 .. Len(waiting) : BeginRun(SubSeq(waiting, 1, n), "prefill")
        \/ BeginRun(running, "decode")
    BY DEF Begin
  <1> HIDE DEF waiting, running
  <1>3. ASSUME NEW n \in 1 .. Len(waiting), BeginRun(SubSeq(waiting, 1, n), "prefill")
        PROVE  RMInv'
    <2>1. PICK batch : batch = SubSeq(waiting, 1, n)
      OBVIOUS
    <2>2. batch \in Seq(SeqId)
      BY <1>1, <2>1, InitialBatch
    <2>3. BeginRun(batch, "prefill")
      BY <1>3, <2>1
    <2> QED  BY <2>2, <2>3, BeginRunInv
  <1>4. ASSUME BeginRun(running, "decode")
        PROVE  RMInv'
    BY <1>1, <1>4, BeginRunInv
  <1> QED  BY <1>2, <1>3, <1>4

-----------------------------------------------------------------------------
(* The inputs *)

\* A step that changes only where the host is and what it has to do.
LEMMA RunnerMoves ==
    ASSUME RMInv, NEW pc, NEW todo, heap' = heap, pinned' = pinned, staged' = staged,
           seqs' = seqs, runner' = [runner EXCEPT !.pc = pc, !.todo = todo]
    PROVE  /\ SoundHeap(heap') /\ StagedOK' /\ SeqsTypeOK'
           /\ DOMAIN runner' = { "pc", "kind", "batch", "todo" }
           /\ runner'.pc = pc /\ runner'.kind = runner.kind /\ runner'.batch = runner.batch
           /\ runner'.todo = todo /\ (BatchOK => BatchOK')
  <1>1. SoundHeap(heap') /\ StagedOK'
    BY MemoryKept
  <1>2. SeqsTypeOK'
    BY DEF RMInv, SeqsTypeOK
  <1>3. /\ DOMAIN runner' = { "pc", "kind", "batch", "todo" }
        /\ runner'.pc = pc /\ runner'.kind = runner.kind /\ runner'.batch = runner.batch
        /\ runner'.todo = todo
    BY DEF RMInv, RunnerOK
  <1> QED  BY <1>1, <1>2, <1>3 DEF BatchOK

LEMMA ConstructInv == ASSUME RMInv, Construct PROVE RMInv'
  <1>1. /\ runner.pc = "construct" /\ seqs' = seqs
        /\ heap' = heap /\ pinned' = pinned /\ staged' = staged
    BY DEF Construct, Doing, kernelVars, memoryVars
  <1>2. PICK todo : todo = warmup_model
    OBVIOUS
  <1>3. runner' = [runner EXCEPT !.pc = "inputs", !.todo = todo]
    BY <1>2 DEF Construct
  <1>4. /\ SoundHeap(heap') /\ StagedOK' /\ SeqsTypeOK'
        /\ DOMAIN runner' = { "pc", "kind", "batch", "todo" }
        /\ runner'.pc = "inputs" /\ runner'.kind = runner.kind /\ runner'.todo = todo
    BY <1>1, <1>3, RunnerMoves
  <1>5. DOMAIN heap.held = {} /\ runner.kind = "warmup"
    BY <1>1 DEF RMInv, RunnerOK, HeldOK, MayHold
  <1>6. RunnerOK'
    BY <1>4, <1>5 DEF RunnerOK, Phases
  <1>7. HeldOK'
    BY <1>1, <1>5 DEF HeldOK
  <1>8. SoundTodo(todo, InputNames)
    BY <1>2, WarmupSound
  <1>9. TodoOK'
    BY <1>1, <1>4, <1>5, <1>8 DEF TodoOK, Fresh
  <1> QED  BY <1>4, <1>6, <1>7, <1>9 DEF RMInv

LEMMA PrepareInputsInv == ASSUME RMInv, PrepareInputs PROVE RMInv'
  <1>1. /\ runner.pc = "prepare" /\ seqs' = seqs
        /\ heap' = heap /\ pinned' = pinned /\ staged' = staged
    BY DEF PrepareInputs, Doing, kernelVars, memoryVars
  <1>2. PICK todo : todo = IF is_prefill THEN prepare_prefill ELSE prepare_decode
    OBVIOUS
  <1>3. runner' = [runner EXCEPT !.pc = "inputs", !.todo = todo]
    BY <1>2 DEF PrepareInputs
  <1>4. /\ SoundHeap(heap') /\ StagedOK' /\ SeqsTypeOK'
        /\ DOMAIN runner' = { "pc", "kind", "batch", "todo" }
        /\ runner'.pc = "inputs" /\ runner'.kind = runner.kind /\ runner'.todo = todo
        /\ (BatchOK => BatchOK')
    BY <1>1, <1>3, RunnerMoves
  <1>5. DOMAIN heap.held \subseteq GraphNames /\ runner.kind # "warmup" /\ BatchOK
        /\ SeqsTypeOK
    BY <1>1 DEF RMInv, RunnerOK, HeldOK, MayHold, InRun
  <1>6. RunnerOK'
    BY <1>1, <1>4, <1>5 DEF RMInv, RunnerOK, Phases
  <1>7. HeldOK'
    BY <1>1, <1>4, <1>5 DEF HeldOK
  <1>8. SoundTodo(todo, InputNames)
    <2>1. SoundTodo(prepare_prefill, InputNames) /\ SoundTodo(prepare_decode, InputNames)
      BY <1>5, PreparePrefillSound, PrepareDecodeSound
    <2> QED  BY <1>2, <2>1
  <1>9. \A i \in 1 .. Len(todo) : todo[i].name \notin DOMAIN heap.held
    <2>1. InputNames \cap GraphNames = {}
      BY DEF InputNames, GraphNames
    <2> QED  BY <1>5, <1>8, <2>1 DEF SoundTodo
  <1>10. TodoOK'
    BY <1>1, <1>4, <1>8, <1>9 DEF TodoOK, Fresh
  <1> QED  BY <1>4, <1>6, <1>7, <1>10 DEF RMInv

LEMMA UploadNextInv == ASSUME RMInv, UploadNext PROVE RMInv'
  <1>1. PICK name, bytes, value :
            /\ name = Head(runner.todo).name /\ bytes = Head(runner.todo).bytes
            /\ value = Head(runner.todo).value
    OBVIOUS
  <1>2. /\ runner.pc \in { "inputs", "sampling" } /\ runner.todo # << >> /\ seqs' = seqs
        /\ make_device_tensor(heap, name, bytes, value)
        /\ runner' = [runner EXCEPT !.todo = Tail(@)]
    BY <1>1 DEF UploadNext
  <1>3. PICK names : names = IF runner.pc = "inputs" THEN InputNames ELSE SampleNames
    OBVIOUS
  <1>4. SoundTodo(runner.todo, names) /\ Fresh(runner.todo)
    BY <1>2, <1>3 DEF RMInv, TodoOK
  <1>5. PICK todo : todo = Tail(runner.todo)
    OBVIOUS
  <1>6. /\ name \in names /\ bytes \in Nat \ {0} /\ SoundTodo(todo, names)
        /\ \A i \in 1 .. Len(todo) :
               todo[i].name # name /\ \E j \in 1 .. Len(runner.todo) : todo[i] = runner.todo[j]
        /\ \E j \in 1 .. Len(runner.todo) : Head(runner.todo) = runner.todo[j]
    <2>1. PICK r : r = runner.todo
      OBVIOUS
    <2>2. SoundTodo(r, names) /\ r # << >>
      BY <1>2, <1>4, <2>1
    <2>3. /\ Head(r).name \in names /\ Head(r).bytes \in Nat \ {0}
          /\ SoundTodo(Tail(r), names)
          /\ \A i \in 1 .. Len(Tail(r)) :
                 /\ Tail(r)[i].name # Head(r).name
                 /\ \E j \in 1 .. Len(r) : Tail(r)[i] = r[j]
          /\ \E j \in 1 .. Len(r) : Head(r) = r[j]
      BY <2>2, TodoHead
    <2> QED  BY <1>1, <1>5, <2>1, <2>3, ZenonT(30)
  <1>7. name \notin DOMAIN heap.held
    BY <1>1, <1>4, <1>6 DEF Fresh
  <1>8. /\ SoundHeap(heap') /\ DOMAIN heap'.held = DOMAIN heap.held \cup {name}
        /\ StagedOK'
    BY <1>2, <1>6, <1>7, UploadSound DEF RMInv
  <1>9. /\ DOMAIN runner' = { "pc", "kind", "batch", "todo" }
        /\ runner'.pc = runner.pc /\ runner'.kind = runner.kind /\ runner'.batch = runner.batch
        /\ runner'.todo = todo
    BY <1>2, <1>5 DEF RMInv, RunnerOK
  <1>10. SeqsTypeOK'
    BY <1>2 DEF RMInv, SeqsTypeOK
  <1>11. RunnerOK'
    BY <1>9 DEF RMInv, RunnerOK, BatchOK
  <1>12. HeldOK'
    <2>1. name \in MayHold /\ MayHold' = MayHold
      BY <1>2, <1>3, <1>6, <1>9 DEF MayHold
    <2>2. name \notin GraphNames
      BY <1>3, <1>6 DEF GraphNames, InputNames, SampleNames
    <2> QED  BY <1>8, <1>9, <2>1, <2>2 DEF RMInv, HeldOK
  <1>13. \A i \in 1 .. Len(todo) : todo[i].name \notin DOMAIN heap'.held
    BY <1>4, <1>6, <1>8 DEF Fresh
  <1>14. TodoOK'
    BY <1>2, <1>3, <1>6, <1>9, <1>13 DEF TodoOK, Fresh
  <1> QED  BY <1>8, <1>10, <1>11, <1>12, <1>14 DEF RMInv

LEMMA SetContextInv == ASSUME RMInv, SetContext PROVE RMInv'
  <1>1. /\ runner.pc = "inputs" /\ seqs' = seqs
        /\ heap' = heap /\ pinned' = pinned /\ staged' = staged
    BY DEF SetContext, Doing, memoryVars
  <1>2. PICK todo : todo = IF runner.kind = "warmup" THEN << >> ELSE prepare_sample
    OBVIOUS
  <1>3. runner' = [runner EXCEPT !.pc = "sampling", !.todo = todo]
    BY <1>2 DEF SetContext
  <1>4. /\ SoundHeap(heap') /\ StagedOK' /\ SeqsTypeOK'
        /\ DOMAIN runner' = { "pc", "kind", "batch", "todo" }
        /\ runner'.pc = "sampling" /\ runner'.kind = runner.kind /\ runner'.todo = todo
        /\ (BatchOK => BatchOK')
    BY <1>1, <1>3, RunnerMoves
  <1>5. /\ DOMAIN heap.held \subseteq GraphNames \cup InputNames
        /\ runner.kind # "warmup" => BatchOK
    BY <1>1 DEF RMInv, RunnerOK, HeldOK, MayHold, InRun
  <1>6. RunnerOK'
    BY <1>1, <1>4, <1>5 DEF RMInv, RunnerOK, Phases
  <1>7. HeldOK'
    <2>1. MayHold' = InputNames \cup SampleNames
      BY <1>4 DEF MayHold
    <2> QED  BY <1>1, <1>4, <1>5, <2>1 DEF RMInv, HeldOK
  <1>8. SoundTodo(todo, SampleNames)
    <2>1. CASE runner.kind = "warmup"
      <3>1. todo = << >>
        BY <1>2, <2>1
      <3> QED  BY <3>1, EmptySeq DEF SoundTodo
    <2>2. CASE runner.kind # "warmup"
      BY <1>2, <1>5, <2>2, PrepareSampleSound
    <2> QED  BY <2>1, <2>2
  <1>9. \A i \in 1 .. Len(todo) : todo[i].name \notin DOMAIN heap.held
    <2>1. SampleNames \cap (GraphNames \cup InputNames) = {}
      BY DEF InputNames, GraphNames, SampleNames
    <2> QED  BY <1>5, <1>8, <2>1 DEF SoundTodo
  <1>10. TodoOK'
    BY <1>1, <1>4, <1>8, <1>9 DEF TodoOK, Fresh
  <1> QED  BY <1>4, <1>6, <1>7, <1>10 DEF RMInv

-----------------------------------------------------------------------------
(* The run *)

\* A step that enqueues operations: the invariant needs only the heap it
\* leaves, and the point it goes to.
LEMMA EnqueuesInv ==
    ASSUME RMInv, NEW h, NEW ops, NEW pc \in InRun, Enqueues(h, ops, pc),
           pc # "prepare", runner.pc \in InRun, SoundHeap(h),
           DOMAIN h.held \subseteq GraphNames \cup MayHold',
           runner.kind = "warmup" => DOMAIN h.held \cap GraphNames = {},
           pc \notin { "inputs", "sampling" }, pc = "sampler" => runner.kind # "warmup"
    PROVE  RMInv'
  <1>1. /\ heap' = h /\ pinned' = pinned /\ staged' = staged /\ seqs' = seqs
        /\ runner' = [runner EXCEPT !.pc = pc]
    BY DEF Enqueues, Goto
  <1>2. /\ DOMAIN runner' = { "pc", "kind", "batch", "todo" }
        /\ runner'.pc = pc /\ runner'.kind = runner.kind /\ runner'.batch = runner.batch
    BY <1>1 DEF RMInv, RunnerOK
  <1>3. SoundHeap(heap') /\ StagedOK' /\ SeqsTypeOK'
    BY <1>1 DEF RMInv, StagedOK, SeqsTypeOK
  <1>4. RunnerOK'
    BY <1>2 DEF RMInv, RunnerOK, BatchOK, Phases, InRun
  <1>5. HeldOK'
    BY <1>1, <1>2 DEF HeldOK
  <1>6. TodoOK'
    BY <1>2 DEF TodoOK, InRun
  <1> QED  BY <1>3, <1>4, <1>5, <1>6 DEF RMInv

\* A step that only enqueues.
LEMMA EnqueuesOnlyInv ==
    ASSUME RMInv, NEW ops, NEW pc \in { "tables", "head" }, Enqueues(heap, ops, pc),
           runner.pc \in { "sampling", "tables" }
    PROVE  RMInv'
  <1>1. runner'.pc = pc
    BY DEF Enqueues, Goto, RMInv, RunnerOK
  <1>2. DOMAIN heap.held \subseteq GraphNames \cup (InputNames \cup SampleNames)
    BY DEF RMInv, HeldOK, MayHold
  <1>3. InputNames \cup SampleNames \subseteq MayHold'
    BY <1>1 DEF MayHold
  <1>4. runner.kind = "warmup" => DOMAIN heap.held \cap GraphNames = {}
    BY DEF RMInv, HeldOK
  <1>5. DOMAIN heap.held \subseteq GraphNames \cup MayHold'
    BY <1>2, <1>3
  <1>6. /\ pc \in InRun /\ pc # "prepare" /\ runner.pc \in InRun /\ SoundHeap(heap)
        /\ pc \notin { "inputs", "sampling", "sampler" }
    BY DEF InRun, RMInv
  <1> QED  BY <1>4, <1>5, <1>6, EnqueuesInv

LEMMA CopyGraphInputsInv == ASSUME RMInv, CopyGraphInputs PROVE RMInv'
  <1>1. PICK ops : ops = CopiesOfInputs(Len(runner.batch), Input("input_ids"), Input("positions"))
    OBVIOUS
  <1>2. Enqueues(heap, ops, "tables") /\ runner.pc = "sampling"
    BY <1>1 DEF CopyGraphInputs, SampleInputsReady, Doing
  <1> QED  BY <1>2, EnqueuesOnlyInv

LEMMA ReplayInv == ASSUME RMInv, Replay PROVE RMInv'
  <1>1. PICK ops : ops = CopyOfTables(Len(runner.batch), max_blocks)
                            \o replay(Len(runner.batch)).ops
    OBVIOUS
  <1>2. Enqueues(heap, ops, "head") /\ runner.pc = "tables"
    BY <1>1 DEF Replay, Doing
  <1> QED  BY <1>2, EnqueuesOnlyInv

LEMMA RunRows ==
    ASSUME RMInv, runner.pc \in InRun
    PROVE  rows \in Nat \ {0} /\ num_logits \in Nat \ {0}
  <1>1. CASE runner.kind = "warmup"
    BY <1>1, WarmupTokens DEF rows, num_logits
  <1>2. CASE runner.kind # "warmup"
    <2>1. SeqsTypeOK /\ BatchOK
      BY <1>2 DEF RMInv, RunnerOK
    <2>2. Len(Rows) \in Nat \ {0} /\ Len(runner.batch) \in Nat \ {0}
      BY <2>1, RowsOfBatch, BatchPositions
    <2> QED  BY <1>2, <2>2 DEF rows, num_logits
  <1> QED  BY <1>1, <1>2

\* What the layer and the head let go of.
LEMMA LayerReturns ==
    /\ << "hidden", "qkv", "softmax_lse" >> \in Seq(RunNames)
    /\ IsInjective(<< "hidden", "qkv", "softmax_lse" >>)
    /\ ToSet(<< "hidden", "qkv", "softmax_lse" >>) = { "hidden", "qkv", "softmax_lse" }
    /\ << "attended", "last" >> \in Seq(RunNames)
    /\ IsInjective(<< "attended", "last" >>)
    /\ ToSet(<< "attended", "last" >>) = { "attended", "last" }
    /\ << "attended" >> \in Seq(RunNames)
    /\ IsInjective(<< "attended" >>)
    /\ ToSet(<< "attended" >>) = { "attended" }
  BY SMTT(30) DEF IsInjective, ToSet, RunNames, LayerNames

LEMMA RunModelInv == ASSUME RMInv, RunModel PROVE RMInv'
  <1>1. PICK sizes : sizes = Intermediates(rows, uses_flash(context))
    OBVIOUS
  <1>2. PICK h1, h2, h3 :
            /\ h1 = allocate(heap, "hidden", sizes[1])
            /\ h2 = allocate(h1, "qkv", sizes[2])
            /\ h3 = allocate(h2, "attended", sizes[3])
    OBVIOUS
  <1>3. PICK h4 : h4 = IF Len(sizes) = 3 THEN h3 ELSE allocate(h3, "softmax_lse", sizes[4])
    OBVIOUS
  <1>4. PICK h : h = return_blocks(h4, << "hidden", "qkv", "softmax_lse" >>)
    OBVIOUS
  <1>5. /\ runner.pc = "sampling"
        /\ \E ops : Enqueues(h, ops, "head")
    BY <1>1, <1>2, <1>3, <1>4 DEF RunModel, SampleInputsReady, Doing
  <1>6. rows \in Nat \ {0}
    BY <1>5, RunRows DEF InRun
  <1>7. /\ sizes[1] \in Nat /\ sizes[2] \in Nat /\ sizes[3] \in Nat
        /\ Len(sizes) # 3 => sizes[4] \in Nat
    <2>1. uses_flash(context) \in BOOLEAN
      BY DEF uses_flash, paged_prefill
    <2> QED  BY <1>1, <1>6, <2>1, IntermediatesSound
  <1>8. /\ DOMAIN heap.held \subseteq GraphNames \cup (InputNames \cup SampleNames)
        /\ runner.kind = "warmup" => DOMAIN heap.held \cap GraphNames = {}
        /\ SoundHeap(heap)
    BY <1>5 DEF RMInv, HeldOK, MayHold
  <1>9. (GraphNames \cup (InputNames \cup SampleNames)) \cap LayerNames = {}
    BY DEF GraphNames, InputNames, SampleNames, LayerNames
  <1>10. { "hidden", "qkv", "attended", "softmax_lse" } \subseteq LayerNames
    BY DEF LayerNames
  <1>11. SoundHeap(h1) /\ DOMAIN h1.held = DOMAIN heap.held \cup { "hidden" }
    <2>1. "hidden" \notin DOMAIN heap.held
      BY <1>8, <1>9, <1>10
    <2> QED  BY <1>2, <1>7, <1>8, <2>1, AllocateSound
  <1>12. SoundHeap(h2) /\ DOMAIN h2.held = DOMAIN heap.held \cup { "hidden", "qkv" }
    <2>1. "qkv" \notin DOMAIN h1.held
      BY <1>8, <1>9, <1>10, <1>11
    <2>2. SoundHeap(h2) /\ DOMAIN h2.held = DOMAIN h1.held \cup { "qkv" }
      BY <1>2, <1>7, <1>11, <2>1, AllocateSound, SMTT(30)
    <2> QED  BY <1>11, <2>2
  <1>13. SoundHeap(h3) /\ DOMAIN h3.held = DOMAIN heap.held \cup { "hidden", "qkv", "attended" }
    <2>1. "attended" \notin DOMAIN h2.held
      BY <1>8, <1>9, <1>10, <1>12
    <2>2. SoundHeap(h3) /\ DOMAIN h3.held = DOMAIN h2.held \cup { "attended" }
      BY <1>2, <1>7, <1>12, <2>1, AllocateSound, SMTT(30)
    <2> QED  BY <1>12, <2>2
  <1>14. /\ SoundHeap(h4)
         /\ DOMAIN h4.held \subseteq DOMAIN heap.held
                                        \cup { "hidden", "qkv", "attended", "softmax_lse" }
    <2>1. CASE Len(sizes) = 3
      BY <1>3, <1>13, <2>1
    <2>2. CASE Len(sizes) # 3
      <3>1. "softmax_lse" \notin DOMAIN h3.held
        BY <1>8, <1>9, <1>10, <1>13
      <3>2. SoundHeap(h4) /\ DOMAIN h4.held = DOMAIN h3.held \cup { "softmax_lse" }
        BY <1>3, <1>7, <1>13, <2>2, <3>1, AllocateSound
      <3> QED  BY <1>13, <3>2
    <2> QED  BY <2>1, <2>2
  <1>15. SoundHeap(h) /\ DOMAIN h.held = DOMAIN h4.held \ { "hidden", "qkv", "softmax_lse" }
    <2>1. PICK q : q = << "hidden", "qkv", "softmax_lse" >>
      OBVIOUS
    <2>2. q \in Seq(RunNames) /\ IsInjective(q) /\ ToSet(q) = { "hidden", "qkv", "softmax_lse" }
      BY <2>1, LayerReturns
    <2>3. SoundHeap(h) /\ DOMAIN h.held = DOMAIN h4.held \ ToSet(q)
      BY <1>4, <1>14, <2>1, <2>2, ReturnSound
    <2> QED  BY <2>2, <2>3
  <1>16. DOMAIN h.held \subseteq DOMAIN heap.held \cup { "attended" }
    BY <1>14, <1>15
  <1>17. PICK ops : Enqueues(h, ops, "head")
    BY <1>5
  <1>18. runner'.pc = "head"
    BY <1>17 DEF Enqueues, Goto, RMInv, RunnerOK
  <1>19. MayHold' = InputNames \cup SampleNames \cup { "attended" }
    BY <1>18 DEF MayHold
  <1>20. DOMAIN h.held \subseteq GraphNames \cup MayHold'
    BY <1>8, <1>16, <1>19
  <1>21. runner.kind = "warmup" => DOMAIN h.held \cap GraphNames = {}
    BY <1>8, <1>16 DEF GraphNames
  <1>22. /\ "head" \in InRun /\ runner.pc \in InRun
         /\ "head" \notin { "inputs", "sampling", "sampler", "prepare" }
    BY <1>5 DEF InRun
  <1> QED  BY <1>15, <1>17, <1>20, <1>21, <1>22, EnqueuesInv

\* What compute_logits leaves held, and where it goes.
LEMMA LogitsInv ==
    ASSUME RMInv, runner.pc = "head", NEW h, SoundHeap(h), NEW ops,
           Enqueues(h, ops, AfterLogits),
           DOMAIN h.held \subseteq (DOMAIN heap.held \ { "attended" }) \cup { "logits" }
    PROVE  RMInv'
  <1>1. /\ DOMAIN heap.held \subseteq GraphNames \cup (InputNames \cup SampleNames
                                                                 \cup { "attended" })
        /\ runner.kind = "warmup" => DOMAIN heap.held \cap GraphNames = {}
    BY DEF RMInv, HeldOK, MayHold
  <1>2. PICK pc : pc = AfterLogits
    OBVIOUS
  <1>3. /\ pc \in { "sync", "sampler" } /\ Enqueues(h, ops, pc)
        /\ pc = "sampler" => runner.kind # "warmup"
    BY <1>2 DEF AfterLogits
  <1>4. runner'.pc = pc
    BY <1>3 DEF Enqueues, Goto, RMInv, RunnerOK
  <1>5. InputNames \cup SampleNames \cup { "logits" } \subseteq MayHold'
    BY <1>3, <1>4 DEF MayHold
  <1>6. DOMAIN h.held \subseteq GraphNames \cup MayHold'
    BY <1>1, <1>5
  <1>7. runner.kind = "warmup" => DOMAIN h.held \cap GraphNames = {}
    BY <1>1 DEF GraphNames
  <1>8. pc \in InRun /\ pc # "prepare" /\ pc \notin { "inputs", "sampling" } /\ runner.pc \in InRun
    BY <1>3 DEF InRun
  <1> QED  BY <1>3, <1>6, <1>7, <1>8, EnqueuesInv

\* The logits are a new tensor, and so are the last rows.
LEMMA HeadNames ==
    ASSUME RMInv, runner.pc = "head"
    PROVE  "last" \notin DOMAIN heap.held /\ "logits" \notin DOMAIN heap.held
  <1>1. DOMAIN heap.held \subseteq GraphNames \cup (InputNames \cup SampleNames
                                                                 \cup { "attended" })
    BY DEF RMInv, HeldOK, MayHold
  <1> QED  BY <1>1 DEF GraphNames, InputNames, SampleNames

LEMMA LogitsBytes ==
    ASSUME RMInv, runner.pc \in InRun
    PROVE  num_logits * HiddenBytes \in Nat
  BY RunRows, GraphAssumption, PositiveProduct

LEMMA ComputeLogitsInv == ASSUME RMInv, ComputeLogits PROVE RMInv'
  <1>1. PICK bytes : bytes = num_logits * HiddenBytes
    OBVIOUS
  <1>2. PICK g : g = allocate(heap, "logits", bytes)
    OBVIOUS
  <1>3. PICK h : h = return_blocks(g, << "attended" >>)
    OBVIOUS
  <1>4. /\ runner.pc = "head"
        /\ \E ops : Enqueues(h, ops, AfterLogits)
    BY <1>1, <1>2, <1>3 DEF ComputeLogits, Doing
  <1>5. bytes \in Nat
    BY <1>1, <1>4, LogitsBytes DEF InRun
  <1>6. SoundHeap(g) /\ DOMAIN g.held = DOMAIN heap.held \cup { "logits" }
    BY <1>2, <1>4, <1>5, HeadNames, AllocateSound DEF RMInv
  <1>7. SoundHeap(h) /\ DOMAIN h.held = DOMAIN g.held \ { "attended" }
    <2>1. PICK q : q = << "attended" >>
      OBVIOUS
    <2>2. q \in Seq(RunNames) /\ IsInjective(q) /\ ToSet(q) = { "attended" }
      BY <2>1, LayerReturns
    <2>3. SoundHeap(h) /\ DOMAIN h.held = DOMAIN g.held \ ToSet(q)
      BY <1>3, <1>6, <2>1, <2>2, ReturnSound
    <2> QED  BY <2>2, <2>3
  <1>8. DOMAIN h.held \subseteq (DOMAIN heap.held \ { "attended" }) \cup { "logits" }
    BY <1>6, <1>7
  <1> QED  BY <1>4, <1>7, <1>8, LogitsInv

LEMMA ComputeLastLogitsInv == ASSUME RMInv, ComputeLastLogits PROVE RMInv'
  <1>1. PICK bytes : bytes = num_logits * HiddenBytes
    OBVIOUS
  <1>2. PICK f, g : f = allocate(heap, "last", bytes) /\ g = allocate(f, "logits", bytes)
    OBVIOUS
  <1>3. PICK h : h = return_blocks(g, << "attended", "last" >>)
    OBVIOUS
  <1>4. /\ runner.pc = "head"
        /\ \E ops : Enqueues(h, ops, AfterLogits)
    BY <1>1, <1>2, <1>3 DEF ComputeLastLogits, Doing
  <1>5. bytes \in Nat
    BY <1>1, <1>4, LogitsBytes DEF InRun
  <1>6. SoundHeap(f) /\ DOMAIN f.held = DOMAIN heap.held \cup { "last" }
    BY <1>2, <1>4, <1>5, HeadNames, AllocateSound DEF RMInv
  <1>7. SoundHeap(g) /\ DOMAIN g.held = DOMAIN heap.held \cup { "last", "logits" }
    <2>1. "logits" \notin DOMAIN f.held
      BY <1>4, <1>6, HeadNames
    <2>2. SoundHeap(g) /\ DOMAIN g.held = DOMAIN f.held \cup { "logits" }
      BY <1>2, <1>5, <1>6, <2>1, AllocateSound
    <2> QED  BY <1>6, <2>2
  <1>8. SoundHeap(h) /\ DOMAIN h.held = DOMAIN g.held \ { "attended", "last" }
    <2>1. PICK q : q = << "attended", "last" >>
      OBVIOUS
    <2>2. q \in Seq(RunNames) /\ IsInjective(q) /\ ToSet(q) = { "attended", "last" }
      BY <2>1, LayerReturns
    <2>3. SoundHeap(h) /\ DOMAIN h.held = DOMAIN g.held \ ToSet(q)
      BY <1>3, <1>7, <2>1, <2>2, ReturnSound
    <2> QED  BY <2>2, <2>3
  <1>9. DOMAIN h.held \subseteq (DOMAIN heap.held \ { "attended" }) \cup { "logits" }
    BY <1>7, <1>8
  <1> QED  BY <1>4, <1>8, <1>9, LogitsInv

LEMMA SampleInv == ASSUME RMInv, Sample PROVE RMInv'
  <1>1. PICK bytes : bytes = 4 * Len(runner.batch)
    OBVIOUS
  <1>2. PICK h : h = allocate(heap, "output", bytes)
    OBVIOUS
  <1>3. /\ runner.pc = "sampler"
        /\ \E ops : Enqueues(h, ops, "sync")
    BY <1>1, <1>2 DEF Sample, Doing
  <1>4. bytes \in Nat
    <2>1. BatchOK
      BY <1>3 DEF RMInv, RunnerOK, InRun
    <2>2. Len(runner.batch) \in Nat
      BY <2>1, BatchPositions
    <2> QED  BY <1>1, <2>2
  <1>5. /\ DOMAIN heap.held \subseteq GraphNames \cup (InputNames \cup SampleNames
                                                                 \cup { "logits" })
        /\ runner.kind = "warmup" => DOMAIN heap.held \cap GraphNames = {}
        /\ SoundHeap(heap)
    BY <1>3 DEF RMInv, HeldOK, MayHold
  <1>6. "output" \notin DOMAIN heap.held
    BY <1>5 DEF GraphNames, InputNames, SampleNames
  <1>7. SoundHeap(h) /\ DOMAIN h.held = DOMAIN heap.held \cup { "output" }
    BY <1>2, <1>4, <1>5, <1>6, AllocateSound
  <1>8. PICK ops : Enqueues(h, ops, "sync")
    BY <1>3
  <1>9. runner'.pc = "sync"
    BY <1>8 DEF Enqueues, Goto, RMInv, RunnerOK
  <1>10. MayHold' = InputNames \cup SampleNames \cup { "logits", "output" }
    BY <1>9 DEF MayHold
  <1>11. DOMAIN h.held \subseteq GraphNames \cup MayHold'
    BY <1>5, <1>7, <1>10
  <1>12. runner.kind = "warmup" => DOMAIN h.held \cap GraphNames = {}
    BY <1>5, <1>7 DEF GraphNames
  <1>13. /\ "sync" \in InRun /\ runner.pc \in InRun
         /\ "sync" \notin { "inputs", "sampling", "sampler", "prepare" }
    BY <1>3 DEF InRun
  <1> QED  BY <1>7, <1>8, <1>11, <1>12, <1>13, EnqueuesInv

-----------------------------------------------------------------------------
(* The end of a run *)

\* After leaving a run the host is idle, or allocates the KV cache.
LEMMA LeaveInv ==
    ASSUME RMInv, NEW pc \in { "kv_cache", "idle" }, Leave(pc), SeqsTypeOK',
           pc = "kv_cache" => runner.kind = "warmup",
           runner.pc \notin { "buffers", "capture", "idle" }
    PROVE  RMInv'
  <1>1. /\ SoundHeap(heap') /\ StagedOK'
        /\ DOMAIN heap'.held = DOMAIN heap.held \cap GraphNames
        /\ runner'.pc = pc /\ runner'.kind = runner.kind
        /\ DOMAIN runner' = { "pc", "kind", "batch", "todo" }
    BY LeaveSound
  <1>2. RunnerOK'
    BY <1>1 DEF RMInv, RunnerOK, Phases, InRun
  <1>3. runner.kind = "warmup" => DOMAIN heap.held \cap GraphNames = {}
    BY DEF RMInv, HeldOK
  <1>4. HeldOK'
    BY <1>1, <1>3 DEF HeldOK
  <1>5. TodoOK'
    BY <1>1 DEF TodoOK
  <1> QED  BY <1>1, <1>2, <1>4, <1>5 DEF RMInv

LEMMA ReturnInv == ASSUME RMInv, Return PROVE RMInv'
  <1>1. PICK pc : pc = IF runner.kind = "warmup" THEN "kv_cache" ELSE "idle"
    OBVIOUS
  <1>2. /\ runner.pc = "sync" /\ Leave(pc) /\ pc \in { "kv_cache", "idle" }
        /\ pc = "kv_cache" => runner.kind = "warmup"
    BY <1>1 DEF Return, Doing
  <1>3. PICK B : B = ToSet(runner.batch)
    OBVIOUS
  <1>4. seqs' = [s \in SeqId |->
                    IF s \notin B THEN seqs[s]
                    ELSE IF seqs[s].len = MaxLen THEN [seqs[s] EXCEPT !.status = "gone"]
                    ELSE [status |-> "running", len |-> seqs[s].len + 1, cached |-> 0]]
    BY <1>3 DEF Return
  <1>5. SeqsTypeOK
    BY DEF RMInv
  <1>6. SeqsTypeOK'
    <2> DEFINE next(s) == IF s \notin B THEN seqs[s]
                          ELSE IF seqs[s].len = MaxLen THEN [seqs[s] EXCEPT !.status = "gone"]
                          ELSE [status |-> "running", len |-> seqs[s].len + 1, cached |-> 0]
               R == [status : {"waiting", "running", "gone"}, len : 1 .. MaxLen, cached : Nat]
    <2>1. ASSUME NEW s \in SeqId
          PROVE  next(s) \in R /\ next(s).cached < next(s).len
      <3>1. seqs[s] \in R /\ seqs[s].cached < seqs[s].len
        BY <1>5 DEF SeqsTypeOK
      <3>2. CASE s \notin B
        BY <3>1, <3>2
      <3>3. CASE s \in B /\ seqs[s].len = MaxLen
        <4>1. next(s) = [seqs[s] EXCEPT !.status = "gone"]
          BY <3>3
        <4> HIDE DEF next
        <4> QED  BY <3>1, <4>1
      <3>4. CASE s \in B /\ seqs[s].len # MaxLen
        <4>1. next(s) = [status |-> "running", len |-> seqs[s].len + 1, cached |-> 0]
          BY <3>4
        <4>2. PICK n, m \in Nat : n = seqs[s].len /\ m = MaxLen /\ n \in 1 .. m
          BY <3>1, RunnerAssumption
        <4>3. n # m
          BY <3>4, <4>2
        <4>4. n + 1 \in 1 .. m /\ 0 < n + 1
          <5> HIDE DEF next, R
          <5>1. n \in 1 .. m
            BY <4>2
          <5> QED  BY <4>3, <5>1, OneMore
        <4> HIDE DEF next
        <4> QED  BY <4>1, <4>2, <4>4
      <3> QED  BY <3>2, <3>3, <3>4
    <2>2. seqs' = [s \in SeqId |-> next(s)]
      BY <1>4
    <2> HIDE DEF next
    <2> QED  BY <2>1, <2>2 DEF SeqsTypeOK
  <1> QED  BY <1>2, <1>6, LeaveInv

LEMMA TablesRefusedInv == ASSUME RMInv, TablesRefused PROVE RMInv'
  <1>1. runner.pc = "tables" /\ Leave("idle") /\ seqs' = seqs
    BY DEF TablesRefused, Doing
  <1>2. SeqsTypeOK'
    BY <1>1 DEF RMInv, SeqsTypeOK
  <1> QED  BY <1>1, <1>2, LeaveInv

LEMMA MallocFailsInv == ASSUME RMInv, MallocFails PROVE RMInv'
  <1>1. runner.pc \in { "inputs", "sampling" } /\ Leave("idle") /\ AbandonPrefill
    BY DEF MallocFails
  <1>2. SeqsTypeOK
    BY DEF RMInv
  <1>3. SeqsTypeOK'
    BY <1>1, <1>2, RunnerAssumption DEF SeqsTypeOK, AbandonPrefill
  <1> QED  BY <1>1, <1>3, LeaveInv

-----------------------------------------------------------------------------
(* The rest of the constructor *)

LEMMA AllocateKVCacheInv == ASSUME RMInv, allocate_kv_cache PROVE RMInv'
  <1>1. /\ runner.pc = "kv_cache" /\ seqs' = seqs
        /\ heap' = heap /\ pinned' = pinned /\ staged' = staged
    BY DEF allocate_kv_cache, Doing, memoryVars
  <1>2. PICK todo : todo = IF config.enforce_eager THEN runner.todo ELSE ZeroInputs
    OBVIOUS
  <1>3. PICK pc : pc = IF config.enforce_eager THEN "idle" ELSE "buffers"
    OBVIOUS
  <1>4. runner' = [runner EXCEPT !.pc = pc, !.todo = todo]
    BY <1>2, <1>3 DEF allocate_kv_cache, RMInv, RunnerOK
  <1>5. /\ SoundHeap(heap') /\ StagedOK' /\ SeqsTypeOK'
        /\ DOMAIN runner' = { "pc", "kind", "batch", "todo" }
        /\ runner'.pc = pc /\ runner'.kind = runner.kind /\ runner'.todo = todo
    BY <1>1, <1>4, RunnerMoves
  <1>6. DOMAIN heap.held = {} /\ runner.kind = "warmup" /\ pc \in { "idle", "buffers" }
    BY <1>1, <1>3 DEF RMInv, RunnerOK, HeldOK, MayHold
  <1>7. RunnerOK'
    BY <1>5, <1>6 DEF RunnerOK, Phases, InRun
  <1>8. HeldOK'
    BY <1>1, <1>6 DEF HeldOK
  <1>9. pc = "buffers" => SoundTodo(todo, GraphNames)
    BY <1>2, <1>3, ZeroInputsSound
  <1>10. TodoOK'
    BY <1>1, <1>5, <1>6, <1>9 DEF TodoOK, Fresh
  <1> QED  BY <1>5, <1>7, <1>8, <1>10 DEF RMInv

LEMMA ZeroNextInv == ASSUME RMInv, ZeroNext PROVE RMInv'
  <1>1. PICK name, bytes, value :
            /\ name = Head(runner.todo).name /\ bytes = Head(runner.todo).bytes
            /\ value = Head(runner.todo).value
    OBVIOUS
  <1>2. /\ runner.pc = "buffers" /\ runner.todo # << >> /\ seqs' = seqs
        /\ heap' = allocate(heap, name, bytes) /\ pinned' = pinned /\ staged' = staged
        /\ runner' = [runner EXCEPT !.todo = Tail(@)]
    BY <1>1 DEF ZeroNext, Doing, zeros
  <1>3. SoundTodo(runner.todo, GraphNames) /\ Fresh(runner.todo)
    BY <1>2 DEF RMInv, TodoOK
  <1>4. PICK todo : todo = Tail(runner.todo)
    OBVIOUS
  <1>5. /\ name \in GraphNames /\ bytes \in Nat \ {0} /\ SoundTodo(todo, GraphNames)
        /\ \A i \in 1 .. Len(todo) :
               todo[i].name # name /\ \E j \in 1 .. Len(runner.todo) : todo[i] = runner.todo[j]
        /\ \E j \in 1 .. Len(runner.todo) : Head(runner.todo) = runner.todo[j]
    <2>1. PICK r : r = runner.todo
      OBVIOUS
    <2>2. SoundTodo(r, GraphNames) /\ r # << >>
      BY <1>2, <1>3, <2>1
    <2>3. /\ Head(r).name \in GraphNames /\ Head(r).bytes \in Nat \ {0}
          /\ SoundTodo(Tail(r), GraphNames)
          /\ \A i \in 1 .. Len(Tail(r)) :
                 /\ Tail(r)[i].name # Head(r).name
                 /\ \E j \in 1 .. Len(r) : Tail(r)[i] = r[j]
          /\ \E j \in 1 .. Len(r) : Head(r) = r[j]
      BY <2>2, TodoHead
    <2> QED  BY <1>1, <1>4, <2>1, <2>3, ZenonT(30)
  <1>6. name \notin DOMAIN heap.held
    BY <1>1, <1>3, <1>5 DEF Fresh
  <1>7. SoundHeap(heap') /\ DOMAIN heap'.held = DOMAIN heap.held \cup {name}
    BY <1>2, <1>5, <1>6, AllocateSound DEF RMInv
  <1>8. /\ DOMAIN runner' = { "pc", "kind", "batch", "todo" }
        /\ runner'.pc = runner.pc /\ runner'.kind = runner.kind /\ runner'.batch = runner.batch
        /\ runner'.todo = todo
    BY <1>2, <1>4 DEF RMInv, RunnerOK
  <1>9. SeqsTypeOK' /\ StagedOK'
    BY <1>2 DEF RMInv, SeqsTypeOK, StagedOK
  <1>10. RunnerOK'
    BY <1>8 DEF RMInv, RunnerOK, BatchOK
  <1>11. HeldOK'
    <2>1. DOMAIN heap.held \subseteq GraphNames
      BY <1>2 DEF RMInv, HeldOK, MayHold
    <2> QED  BY <1>2, <1>5, <1>7, <1>8, <2>1 DEF HeldOK
  <1>12. \A i \in 1 .. Len(todo) : todo[i].name \notin DOMAIN heap'.held
    BY <1>3, <1>5, <1>7 DEF Fresh
  <1>13. TodoOK'
    BY <1>2, <1>5, <1>8, <1>12 DEF TodoOK, Fresh
  <1> QED  BY <1>7, <1>9, <1>10, <1>11, <1>13 DEF RMInv

\* The probe, the captures and the end of them leave the memory alone.
LEMMA CaptureStepsInv == ASSUME RMInv, Probe \/ Capture \/ Captured PROVE RMInv'
  <1>r. DOMAIN runner = { "pc", "kind", "batch", "todo" }
    BY DEF RMInv, RunnerOK
  <1>1. /\ runner.pc \in { "buffers", "capture" } /\ runner'.pc \in { "capture", "idle" }
        /\ runner'.kind = runner.kind /\ DOMAIN runner' = { "pc", "kind", "batch", "todo" }
    <2>1. CASE Probe
      BY <1>r, <2>1 DEF Probe, Goto, Doing
    <2>2. CASE Capture
      BY <1>r, <2>2 DEF Capture, Doing
    <2>3. CASE Captured
      BY <1>r, <2>3 DEF Captured, Goto, Doing
    <2> QED  BY <2>1, <2>2, <2>3
  <1>2. /\ heap' = heap /\ pinned' = pinned /\ staged' = staged /\ seqs' = seqs
    BY DEF Probe, Capture, Captured, CaptureProbe, CaptureGraph, kernelVars, memoryVars
  <1>3. SoundHeap(heap') /\ StagedOK' /\ SeqsTypeOK'
    BY <1>2 DEF RMInv, StagedOK, SeqsTypeOK
  <1>5. RunnerOK'
    BY <1>1 DEF RMInv, RunnerOK, Phases, InRun
  <1>6. HeldOK'
    <2>1. DOMAIN heap.held \subseteq GraphNames
      BY <1>1 DEF RMInv, HeldOK, MayHold
    <2> QED  BY <1>1, <1>2, <2>1 DEF HeldOK
  <1>7. TodoOK'
    BY <1>1 DEF TodoOK
  <1> QED  BY <1>3, <1>5, <1>6, <1>7 DEF RMInv

LEMMA StreamInv == ASSUME RMInv, Stream PROVE RMInv'
  <1>1. /\ heap' = heap /\ pinned' = pinned /\ staged' = staged
        /\ seqs' = seqs /\ runner' = runner
    BY DEF Stream, Execute, Executing, Writes, ExecuteCopyToDevice, ExecuteZeros,
           ExecuteMemset, ExecuteCopy, ExecuteCopy2D, ExecuteStore, ExecuteFused,
           ExecuteAttention, ExecuteCopyToHost
  <1> QED  BY <1>1 DEF RMInv, StagedOK, SeqsTypeOK, RunnerOK, HeldOK, TodoOK, BatchOK,
                       MayHold, Fresh

-----------------------------------------------------------------------------
\* The allocator hands no block out twice and loses none, staging stays within
\* its buffer, and a run leaves nothing behind when it ends, returns and fails
\* alike.
THEOREM RunnerMemoryTypeOK == RMSpec => []RMTypeOK
  <1>1. RMInv /\ [RMNext]_vars => RMInv'
    <2> SUFFICES ASSUME RMInv, [RMNext]_vars
                 PROVE  RMInv'
      OBVIOUS
    <2>1. ASSUME Construct \/ PrepareInputs \/ UploadNext \/ SetContext
          PROVE  RMInv'
      BY <2>1, ConstructInv, PrepareInputsInv, UploadNextInv, SetContextInv
    <2>2. ASSUME RunModel \/ CopyGraphInputs \/ Replay
          PROVE  RMInv'
      BY <2>2, RunModelInv, CopyGraphInputsInv, ReplayInv
    <2>3. ASSUME ComputeLogits \/ ComputeLastLogits \/ Sample
          PROVE  RMInv'
      BY <2>3, ComputeLogitsInv, ComputeLastLogitsInv, SampleInv
    <2>4. ASSUME Return \/ TablesRefused \/ MallocFails
          PROVE  RMInv'
      BY <2>4, ReturnInv, TablesRefusedInv, MallocFailsInv
    <2>5. ASSUME allocate_kv_cache \/ ZeroNext \/ Probe \/ Capture \/ Captured
          PROVE  RMInv'
      BY <2>5, AllocateKVCacheInv, ZeroNextInv, CaptureStepsInv
    <2>6. ASSUME Caller
          PROVE  RMInv'
      BY <2>6, FinishInv, PreemptInv, BeginInv DEF Caller
    <2>7. ASSUME Stream
          PROVE  RMInv'
      BY <2>7, StreamInv
    <2>8. ASSUME UNCHANGED vars
          PROVE  RMInv'
      <3>1. /\ heap' = heap /\ pinned' = pinned /\ staged' = staged
            /\ seqs' = seqs /\ runner' = runner
        BY <2>8 DEF vars, kernelVars, memoryVars
      <3> QED  BY <3>1 DEF RMInv, StagedOK, SeqsTypeOK, RunnerOK, HeldOK, TodoOK, BatchOK,
                           MayHold, Fresh
    <2> QED  BY <2>1, <2>2, <2>3, <2>4, <2>5, <2>6, <2>7, <2>8 DEF RMNext, Host
  <1> QED  BY <1>1, RMInitInv, RMInvTypeOK, PTL DEF RMSpec
=============================================================================
