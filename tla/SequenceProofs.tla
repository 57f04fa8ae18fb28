--------------------------- MODULE SequenceProofs ---------------------------
(***************************************************************************)
(* Lemmas about the block arithmetic of a request, for every block size,   *)
(* and about the chain of its blocks.                                      *)
(***************************************************************************)
EXTENDS Sequence, QueueProofs

-----------------------------------------------------------------------------
(* Multiples of the block size *)

\* Multiplying by the block size keeps the order, strictly.
LEMMA BlockMultiples ==
    ASSUME NEW a \in Int, NEW b \in Int
    PROVE  /\ a * BLOCK_SIZE \in Int
           /\ a <= b <=> a * BLOCK_SIZE <= b * BLOCK_SIZE
           /\ a < b <=> a * BLOCK_SIZE + BLOCK_SIZE <= b * BLOCK_SIZE
           /\ (a + 1) * BLOCK_SIZE = a * BLOCK_SIZE + BLOCK_SIZE
           /\ (a - 1) * BLOCK_SIZE = a * BLOCK_SIZE - BLOCK_SIZE
           /\ BLOCK_SIZE * a = a * BLOCK_SIZE
  <1>1. BLOCK_SIZE \in Int /\ BLOCK_SIZE > 0
    BY BlockSizeAssumption
  <1>2. /\ a * BLOCK_SIZE \in Int /\ b * BLOCK_SIZE \in Int
        /\ (a + 1) * BLOCK_SIZE = a * BLOCK_SIZE + BLOCK_SIZE
        /\ (a - 1) * BLOCK_SIZE = a * BLOCK_SIZE - BLOCK_SIZE
        /\ BLOCK_SIZE * a = a * BLOCK_SIZE
    BY <1>1
  <1>3. ASSUME NEW x \in Int, NEW y \in Int, x <= y
        PROVE  x * BLOCK_SIZE <= y * BLOCK_SIZE
    <2>1. (y - x) * BLOCK_SIZE >= 0
      BY <1>1, <1>3
    <2> QED  BY <1>1, <2>1
  <1>4. ASSUME NEW x \in Int, NEW y \in Int, x < y
        PROVE  x * BLOCK_SIZE + BLOCK_SIZE <= y * BLOCK_SIZE
    <2>1. (x + 1) * BLOCK_SIZE <= y * BLOCK_SIZE
      BY <1>3, <1>4
    <2> QED  BY <1>1, <2>1
  <1>5. CASE a < b
    BY <1>1, <1>2, <1>3, <1>4, <1>5
  <1>6. CASE a = b
    BY <1>1, <1>2, <1>6
  <1>7. CASE b < a
    <2>1. b * BLOCK_SIZE + BLOCK_SIZE <= a * BLOCK_SIZE
      BY <1>4, <1>7
    <2>2. b * BLOCK_SIZE < a * BLOCK_SIZE
      BY <1>1, <1>2, <2>1
    <2> QED  BY <1>1, <1>2, <1>7, <2>1, <2>2
  <1> QED  BY <1>5, <1>6, <1>7

\* A number of blocks is a number of tokens.
LEMMA BlockProduct ==
    ASSUME NEW a \in Int
    PROVE  a * BLOCK_SIZE \in Int
  BY BlockSizeAssumption

\* The quotient and the remainder by the block size.
LEMMA BlockDivision ==
    ASSUME NEW x \in Int
    PROVE  /\ x \div BLOCK_SIZE \in Int
           /\ x % BLOCK_SIZE \in 0 .. BLOCK_SIZE - 1
           /\ x = (x \div BLOCK_SIZE) * BLOCK_SIZE + (x % BLOCK_SIZE)
  BY BlockSizeAssumption

\* A number between two multiples has that quotient and that remainder.
LEMMA BlockQuotient ==
    ASSUME NEW x \in Int, NEW q \in Int, NEW r \in 0 .. BLOCK_SIZE - 1,
           x = q * BLOCK_SIZE + r
    PROVE  x \div BLOCK_SIZE = q /\ x % BLOCK_SIZE = r
  <1> DEFINE d == x \div BLOCK_SIZE
             m == x % BLOCK_SIZE
  <1>1. /\ d \in Int /\ m \in 0 .. BLOCK_SIZE - 1
        /\ x = d * BLOCK_SIZE + m
    BY BlockDivision
  <1>2. BLOCK_SIZE \in Int
    BY BlockSizeAssumption
  <1> HIDE DEF d, m
  <1>3. d * BLOCK_SIZE \in Int /\ q * BLOCK_SIZE \in Int
    BY <1>1, BlockMultiples
  <1>4. ~(d < q)
    <2>1. d < q => d * BLOCK_SIZE + BLOCK_SIZE <= q * BLOCK_SIZE
      BY <1>1, BlockMultiples
    <2> QED  BY <1>1, <1>2, <1>3, <2>1
  <1>5. ~(q < d)
    <2>1. q < d => q * BLOCK_SIZE + BLOCK_SIZE <= d * BLOCK_SIZE
      BY <1>1, BlockMultiples
    <2> QED  BY <1>1, <1>2, <1>3, <2>1
  <1>6. d = q
    BY <1>1, <1>4, <1>5
  <1>7. m = r
    BY <1>1, <1>2, <1>3, <1>6
  <1> QED  BY <1>6, <1>7 DEF d, m

\* A block more than whole blocks is whole blocks.
LEMMA BlockMultipleNext ==
    ASSUME NEW x \in Int, x % BLOCK_SIZE = 0
    PROVE  (x + BLOCK_SIZE) % BLOCK_SIZE = 0
  <1> DEFINE d == x \div BLOCK_SIZE
  <1>1. d \in Int /\ x = d * BLOCK_SIZE + 0
    BY BlockDivision
  <1> HIDE DEF d
  <1>2. x + BLOCK_SIZE = (d + 1) * BLOCK_SIZE + 0
    BY <1>1, BlockSizeAssumption
  <1>3. d + 1 \in Int /\ x + BLOCK_SIZE \in Int /\ 0 \in 0 .. BLOCK_SIZE - 1
    BY <1>1, BlockSizeAssumption
  <1> QED  BY <1>2, <1>3, BlockQuotient

\* One more token in n blocks that are not empty: it opens a new block, fills
\* the last one, or neither, and the remainder tells which.
LEMMA NextRemainder ==
    ASSUME NEW c \in Int, NEW n \in Int,
           (n - 1) * BLOCK_SIZE < c, c <= n * BLOCK_SIZE
    PROVE  /\ (c + 1) % BLOCK_SIZE = 1 <=> c = n * BLOCK_SIZE
           /\ (c + 1) % BLOCK_SIZE = 0 <=> c + 1 = n * BLOCK_SIZE
  <1> DEFINE r == c + 1 - (n - 1) * BLOCK_SIZE
             m == n * BLOCK_SIZE
  <1>1. /\ BLOCK_SIZE \in Nat /\ BLOCK_SIZE >= 2
        /\ m \in Int /\ (n - 1) * BLOCK_SIZE = m - BLOCK_SIZE
    BY BlockSizeAssumption, BlockMultiples
  <1>2. CASE c = m
    <2>1. c + 1 = n * BLOCK_SIZE + 1 /\ 1 \in 0 .. BLOCK_SIZE - 1
      BY <1>1, <1>2
    <2>2. (c + 1) % BLOCK_SIZE = 1
      BY <2>1, BlockQuotient
    <2> HIDE DEF m
    <2>3. c + 1 # m
      BY <1>2
    <2> QED  BY <1>2, <2>2, <2>3 DEF m
  <1>3. CASE c + 1 = m
    <2>1. c + 1 = n * BLOCK_SIZE + 0 /\ 0 \in 0 .. BLOCK_SIZE - 1
      BY <1>1, <1>3
    <2>2. (c + 1) % BLOCK_SIZE = 0
      BY <2>1, BlockQuotient
    <2> HIDE DEF m
    <2>3. c # m
      BY <1>3
    <2> QED  BY <1>3, <2>2, <2>3 DEF m
  <1>4. CASE c # m /\ c + 1 # m
    <2>1. c + 1 = (n - 1) * BLOCK_SIZE + r /\ r \in 2 .. BLOCK_SIZE - 1
      <3>1. PICK k \in Int : k = (n - 1) * BLOCK_SIZE
        BY <1>1
      <3>2. r = c + 1 - k
        BY <3>1
      <3>3. k < c /\ c <= m /\ k = m - BLOCK_SIZE
        BY <1>1, <3>1
      <3> HIDE DEF m, r
      <3>4. c + 1 = k + r
        BY <3>2
      <3>5. r \in 2 .. BLOCK_SIZE - 1
        BY <1>1, <1>4, <3>2, <3>3
      <3> QED  BY <3>1, <3>4, <3>5
    <2> HIDE DEF r
    <2>2. (c + 1) % BLOCK_SIZE = r
      <3>1. c + 1 \in Int /\ n - 1 \in Int /\ r \in 0 .. BLOCK_SIZE - 1
        BY <1>1, <2>1
      <3> QED  BY <2>1, <3>1, BlockQuotient
    <2> QED  BY <1>1, <1>4, <2>1, <2>2
  <1> QED  BY <1>2, <1>3, <1>4

-----------------------------------------------------------------------------
(* Logical blocks *)

\* num_blocks is the least number of blocks that hold the tokens.
LEMMA NumBlocksCeil ==
    ASSUME NEW t \in Seq(Token), NEW n \in Int
    PROVE  /\ num_blocks(t) \in Nat
           /\ n < num_blocks(t) <=> n * BLOCK_SIZE < Len(t)
           /\ n = num_blocks(t) <=> /\ (n - 1) * BLOCK_SIZE < Len(t)
                                    /\ Len(t) <= n * BLOCK_SIZE
  <1> DEFINE x == Len(t) + BLOCK_SIZE - 1
             d == x \div BLOCK_SIZE
             m == x % BLOCK_SIZE
  <1>1. Len(t) \in Nat /\ BLOCK_SIZE \in Nat /\ BLOCK_SIZE >= 2
    BY LenProperties, BlockSizeAssumption
  <1>2. x \in Int /\ num_blocks(t) = d
    BY <1>1 DEF num_blocks
  <1>3. /\ d \in Int /\ m \in 0 .. BLOCK_SIZE - 1
        /\ x = d * BLOCK_SIZE + m
    BY <1>2, BlockDivision
  <1>4. d * BLOCK_SIZE \in Int /\ n * BLOCK_SIZE \in Int
    BY <1>3, BlockMultiples
  <1> HIDE DEF d, m
  <1>5. /\ d * BLOCK_SIZE >= Len(t)
        /\ d * BLOCK_SIZE < Len(t) + BLOCK_SIZE
    BY <1>1, <1>3, <1>4
  <1>6. ASSUME NEW k \in Int, k < d
        PROVE  k * BLOCK_SIZE \in Int /\ k * BLOCK_SIZE < Len(t)
    <2>1. k * BLOCK_SIZE + BLOCK_SIZE <= d * BLOCK_SIZE /\ k * BLOCK_SIZE \in Int
      BY <1>3, <1>6, BlockMultiples
    <2> QED  BY <1>1, <1>4, <1>5, <2>1
  <1>7. ASSUME NEW k \in Int, d <= k
        PROVE  k * BLOCK_SIZE \in Int /\ Len(t) <= k * BLOCK_SIZE
    <2>1. d * BLOCK_SIZE <= k * BLOCK_SIZE /\ k * BLOCK_SIZE \in Int
      BY <1>3, <1>7, BlockMultiples
    <2> QED  BY <1>1, <1>4, <1>5, <2>1
  <1>8. d >= 0
    <2>1. CASE d < 0
      <3>1. d * BLOCK_SIZE + BLOCK_SIZE <= 0 * BLOCK_SIZE
        BY <1>3, <2>1, BlockMultiples
      <3>2. 0 * BLOCK_SIZE = 0
        BY <1>1
      <3> QED  BY <1>1, <1>4, <1>5, <3>1, <3>2
    <2> QED  BY <1>3, <2>1
  <1>9. n < d <=> n * BLOCK_SIZE < Len(t)
    BY <1>1, <1>3, <1>4, <1>6, <1>7
  <1>10. n - 1 < d <=> (n - 1) * BLOCK_SIZE < Len(t)
    <2>1. (n - 1) * BLOCK_SIZE \in Int
      BY BlockMultiples
    <2> QED  BY <1>1, <1>3, <1>6, <1>7, <2>1
  <1> HIDE DEF x
  <1>11. n = d <=> (n - 1) * BLOCK_SIZE < Len(t) /\ Len(t) <= n * BLOCK_SIZE
    <2>1. n = d <=> n - 1 < d /\ ~(n < d)
      BY <1>3
    <2> QED  BY <1>1, <1>4, <1>9, <1>10, <2>1
  <1> QED  BY <1>2, <1>3, <1>8, <1>9, <1>11

\* A non-empty request has at least one logical block.
LEMMA NumBlocksType ==
    ASSUME NEW t \in Seq(Token)
    PROVE  /\ num_blocks(t) \in Nat
           /\ t # << >> => num_blocks(t) > 0
  <1>1. Len(t) \in Nat /\ (t # << >> => Len(t) > 0)
    BY EmptySeq, LenProperties
  <1>2. num_blocks(t) \in Nat /\ (0 < num_blocks(t) <=> 0 * BLOCK_SIZE < Len(t))
    BY NumBlocksCeil
  <1>3. 0 * BLOCK_SIZE = 0
    BY BlockSizeAssumption
  <1> QED  BY <1>1, <1>2, <1>3

\* A logical block is a sequence of tokens.
LEMMA BlockType ==
    ASSUME NEW t \in Seq(Token), NEW i \in Nat
    PROVE  block(t, i) \in Seq(Token)
  <1> DEFINE start == i * BLOCK_SIZE
             end == IF start + BLOCK_SIZE <= Len(t)
                    THEN start + BLOCK_SIZE ELSE Len(t)
  <1>1. start \in Nat /\ end \in Nat /\ end <= Len(t) /\ Len(t) \in Nat
    BY BlockSizeAssumption, LenProperties
  <1>2. \A k \in start + 1 .. end : t[k] \in Token
    BY <1>1, ElementOfSeq
  <1> HIDE DEF start, end
  <1>3. SubSeq(t, start + 1, end) \in Seq(Token)
    BY <1>1, <1>2, SubSeqProperties
  <1> QED  BY <1>3 DEF block, start, end

\* A logical block has BLOCK_SIZE tokens exactly when the tokens reach its end.
LEMMA BlockFull ==
    ASSUME NEW t \in Seq(Token), NEW i \in Nat
    PROVE  Len(block(t, i)) = BLOCK_SIZE <=> (i + 1) * BLOCK_SIZE <= Len(t)
  <1> DEFINE start == i * BLOCK_SIZE
             end == IF start + BLOCK_SIZE <= Len(t)
                    THEN start + BLOCK_SIZE ELSE Len(t)
  <1>1. /\ start \in Nat /\ end \in Nat /\ end <= Len(t) /\ Len(t) \in Nat
        /\ BLOCK_SIZE \in Nat /\ BLOCK_SIZE >= 2
    BY BlockSizeAssumption, LenProperties
  <1>2. (i + 1) * BLOCK_SIZE = start + BLOCK_SIZE
    BY BlockMultiples
  <1>3. \A k \in start + 1 .. end : t[k] \in Token
    BY <1>1, ElementOfSeq
  <1>4. CASE start + BLOCK_SIZE <= Len(t)
    <2>1. end = start + BLOCK_SIZE
      BY <1>4
    <2> HIDE DEF end, start
    <2>2. Len(SubSeq(t, start + 1, end)) = end - (start + 1) + 1
      BY <1>1, <1>3, <2>1, SubSeqProperties
    <2>3. Len(SubSeq(t, start + 1, end)) = BLOCK_SIZE
      BY <1>1, <2>1, <2>2
    <2> QED  BY <1>2, <1>4, <2>3 DEF block, start, end
  <1>5. CASE ~(start + BLOCK_SIZE <= Len(t))
    <2>1. end = Len(t)
      BY <1>5
    <2>2. end < start + BLOCK_SIZE
      BY <1>1, <1>5
    <2> HIDE DEF end, start
    <2>3. Len(SubSeq(t, start + 1, end)) =
              IF start + 1 <= end THEN end - (start + 1) + 1 ELSE 0
      BY <1>1, <1>3, SubSeqProperties
    <2>4. Len(SubSeq(t, start + 1, end)) # BLOCK_SIZE
      BY <1>1, <2>2, <2>3
    <2> QED  BY <1>2, <1>5, <2>4 DEF block, start, end
  <1> QED  BY <1>4, <1>5

\* Appending a token changes no block that was full.
LEMMA BlockAppend ==
    ASSUME NEW t \in Seq(Token), NEW x \in Token, NEW i \in Nat,
           (i + 1) * BLOCK_SIZE <= Len(t)
    PROVE  block(Append(t, x), i) = block(t, i)
  <1> DEFINE start == i * BLOCK_SIZE
             end == start + BLOCK_SIZE
             u == Append(t, x)
  <1>1. /\ start \in Nat /\ end \in Nat /\ Len(t) \in Nat
        /\ BLOCK_SIZE \in Nat /\ BLOCK_SIZE >= 2
    BY BlockSizeAssumption, LenProperties
  <1>2. end <= Len(t)
    BY BlockMultiples
  <1>3. /\ u \in Seq(Token) /\ Len(u) = Len(t) + 1
        /\ \A k \in 1 .. Len(t) : u[k] = t[k]
    BY AppendProperties
  <1> HIDE DEF u
  <1>4. block(t, i) = SubSeq(t, start + 1, end) /\ block(u, i) = SubSeq(u, start + 1, end)
    <2>1. start + BLOCK_SIZE <= Len(u)
      BY <1>1, <1>2, <1>3
    <2> QED  BY <1>1, <1>2, <2>1 DEF block
  <1> HIDE DEF start, end
  <1>5. \A k \in start + 1 .. end : t[k] = u[k] /\ t[k] \in Token
    <2> TAKE k \in start + 1 .. end
    <2>1. k \in 1 .. Len(t)
      BY <1>1, <1>2
    <2> QED  BY <1>3, <2>1, ElementOfSeq
  <1>6. SubSeq(t, start + 1, end) = SubSeq(u, start + 1, end)
    BY <1>1, <1>5, SubSeqProperties
  <1> QED  BY <1>4, <1>6 DEF u

\* The elements of a full block are tokens of the request, in their order.
LEMMA BlockElement ==
    ASSUME NEW t \in Seq(Token), NEW i \in Nat, (i + 1) * BLOCK_SIZE <= Len(t),
           NEW m \in 1 .. BLOCK_SIZE
    PROVE  block(t, i)[m] = t[i * BLOCK_SIZE + m]
  <1> DEFINE start == i * BLOCK_SIZE
             end == start + BLOCK_SIZE
  <1>1. /\ start \in Nat /\ end \in Nat /\ Len(t) \in Nat
        /\ BLOCK_SIZE \in Nat /\ BLOCK_SIZE >= 2
    BY BlockSizeAssumption, LenProperties
  <1>2. end <= Len(t)
    BY BlockMultiples
  <1>3. block(t, i) = SubSeq(t, start + 1, end)
    BY <1>2 DEF block
  <1>4. end = start + BLOCK_SIZE
    OBVIOUS
  <1> HIDE DEF start, end
  <1>5. \A k \in start + 1 .. end : t[k] \in Token
    <2> TAKE k \in start + 1 .. end
    <2>1. k \in 1 .. Len(t)
      BY <1>1, <1>2
    <2> QED  BY <2>1, ElementOfSeq
  <1>6. \A k \in 1 .. end - (start + 1) + 1 :
            SubSeq(t, start + 1, end)[k] = t[start + k]
    BY <1>1, <1>4, <1>5, SubSeqProperties
  <1> QED  BY <1>1, <1>3, <1>4, <1>6 DEF start

\* The chain hash of the first i blocks.
Chain(t, i) == [j \in 1 .. i |-> block(t, j - 1)]

\* compute_hash makes a chain longer by a block.
LEMMA ChainAppend ==
    ASSUME NEW t \in Seq(Token), NEW i \in Nat
    PROVE  /\ Chain(t, i) \in Seq(Seq(Token)) /\ Len(Chain(t, i)) = i
           /\ Append(Chain(t, i), block(t, i)) = Chain(t, i + 1)
           /\ Chain(t, 0) = << >>
  <1>1. \A j \in 1 .. i + 1 : block(t, j - 1) \in Seq(Token)
    <2> TAKE j \in 1 .. i + 1
    <2>1. j - 1 \in Nat
      OBVIOUS
    <2> QED  BY <2>1, BlockType
  <1>2. /\ Chain(t, i) \in Seq(Seq(Token)) /\ Len(Chain(t, i)) = i
        /\ Chain(t, i + 1) \in Seq(Seq(Token)) /\ Len(Chain(t, i + 1)) = i + 1
    <2>1. Chain(t, i) \in [1 .. i -> Seq(Token)]
      BY <1>1 DEF Chain
    <2>2. Chain(t, i + 1) \in [1 .. i + 1 -> Seq(Token)]
      BY <1>1 DEF Chain
    <2>3. \A n \in Nat : \A f \in [1 .. n -> Seq(Token)] :
              f \in Seq(Seq(Token)) /\ Len(f) = n
      BY SeqDef, LenProperties
    <2> QED  BY <2>1, <2>2, <2>3
  <1>3. Append(Chain(t, i), block(t, i)) = Chain(t, i + 1)
    <2> DEFINE a == Append(Chain(t, i), block(t, i))
    <2>1. block(t, i) \in Seq(Token)
      BY BlockType
    <2>2. /\ a \in Seq(Seq(Token)) /\ Len(a) = i + 1
          /\ \A j \in 1 .. i : a[j] = Chain(t, i)[j]
          /\ a[i + 1] = block(t, i)
      BY <1>2, <2>1, AppendProperties
    <2> HIDE DEF a
    <2>3. \A j \in 1 .. i + 1 : a[j] = Chain(t, i + 1)[j]
      <3> TAKE j \in 1 .. i + 1
      <3>1. Chain(t, i + 1)[j] = block(t, j - 1)
        BY DEF Chain
      <3>2. CASE j \in 1 .. i
        BY <2>2, <3>1, <3>2 DEF Chain
      <3>3. CASE j = i + 1
        <4>1. j - 1 = i
          BY <3>3
        <4> QED  BY <2>2, <3>1, <3>3, <4>1
      <3> QED  BY <3>2, <3>3
    <2>4. a = Chain(t, i + 1)
      BY <1>2, <2>2, <2>3, SeqEqual
    <2> QED  BY <2>4 DEF a
  <1>4. Chain(t, 0) = << >>
    BY EmptySeq DEF Chain
  <1> QED  BY <1>2, <1>3, <1>4

\* Equal chains of full blocks are chains of equal tokens.
LEMMA ChainPrefix ==
    ASSUME NEW t \in Seq(Token), NEW u \in Seq(Token), NEW i \in Nat,
           i * BLOCK_SIZE <= Len(t), i * BLOCK_SIZE <= Len(u),
           Chain(t, i) = Chain(u, i),
           NEW m \in 0 .. i * BLOCK_SIZE
    PROVE  SubSeq(t, 1, m) = SubSeq(u, 1, m)
  <1>1. /\ i * BLOCK_SIZE \in Nat /\ Len(t) \in Nat /\ Len(u) \in Nat
        /\ BLOCK_SIZE \in Nat /\ BLOCK_SIZE >= 2
    BY BlockSizeAssumption, LenProperties
  <1>2. \A j \in 1 .. i : block(t, j - 1) = block(u, j - 1)
    <2> TAKE j \in 1 .. i
    <2>1. Chain(t, i)[j] = Chain(u, i)[j]
      OBVIOUS
    <2> QED  BY <2>1 DEF Chain
  <1>3. ASSUME NEW k \in 1 .. m
        PROVE  t[k] = u[k] /\ t[k] \in Token /\ u[k] \in Token
    <2> DEFINE q == (k - 1) \div BLOCK_SIZE
               r == (k - 1) % BLOCK_SIZE
    <2>1. /\ q \in Int /\ r \in 0 .. BLOCK_SIZE - 1
          /\ k - 1 = q * BLOCK_SIZE + r
      <3>1. k - 1 \in Int
        BY <1>1
      <3> QED  BY <3>1, BlockDivision
    <2>2. k \in Nat /\ k >= 1 /\ k <= i * BLOCK_SIZE
      BY <1>1
    <2> HIDE DEF q, r
    <2>3. q * BLOCK_SIZE \in Int
      BY <2>1, BlockProduct
    <2>4. q >= 0
      <3>1. q < 0 => q * BLOCK_SIZE + BLOCK_SIZE <= 0 * BLOCK_SIZE
        BY <2>1, BlockMultiples
      <3>2. 0 * BLOCK_SIZE = 0
        BY <1>1
      <3> QED  BY <1>1, <2>1, <2>2, <2>3, <3>1, <3>2
    <2>5. q < i
      <3>1. i <= q => i * BLOCK_SIZE <= q * BLOCK_SIZE
        BY <2>1, BlockMultiples
      <3> QED  BY <1>1, <2>1, <2>2, <2>3, <3>1
    <2>6. q \in Nat /\ q + 1 \in 1 .. i /\ (q + 1) - 1 = q
      BY <2>1, <2>4, <2>5
    <2>7. (q + 1) * BLOCK_SIZE <= Len(t) /\ (q + 1) * BLOCK_SIZE <= Len(u)
      <3>1. /\ (q + 1) * BLOCK_SIZE \in Int
            /\ (q + 1) * BLOCK_SIZE <= i * BLOCK_SIZE
        <4>1. q + 1 \in Int /\ q + 1 <= i /\ i \in Int
          BY <2>6
        <4> QED  BY <4>1, BlockMultiples
      <3> QED  BY <1>1, <3>1
    <2>8. r + 1 \in 1 .. BLOCK_SIZE /\ q * BLOCK_SIZE + (r + 1) = k
      BY <1>1, <2>1, <2>2, <2>3
    <2>9. block(t, q)[r + 1] = t[k] /\ block(u, q)[r + 1] = u[k]
      BY <2>6, <2>7, <2>8, BlockElement
    <2>10. k \in 1 .. Len(t) /\ k \in 1 .. Len(u)
      BY <1>1, <2>2
    <2> QED  BY <1>2, <2>6, <2>9, <2>10, ElementOfSeq
  <1>4. m \in Nat
    BY <1>1
  <1> QED  BY <1>3, <1>4, SubSeqProperties
=============================================================================
