----------------------------- MODULE QueueProofs -----------------------------
(***************************************************************************)
(* Lemmas about sequences: queues whose elements are distinct, and what    *)
(* loops over them gather and sum.                                         *)
(***************************************************************************)
EXTENDS Integers, SequencesExt, SequenceTheorems, FiniteSetTheorems,
        WellFoundedInduction, TLAPS

-----------------------------------------------------------------------------
(* Sequences without duplicates: the free list and the queues *)

\* Removing the one occurrence of an element keeps the rest, in its order.
LEMMA RemoveFirstProperties ==
    ASSUME NEW S, NEW q \in Seq(S), IsInjective(q), NEW k \in 1 .. Len(q)
    PROVE  /\ RemoveFirst(q, q[k]) \in Seq(S)
           /\ Len(RemoveFirst(q, q[k])) = Len(q) - 1
           /\ \A j \in 1 .. Len(q) - 1 :
                  RemoveFirst(q, q[k])[j] = IF j < k THEN q[j] ELSE q[j + 1]
  <1> DEFINE left == SubSeq(q, 1, k - 1)
             right == SubSeq(q, k + 1, Len(q))
  <1>0. DOMAIN q = 1 .. Len(q)
    BY LenProperties
  <1>n. Len(q) \in Nat /\ k \in Nat /\ 1 <= k /\ k <= Len(q)
    BY LenProperties
  <1>1. \A j \in 1 .. Len(q) : q[j] = q[k] <=> j = k
    BY <1>0 DEF IsInjective
  <1>2. SelectInSeq(q, LAMBDA v : v = q[k]) = k
    <2>1. {j \in 1 .. Len(q) : q[j] = q[k]} = {k}
      BY <1>1
    <2>2. Min({k}) = k
      BY DEF Min
    <2> QED  BY <2>1, <2>2 DEF SelectInSeq
  <1>3. RemoveFirst(q, q[k]) = left \o right
    BY <1>2 DEF RemoveFirst, RemoveAt
  <1>4. /\ left \in Seq(S) /\ Len(left) = k - 1
        /\ \A j \in 1 .. k - 1 : left[j] = q[j]
    <2>1. 1 \in Int /\ k - 1 \in Int
      BY <1>n
    <2>2. \A j \in 1 .. k - 1 : q[j] \in S
      BY <1>n, ElementOfSeq
    <2>3. /\ left \in Seq(S)
          /\ Len(left) = IF 1 <= k - 1 THEN (k - 1) - 1 + 1 ELSE 0
          /\ \A j \in 1 .. (k - 1) - 1 + 1 : left[j] = q[1 + j - 1]
      BY <2>1, <2>2, SubSeqProperties
    <2> HIDE DEF left
    <2>4. \A j \in 1 .. k - 1 : j \in 1 .. (k - 1) - 1 + 1 /\ 1 + j - 1 = j
      BY <1>n
    <2>5. (IF 1 <= k - 1 THEN (k - 1) - 1 + 1 ELSE 0) = k - 1
      BY <1>n
    <2> QED  BY <2>3, <2>4, <2>5
  <1>5. /\ right \in Seq(S) /\ Len(right) = Len(q) - k
        /\ \A j \in 1 .. Len(q) - k : right[j] = q[k + j]
    <2>1. k + 1 \in Int /\ Len(q) \in Int
      BY <1>n
    <2>2. \A j \in k + 1 .. Len(q) : q[j] \in S
      BY <1>n, ElementOfSeq
    <2>3. /\ right \in Seq(S)
          /\ Len(right) = IF k + 1 <= Len(q) THEN Len(q) - (k + 1) + 1 ELSE 0
          /\ \A j \in 1 .. Len(q) - (k + 1) + 1 : right[j] = q[k + 1 + j - 1]
      BY <2>1, <2>2, SubSeqProperties
    <2> HIDE DEF right
    <2>4. \A j \in 1 .. Len(q) - k :
             j \in 1 .. Len(q) - (k + 1) + 1 /\ k + 1 + j - 1 = k + j
      BY <1>n
    <2>5. (IF k + 1 <= Len(q) THEN Len(q) - (k + 1) + 1 ELSE 0) = Len(q) - k
      <3>1. k \in Nat /\ k <= Len(q)
        BY <1>n
      <3>2. CASE k + 1 <= Len(q)
        <4>1. Len(q) - (k + 1) + 1 = Len(q) - k
          BY <1>n, <3>1
        <4> QED  BY <3>2, <4>1
      <3>3. CASE ~(k + 1 <= Len(q))
        <4>1. Len(q) - k = 0
          BY <1>n, <3>1, <3>3
        <4> QED  BY <3>3, <4>1
      <3> QED  BY <3>2, <3>3
    <2> QED  BY <2>3, <2>4, <2>5
  <1> HIDE DEF left, right
  <1>6. left \o right \in Seq(S) /\ Len(left \o right) = Len(q) - 1
    <2>1. left \in Seq(S) /\ right \in Seq(S)
      BY <1>4, <1>5
    <2>2. left \o right \in Seq(S) /\ Len(left \o right) = Len(left) + Len(right)
      BY <2>1, ConcatProperties
    <2>3. Len(left) = k - 1 /\ Len(right) = Len(q) - k
      BY <1>4, <1>5
    <2> QED  BY <1>n, <2>2, <2>3
  <1>7. \A j \in 1 .. Len(q) - 1 :
            (left \o right)[j] = IF j < k THEN q[j] ELSE q[j + 1]
    <2> SUFFICES ASSUME NEW j \in 1 .. Len(q) - 1
                 PROVE  (left \o right)[j] = IF j < k THEN q[j] ELSE q[j + 1]
      OBVIOUS
    <2>1. (left \o right)[j] =
              IF j <= k - 1 THEN left[j] ELSE right[j - (k - 1)]
      BY <1>n, <1>4, <1>5, ConcatProperties
    <2>2. CASE j < k
      BY <1>n, <1>4, <2>1, <2>2
    <2>3. CASE ~(j < k)
      <3>1. j - (k - 1) \in 1 .. Len(q) - k
        BY <1>n, <2>3
      <3> QED  BY <1>n, <1>5, <2>1, <2>3, <3>1
    <2> QED  BY <2>2, <2>3
  <1> QED  BY <1>3, <1>6, <1>7

\* Taking an element out of a sequence without duplicates.
LEMMA TakeProperties ==
    ASSUME NEW S, NEW q \in Seq(S), IsInjective(q), NEW x \in ToSet(q)
    PROVE  /\ RemoveFirst(q, x) \in Seq(S)
           /\ Len(RemoveFirst(q, x)) = Len(q) - 1
           /\ IsInjective(RemoveFirst(q, x))
           /\ ToSet(RemoveFirst(q, x)) = ToSet(q) \ {x}
  <1>n. Len(q) \in Nat /\ DOMAIN q = 1 .. Len(q)
    BY LenProperties
  <1>1. PICK k \in 1 .. Len(q) : q[k] = x
    BY <1>n DEF ToSet
  <1> DEFINE r == RemoveFirst(q, x)
  <1>2. /\ r \in Seq(S)
        /\ Len(r) = Len(q) - 1
        /\ \A j \in 1 .. Len(q) - 1 : r[j] = IF j < k THEN q[j] ELSE q[j + 1]
    BY <1>1, RemoveFirstProperties
  <1> HIDE DEF r
  <1>3. DOMAIN r = 1 .. Len(q) - 1
    BY <1>2, LenProperties
  <1>4. \A i, j \in 1 .. Len(q) : q[i] = q[j] => i = j
    BY <1>n DEF IsInjective
  <1>5. IsInjective(r)
    <2> SUFFICES ASSUME NEW i \in 1 .. Len(q) - 1, NEW j \in 1 .. Len(q) - 1,
                        r[i] = r[j]
                 PROVE  i = j
      BY <1>3 DEF IsInjective
    <2>1. r[i] = q[IF i < k THEN i ELSE i + 1]
      BY <1>2
    <2>2. r[j] = q[IF j < k THEN j ELSE j + 1]
      BY <1>2
    <2>3. /\ i < k => i \in 1 .. Len(q)
          /\ j < k => j \in 1 .. Len(q)
          /\ i + 1 \in 1 .. Len(q) /\ j + 1 \in 1 .. Len(q)
      BY <1>n
    <2>4. (IF i < k THEN i ELSE i + 1) = (IF j < k THEN j ELSE j + 1)
      <3> DEFINE ii == IF i < k THEN i ELSE i + 1
                 jj == IF j < k THEN j ELSE j + 1
      <3>1. ii \in 1 .. Len(q) /\ jj \in 1 .. Len(q) /\ q[ii] = q[jj]
        BY <2>1, <2>2, <2>3
      <3> QED  BY <1>4, <3>1
    <2> QED  BY <2>4
  <1>6. ToSet(r) = ToSet(q) \ {x}
    <2>1. ASSUME NEW i \in 1 .. Len(q) - 1
          PROVE  r[i] \in ToSet(q) \ {x}
      <3>1. PICK j \in 1 .. Len(q) : r[i] = q[j] /\ j # k
        BY <1>n, <1>2
      <3> QED  BY <1>n, <1>1, <1>4, <3>1 DEF ToSet
    <2>2. ASSUME NEW y \in ToSet(q) \ {x}
          PROVE  y \in ToSet(r)
      <3>1. PICK j \in 1 .. Len(q) : q[j] = y /\ j # k
        BY <1>n, <1>1 DEF ToSet
      <3>2. CASE j < k
        <4>1. j \in 1 .. Len(q) - 1 /\ r[j] = y
          BY <1>n, <1>2, <3>1, <3>2
        <4> QED  BY <1>3, <4>1 DEF ToSet
      <3>3. CASE j > k
        <4>1. j - 1 \in 1 .. Len(q) - 1 /\ ~(j - 1 < k) /\ (j - 1) + 1 = j
          BY <1>n, <3>3
        <4>2. r[j - 1] = y
          BY <1>2, <3>1, <4>1
        <4> QED  BY <1>3, <4>1, <4>2 DEF ToSet
      <3> QED  BY <3>1, <3>2, <3>3
    <2>3. ToSet(r) \subseteq ToSet(q) \ {x}
      BY <1>3, <2>1 DEF ToSet
    <2> QED  BY <2>2, <2>3
  <1> QED  BY <1>2, <1>5, <1>6 DEF r

\* Appending an element the sequence does not have.
LEMMA GiveProperties ==
    ASSUME NEW S, NEW q \in Seq(S), IsInjective(q), NEW x \in S, x \notin ToSet(q)
    PROVE  /\ Append(q, x) \in Seq(S)
           /\ Len(Append(q, x)) = Len(q) + 1
           /\ IsInjective(Append(q, x))
           /\ ToSet(Append(q, x)) = ToSet(q) \cup {x}
  <1>n. Len(q) \in Nat /\ DOMAIN q = 1 .. Len(q)
    BY LenProperties
  <1> DEFINE r == Append(q, x)
  <1>1. /\ r \in Seq(S) /\ Len(r) = Len(q) + 1
        /\ \A i \in 1 .. Len(q) : r[i] = q[i]
        /\ r[Len(q) + 1] = x
    BY AppendProperties
  <1> HIDE DEF r
  <1>2. DOMAIN r = 1 .. Len(q) + 1
    BY <1>1, LenProperties
  <1>3. \A i, j \in 1 .. Len(q) : q[i] = q[j] => i = j
    BY <1>n DEF IsInjective
  <1>4. \A i \in 1 .. Len(q) : q[i] # x
    BY <1>n DEF ToSet
  <1>5. \A i \in 1 .. Len(q) + 1 : i \in 1 .. Len(q) \/ i = Len(q) + 1
    BY <1>n
  <1>6. IsInjective(r)
    BY <1>1, <1>2, <1>3, <1>4, <1>5 DEF IsInjective
  <1>7. ToSet(r) = ToSet(q) \cup {x}
    <2>1. ToSet(r) = { r[i] : i \in 1 .. Len(q) + 1 }
      BY <1>2 DEF ToSet
    <2>2. ToSet(q) = { q[i] : i \in 1 .. Len(q) }
      BY <1>n DEF ToSet
    <2>3. 1 .. Len(q) \subseteq 1 .. Len(q) + 1 /\ Len(q) + 1 \in 1 .. Len(q) + 1
      BY <1>n
    <2>4. ToSet(r) \subseteq ToSet(q) \cup {x}
      BY <1>1, <1>5, <2>1, <2>2
    <2>5. ToSet(q) \cup {x} \subseteq ToSet(r)
      BY <1>1, <2>1, <2>2, <2>3
    <2> QED  BY <2>4, <2>5
  <1> QED  BY <1>1, <1>6, <1>7 DEF r

-----------------------------------------------------------------------------
(* Queues: concatenation, their two ends, their elements *)

\* Short of its end, an interval goes on.
LEMMA OneMore ==
    ASSUME NEW n \in Nat, NEW m \in Nat, n \in 1 .. m, n # m
    PROVE  n + 1 \in 1 .. m /\ 0 < n + 1
  OBVIOUS

\* A function on the first n numbers is a sequence.
LEMMA FunctionSequence ==
    ASSUME NEW S, NEW n \in Nat, NEW q \in [1 .. n -> S]
    PROVE  q \in Seq(S) /\ Len(q) = n
  <1>1. q \in Seq(S)
    OBVIOUS
  <1>2. Len(q) \in Nat /\ DOMAIN q = 1 .. Len(q) /\ DOMAIN q = 1 .. n
    BY <1>1, LenProperties
  <1>3. Len(q) = n
    <2>1. \A k \in Nat : k \in 1 .. Len(q) <=> k \in 1 .. n
      BY <1>2
    <2>2. Len(q) <= n
      BY <1>2, <2>1
    <2>3. n <= Len(q)
      BY <1>2, <2>1
    <2> QED  BY <1>2, <2>2, <2>3
  <1> QED  BY <1>1, <1>3

\* The elements are the values at the positions.
LEMMA ElementPositions ==
    ASSUME NEW S, NEW q \in Seq(S)
    PROVE  /\ ToSet(q) \subseteq S
           /\ \A i \in 1 .. Len(q) : q[i] \in ToSet(q)
           /\ \A x \in ToSet(q) : \E i \in 1 .. Len(q) : q[i] = x
           /\ IsInjective(q) <=>
                  \A i, j \in 1 .. Len(q) : q[i] = q[j] => i = j
  <1>1. DOMAIN q = 1 .. Len(q)
    BY LenProperties
  <1>2. \A i \in 1 .. Len(q) : q[i] \in S
    BY ElementOfSeq
  <1> QED  BY <1>1, <1>2 DEF ToSet, IsInjective

LEMMA ConcatElements ==
    ASSUME NEW S, NEW q \in Seq(S), NEW r \in Seq(S)
    PROVE  ToSet(q \o r) = ToSet(q) \cup ToSet(r)
  <1> DEFINE c == q \o r
  <1>1. /\ c \in Seq(S) /\ Len(c) = Len(q) + Len(r)
        /\ \A i \in 1 .. Len(q) + Len(r) :
               c[i] = IF i <= Len(q) THEN q[i] ELSE r[i - Len(q)]
    BY ConcatProperties
  <1> HIDE DEF c
  <1>2. Len(q) \in Nat /\ Len(r) \in Nat
    BY LenProperties
  <1>3. ASSUME NEW x \in ToSet(c)
        PROVE  x \in ToSet(q) \cup ToSet(r)
    <2>1. PICK i \in 1 .. Len(c) : c[i] = x
      BY <1>1, ElementPositions
    <2>2. CASE i <= Len(q)
      <3>1. i \in 1 .. Len(q) /\ x = q[i]
        BY <1>1, <1>2, <2>1, <2>2
      <3> QED  BY <3>1, ElementPositions
    <2>3. CASE ~(i <= Len(q))
      <3>1. i - Len(q) \in 1 .. Len(r) /\ x = r[i - Len(q)]
        BY <1>1, <1>2, <2>1, <2>3
      <3> QED  BY <3>1, ElementPositions
    <2> QED  BY <2>2, <2>3
  <1>4. ASSUME NEW x \in ToSet(q)
        PROVE  x \in ToSet(c)
    <2>1. PICK i \in 1 .. Len(q) : q[i] = x
      BY ElementPositions
    <2>2. i \in 1 .. Len(c) /\ c[i] = x
      BY <1>1, <1>2, <2>1
    <2> QED  BY <1>1, <2>2, ElementPositions
  <1>5. ASSUME NEW x \in ToSet(r)
        PROVE  x \in ToSet(c)
    <2>1. PICK i \in 1 .. Len(r) : r[i] = x
      BY ElementPositions
    <2>2. i + Len(q) \in 1 .. Len(c) /\ c[i + Len(q)] = r[i]
      <3>1. /\ i + Len(q) \in 1 .. Len(q) + Len(r)
            /\ ~(i + Len(q) <= Len(q)) /\ i + Len(q) - Len(q) = i
        BY <1>2
      <3> QED  BY <1>1, <3>1
    <2> QED  BY <1>1, <2>1, <2>2, ElementPositions
  <1>6. ToSet(c) = ToSet(q) \cup ToSet(r)
    BY <1>3, <1>4, <1>5
  <1> QED  BY <1>6 DEF c

\* A concatenation is free of duplicates when its parts are, and share no
\* element.
LEMMA ConcatInjective ==
    ASSUME NEW S, NEW q \in Seq(S), NEW r \in Seq(S)
    PROVE  IsInjective(q \o r) <=>
               /\ IsInjective(q) /\ IsInjective(r)
               /\ \A x \in ToSet(q) : x \notin ToSet(r)
  <1> DEFINE c == q \o r
  <1>1. /\ c \in Seq(S) /\ Len(c) = Len(q) + Len(r)
        /\ \A i \in 1 .. Len(q) + Len(r) :
               c[i] = IF i <= Len(q) THEN q[i] ELSE r[i - Len(q)]
    BY ConcatProperties
  <1> HIDE DEF c
  <1>2. Len(q) \in Nat /\ Len(r) \in Nat
    BY LenProperties
  <1>3. \A i \in 1 .. Len(q) : i \in 1 .. Len(c) /\ c[i] = q[i]
    BY <1>1, <1>2
  <1>4. \A i \in 1 .. Len(r) :
            i + Len(q) \in 1 .. Len(c) /\ c[i + Len(q)] = r[i]
    <2> SUFFICES ASSUME NEW i \in 1 .. Len(r)
                 PROVE  i + Len(q) \in 1 .. Len(c) /\ c[i + Len(q)] = r[i]
      OBVIOUS
    <2>1. /\ i + Len(q) \in 1 .. Len(q) + Len(r)
          /\ ~(i + Len(q) <= Len(q)) /\ i + Len(q) - Len(q) = i
      BY <1>2
    <2> QED  BY <1>1, <2>1
  <1>5. ASSUME IsInjective(c)
        PROVE  /\ IsInjective(q) /\ IsInjective(r)
               /\ \A x \in ToSet(q) : x \notin ToSet(r)
    <2>0. \A i, j \in 1 .. Len(c) : c[i] = c[j] => i = j
      BY <1>1, <1>5, ElementPositions
    <2>1. \A i, j \in 1 .. Len(q) : q[i] = q[j] => i = j
      BY <1>3, <2>0
    <2>2. ASSUME NEW i \in 1 .. Len(r), NEW j \in 1 .. Len(r), r[i] = r[j]
          PROVE  i = j
      <3>1. i + Len(q) = j + Len(q)
        BY <1>4, <2>0, <2>2
      <3> QED  BY <1>2, <3>1
    <2>3. ASSUME NEW x \in ToSet(q), x \in ToSet(r)
          PROVE  FALSE
      <3>1. PICK i \in 1 .. Len(q) : q[i] = x
        BY ElementPositions
      <3>2. PICK j \in 1 .. Len(r) : r[j] = x
        BY <2>3, ElementPositions
      <3>3. i = j + Len(q)
        BY <1>3, <1>4, <2>0, <3>1, <3>2
      <3> QED  BY <1>2, <3>3
    <2> QED  BY <2>1, <2>2, <2>3, ElementPositions
  <1>6. ASSUME IsInjective(q), IsInjective(r),
               \A x \in ToSet(q) : x \notin ToSet(r)
        PROVE  IsInjective(c)
    <2>1. \A i, j \in 1 .. Len(q) : q[i] = q[j] => i = j
      BY <1>6, ElementPositions
    <2>2. \A i, j \in 1 .. Len(r) : r[i] = r[j] => i = j
      BY <1>6, ElementPositions
    <2>3. \A i \in 1 .. Len(q), j \in 1 .. Len(r) : q[i] # r[j]
      BY <1>6, ElementPositions
    <2>4. ASSUME NEW i \in 1 .. Len(c)
          PROVE  \/ i \in 1 .. Len(q) /\ c[i] = q[i]
                 \/ i - Len(q) \in 1 .. Len(r) /\ c[i] = r[i - Len(q)]
      BY <1>1, <1>2
    <2>5. ASSUME NEW i \in 1 .. Len(c), NEW j \in 1 .. Len(c), c[i] = c[j]
          PROVE  i = j
      <3>1. CASE i \in 1 .. Len(q) /\ c[i] = q[i]
        BY <2>1, <2>3, <2>4, <2>5, <3>1
      <3>2. CASE i - Len(q) \in 1 .. Len(r) /\ c[i] = r[i - Len(q)]
        <4>1. j - Len(q) \in 1 .. Len(r) /\ c[j] = r[j - Len(q)]
          BY <2>3, <2>4, <2>5, <3>2
        <4>2. i - Len(q) = j - Len(q)
          BY <2>2, <2>5, <3>2, <4>1
        <4> QED  BY <1>1, <1>2, <4>2
      <3> QED  BY <2>4, <3>1, <3>2
    <2> QED  BY <1>1, <2>5, ElementPositions
  <1> QED  BY <1>5, <1>6 DEF c

LEMMA Singleton ==
    ASSUME NEW S, NEW x \in S
    PROVE  << x >> \in Seq(S) /\ ToSet(<< x >>) = {x} /\ IsInjective(<< x >>)
  <1>1. << x >> \in Seq(S) /\ Len(<< x >>) = 1 /\ << x >>[1] = x
    OBVIOUS
  <1>2. 1 .. 1 = {1}
    OBVIOUS
  <1>3. DOMAIN << x >> = {1}
    BY <1>1, <1>2, LenProperties
  <1> QED  BY <1>1, <1>3 DEF ToSet, IsInjective

LEMMA EmptyElements == ToSet(<< >>) = {} /\ IsInjective(<< >>)
  <1>1. DOMAIN << >> = {}
    OBVIOUS
  <1> QED  BY <1>1 DEF ToSet, IsInjective

\* A queue is its head before its tail ...
LEMMA HeadBeforeTail ==
    ASSUME NEW S, NEW q \in Seq(S), q # << >>
    PROVE  /\ Head(q) \in S /\ Tail(q) \in Seq(S)
           /\ q = << Head(q) >> \o Tail(q)
  <1>1. /\ Head(q) \in S /\ Tail(q) \in Seq(S)
        /\ Len(Tail(q)) = Len(q) - 1
        /\ \A i \in 1 .. Len(Tail(q)) : Tail(q)[i] = q[i + 1]
    BY HeadTailProperties
  <1>2. Len(q) \in Nat /\ Len(q) >= 1 /\ q[1] = Head(q)
    BY EmptySeq
  <1> DEFINE h == << Head(q) >>
             t == Tail(q)
  <1>3. h \in Seq(S) /\ Len(h) = 1 /\ h[1] = Head(q)
    BY <1>1
  <1>4. /\ t \in Seq(S) /\ Len(t) = Len(q) - 1
        /\ \A i \in 1 .. Len(t) : t[i] = q[i + 1]
    BY <1>1
  <1> HIDE DEF h, t
  <1>5. /\ h \o t \in Seq(S)
        /\ Len(h \o t) = Len(h) + Len(t)
        /\ \A i \in 1 .. Len(h) + Len(t) :
               (h \o t)[i] = IF i <= Len(h) THEN h[i] ELSE t[i - Len(h)]
    <2>1. h \in Seq(S) /\ t \in Seq(S)
      BY <1>3, <1>4
    <2> QED  BY <2>1, ConcatProperties
  <1>6. Len(h \o t) = Len(q)
    BY <1>2, <1>3, <1>4, <1>5
  <1>7. ASSUME NEW i \in 1 .. Len(q)
        PROVE  q[i] = (h \o t)[i]
    <2>1. CASE i = 1
      BY <1>2, <1>3, <1>4, <1>5, <2>1
    <2>2. CASE i # 1
      <3>1. i - 1 \in 1 .. Len(t) /\ i - 1 + 1 = i /\ ~(i <= 1)
        BY <1>2, <1>4, <2>2
      <3> QED  BY <1>2, <1>3, <1>4, <1>5, <3>1
    <2> QED  BY <2>1, <2>2
  <1>8. q = h \o t
    BY <1>5, <1>6, <1>7, SeqEqual
  <1> QED  BY <1>1, <1>8 DEF h, t

\* ... and its front before its last element.
LEMMA FrontBeforeLast ==
    ASSUME NEW S, NEW q \in Seq(S), q # << >>
    PROVE  /\ Last(q) \in S /\ Front(q) \in Seq(S)
           /\ q = Front(q) \o << Last(q) >>
  <1>1. Len(q) \in Nat /\ Len(q) >= 1
    BY EmptySeq
  <1>2. Len(q) \in 1 .. Len(q) /\ 1 \in 1 .. Len(q)
    BY <1>1
  <1>3. SubSeq(q, 1, Len(q)) = SubSeq(q, 1, Len(q) - 1) \o << q[Len(q)] >>
    BY <1>1, <1>2, SubSeqRecursiveSecond
  <1>4. SubSeq(q, 1, Len(q)) = q
    BY SubSeqFull
  <1>5. SubSeq(q, 1, Len(q) - 1) \in Seq(S)
    <2>1. \A i \in 1 .. Len(q) - 1 : q[i] \in S
      BY <1>1, ElementOfSeq
    <2> QED  BY <1>1, <2>1, SubSeqProperties
  <1>6. q[Len(q)] \in S
    BY <1>2, ElementOfSeq
  <1> QED  BY <1>3, <1>4, <1>5, <1>6 DEF Front, Last

\* Appending at the back of a queue.
LEMMA AppendElements ==
    ASSUME NEW S, NEW q \in Seq(S), NEW x \in S
    PROVE  /\ Append(q, x) \in Seq(S)
           /\ ToSet(Append(q, x)) = ToSet(q) \cup {x}
           /\ IsInjective(Append(q, x)) <=> IsInjective(q) /\ x \notin ToSet(q)
  <1> DEFINE l == << x >>
  <1>1. l \in Seq(S) /\ ToSet(l) = {x} /\ IsInjective(l)
    BY Singleton
  <1>2. Append(q, x) = q \o l
    BY AppendIsConcat
  <1> HIDE DEF l
  <1>3. ToSet(q \o l) = ToSet(q) \cup ToSet(l)
    BY <1>1, ConcatElements
  <1>4. IsInjective(q \o l) <=> IsInjective(q) /\ x \notin ToSet(q)
    <2>1. IsInjective(q \o l) <=>
              /\ IsInjective(q) /\ IsInjective(l)
              /\ \A y \in ToSet(q) : y \notin ToSet(l)
      BY <1>1, ConcatInjective
    <2> QED  BY <1>1, <2>1
  <1>5. Append(q, x) \in Seq(S)
    BY AppendProperties
  <1> QED  BY <1>1, <1>2, <1>3, <1>4, <1>5

LEMMA AppendNonempty ==
    ASSUME NEW S, NEW q \in Seq(S), NEW x
    PROVE  Append(q, x) # << >>
  <1> DEFINE T == S \cup {x}
  <1>1. q \in Seq(T) /\ x \in T
    BY SeqMonotonic
  <1> HIDE DEF T
  <1>2. Len(Append(q, x)) = Len(q) + 1 /\ Len(q) \in Nat
    BY <1>1, AppendProperties, LenProperties
  <1>3. Len(Append(q, x)) # 0
    BY <1>2
  <1> QED  BY <1>3, EmptySeq

LEMMA EndElements ==
    ASSUME NEW S, NEW q \in Seq(S), q # << >>
    PROVE  /\ ToSet(q) = {Head(q)} \cup ToSet(Tail(q))
           /\ ToSet(q) = ToSet(Front(q)) \cup {Last(q)}
  <1>1. ToSet(q) = {Head(q)} \cup ToSet(Tail(q))
    <2> DEFINE h == << Head(q) >>
               t == Tail(q)
    <2>1. h \in Seq(S) /\ ToSet(h) = {Head(q)}
      BY HeadBeforeTail, Singleton
    <2>2. t \in Seq(S) /\ q = h \o t
      BY HeadBeforeTail
    <2> HIDE DEF h, t
    <2>3. ToSet(h \o t) = ToSet(h) \cup ToSet(t)
      BY <2>1, <2>2, ConcatElements
    <2> QED  BY <2>1, <2>2, <2>3 DEF t
  <1>2. ToSet(q) = ToSet(Front(q)) \cup {Last(q)}
    <2> DEFINE f == Front(q)
               l == << Last(q) >>
    <2>1. l \in Seq(S) /\ ToSet(l) = {Last(q)}
      BY FrontBeforeLast, Singleton
    <2>2. f \in Seq(S) /\ q = f \o l
      BY FrontBeforeLast
    <2> HIDE DEF f, l
    <2>3. ToSet(f \o l) = ToSet(f) \cup ToSet(l)
      BY <2>1, <2>2, ConcatElements
    <2> QED  BY <2>1, <2>2, <2>3 DEF f
  <1> QED  BY <1>1, <1>2

LEMMA PrependElements ==
    ASSUME NEW S, NEW q \in Seq(S), NEW x \in S
    PROVE  << x >> \o q \in Seq(S) /\ ToSet(<< x >> \o q) = {x} \cup ToSet(q)
  <1> DEFINE l == << x >>
  <1>1. l \in Seq(S) /\ ToSet(l) = {x}
    BY Singleton
  <1> HIDE DEF l
  <1>2. l \o q \in Seq(S) /\ ToSet(l \o q) = ToSet(l) \cup ToSet(q)
    BY <1>1, ConcatProperties, ConcatElements
  <1>3. l \o q \in Seq(S) /\ ToSet(l \o q) = {x} \cup ToSet(q)
    BY <1>1, <1>2
  <1> QED  BY <1>3 DEF l

\* An element moves from the front of one queue to the back of the one ahead
\* of it, or back: together they stay the same.
LEMMA MoveElement ==
    ASSUME NEW S, NEW q \in Seq(S), NEW r \in Seq(S), NEW x \in S
    PROVE  Append(q, x) \o r = q \o (<< x >> \o r)
  <1> DEFINE l == << x >>
  <1>1. l \in Seq(S)
    BY Singleton
  <1>2. Append(q, x) = q \o l
    BY AppendIsConcat
  <1> HIDE DEF l
  <1>3. (q \o l) \o r = q \o (l \o r)
    BY <1>1, ConcatAssociative, SMTT(30)
  <1>4. Append(q, x) \o r = q \o (l \o r)
    BY <1>2, <1>3
  <1> QED  BY <1>4 DEF l

LEMMA MoveHead ==
    ASSUME NEW S, NEW q \in Seq(S), NEW r \in Seq(S), r # << >>
    PROVE  q \o r = Append(q, Head(r)) \o Tail(r)
  <1>1. /\ Head(r) \in S /\ Tail(r) \in Seq(S)
        /\ r = << Head(r) >> \o Tail(r)
    BY HeadBeforeTail
  <1>2. Append(q, Head(r)) \o Tail(r) = q \o (<< Head(r) >> \o Tail(r))
    BY <1>1, MoveElement
  <1> QED  BY <1>1, <1>2

LEMMA ConcatAppend ==
    ASSUME NEW S, NEW q \in Seq(S), NEW r \in Seq(S), NEW x \in S
    PROVE  q \o Append(r, x) = Append(q \o r, x)
  <1> DEFINE l == << x >>
  <1>1. l \in Seq(S)
    BY Singleton
  <1>2. q \o r \in Seq(S)
    BY ConcatProperties
  <1>3. Append(r, x) = r \o l /\ Append(q \o r, x) = (q \o r) \o l
    BY <1>2, AppendIsConcat
  <1> HIDE DEF l
  <1>4. (q \o r) \o l = q \o (r \o l)
    BY <1>1, ConcatAssociative, SMTT(30)
  <1> QED  BY <1>3, <1>4

LEMMA ConcatLast ==
    ASSUME NEW S, NEW q \in Seq(S), NEW r \in Seq(S), r # << >>
    PROVE  q \o r = Append(q \o Front(r), Last(r))
  <1>1. /\ Last(r) \in S /\ Front(r) \in Seq(S)
        /\ r = Front(r) \o << Last(r) >>
    BY FrontBeforeLast
  <1>2. Append(Front(r), Last(r)) = r
    BY <1>1, AppendIsConcat
  <1>3. q \o Append(Front(r), Last(r)) = Append(q \o Front(r), Last(r))
    BY <1>1, ConcatAppend
  <1> QED  BY <1>2, <1>3

\* Removing an element of the first part of a duplicate-free concatenation.
LEMMA RemoveFirstConcat ==
    ASSUME NEW S, NEW q \in Seq(S), NEW r \in Seq(S), IsInjective(q \o r),
           NEW x \in ToSet(q)
    PROVE  RemoveFirst(q \o r, x) = RemoveFirst(q, x) \o r
  <1>n. Len(q) \in Nat /\ Len(r) \in Nat
    BY LenProperties
  <1>1. IsInjective(q)
    BY ConcatInjective
  <1>2. PICK k \in 1 .. Len(q) : q[k] = x
    BY ElementPositions
  <1> DEFINE c == q \o r
             d == RemoveFirst(q, x)
             e == RemoveFirst(c, x)
  <1>3. /\ c \in Seq(S) /\ Len(c) = Len(q) + Len(r)
        /\ \A i \in 1 .. Len(q) + Len(r) :
               c[i] = IF i <= Len(q) THEN q[i] ELSE r[i - Len(q)]
    BY ConcatProperties
  <1>4. /\ d \in Seq(S) /\ Len(d) = Len(q) - 1
        /\ \A j \in 1 .. Len(q) - 1 : d[j] = IF j < k THEN q[j] ELSE q[j + 1]
    BY <1>1, <1>2, RemoveFirstProperties
  <1> HIDE DEF c, d
  <1>5. k \in 1 .. Len(c) /\ c[k] = x /\ IsInjective(c)
    <2>1. k \in 1 .. Len(q) + Len(r) /\ k <= Len(q)
      BY <1>n
    <2> QED  BY <1>2, <1>3, <2>1 DEF c
  <1>6. /\ e \in Seq(S) /\ Len(e) = Len(c) - 1
        /\ \A j \in 1 .. Len(c) - 1 : e[j] = IF j < k THEN c[j] ELSE c[j + 1]
    BY <1>3, <1>5, RemoveFirstProperties
  <1> HIDE DEF e
  <1>7. /\ d \o r \in Seq(S) /\ Len(d \o r) = Len(d) + Len(r)
        /\ \A i \in 1 .. Len(d) + Len(r) :
               (d \o r)[i] = IF i <= Len(d) THEN d[i] ELSE r[i - Len(d)]
    BY <1>4, ConcatProperties
  <1>8. Len(e) = Len(d \o r)
    BY <1>n, <1>3, <1>4, <1>6, <1>7
  <1>9. ASSUME NEW i \in 1 .. Len(e)
        PROVE  e[i] = (d \o r)[i]
    <2>0. i \in 1 .. Len(q) + Len(r) - 1 /\ i + 1 \in 1 .. Len(q) + Len(r)
      BY <1>n, <1>3, <1>6
    <2>1. CASE i < k
      <3>1. i <= Len(q) - 1 /\ i <= Len(q) /\ i \in 1 .. Len(q) - 1
        BY <1>n, <2>0, <2>1
      <3>2. e[i] = q[i]
        BY <1>n, <1>3, <1>6, <2>0, <2>1, <3>1
      <3>3. (d \o r)[i] = q[i]
        BY <1>n, <1>4, <1>7, <2>0, <2>1, <3>1
      <3> QED  BY <3>2, <3>3
    <2>2. CASE ~(i < k) /\ i < Len(q)
      <3>1. e[i] = q[i + 1]
        BY <1>n, <1>3, <1>6, <2>0, <2>2
      <3>2. (d \o r)[i] = q[i + 1]
        BY <1>n, <1>4, <1>7, <2>0, <2>2
      <3> QED  BY <3>1, <3>2
    <2>3. CASE i >= Len(q)
      <3>1. e[i] = r[i + 1 - Len(q)]
        BY <1>n, <1>3, <1>6, <2>0, <2>3
      <3>2. (d \o r)[i] = r[i - (Len(q) - 1)]
        BY <1>n, <1>4, <1>7, <2>0, <2>3
      <3>3. i + 1 - Len(q) = i - (Len(q) - 1)
        BY <1>n, <2>0
      <3> QED  BY <3>1, <3>2, <3>3
    <2>4. i \in Int /\ Len(q) \in Int
      BY <1>n, <2>0
    <2>5. i < k \/ (~(i < k) /\ i < Len(q)) \/ i >= Len(q)
      BY <2>4
    <2> QED  BY <2>1, <2>2, <2>3, <2>5
  <1>10. e = d \o r
    BY <1>6, <1>7, <1>8, <1>9, SeqEqual
  <1> QED  BY <1>10 DEF c, d, e

-----------------------------------------------------------------------------
(* Division *)

LEMMA Division ==
    ASSUME NEW b \in Nat \ {0}, NEW x \in Int
    PROVE  /\ x \div b \in Int /\ x % b \in 0 .. b - 1
           /\ x = b * (x \div b) + (x % b)
  OBVIOUS

LEMMA Multiples ==
    ASSUME NEW b \in Nat \ {0}, NEW d \in Int, NEW e \in Int
    PROVE  /\ b * d \in Int
           /\ d <= e => b * d <= b * e
           /\ d < e => b * d + b <= b * e
  <1>1. b * d \in Int
    OBVIOUS
  <1>2. ASSUME d <= e
        PROVE  b * d <= b * e
    BY <1>2
  <1>3. ASSUME d < e
        PROVE  b * d + b <= b * e
    <2>1. d + 1 <= e
      BY <1>3
    <2>2. b * (d + 1) <= b * e
      BY <2>1
    <2>3. b * (d + 1) = b * d + b
      OBVIOUS
    <2> QED  BY <2>2, <2>3
  <1> QED  BY <1>1, <1>2, <1>3

\* The quotient is not below another number when the dividend is not below its
\* multiple.
LEMMA Quotient ==
    ASSUME NEW b \in Nat \ {0}, NEW x \in Int, NEW n \in Int
    PROVE  /\ b * n <= x <=> n <= x \div b
           /\ x \in Nat => x \div b \in Nat /\ x \div b <= x
  <1>0. x \div b \in Int /\ x % b \in 0 .. b - 1
    BY Division
  <1>1. PICK d, r \in Int : d = x \div b /\ r = x % b
    BY <1>0
  <1>2. x = b * d + r /\ 0 <= r /\ r < b
    BY <1>1, Division
  <1>3. /\ b * n \in Int /\ b * d \in Int /\ n <= d => b * n <= b * d
        /\ d < n => b * d + b <= b * n
    BY Multiples
  <1>4. /\ n <= d => b * n <= b * d
        /\ d < n => b * d + b <= b * n
    BY Multiples
  <1>5. b * n <= x <=> n <= d
    <2>1. n <= d \/ d < n
      OBVIOUS
    <2> QED  BY <1>2, <1>3, <1>4, <2>1
  <1>6. ASSUME x \in Nat
        PROVE  d \in Nat /\ d <= x
    <2>1. d >= 0
      <3>1. d < 0 => b * d + b <= b * 0
        BY Multiples
      <3>2. b * 0 = 0
        OBVIOUS
      <3> QED  BY <1>2, <1>3, <1>6, <3>1, <3>2
    <2>2. b * d >= d
      BY <2>1
    <2> QED  BY <1>2, <1>3, <1>6, <2>1, <2>2
  <1> QED  BY <1>1, <1>5, <1>6

-----------------------------------------------------------------------------
(* Induction over a bounded loop, and over a finite set *)

\* A set of numbers that is not empty has a least element.
LEMMA LeastNatural ==
    ASSUME NEW T, T \subseteq Nat, T # {}
    PROVE  \E n \in T : \A m \in T : n <= m
  <1>1. PICK n \in T : \A m \in T : ~ (<<m, n>> \in OpToRel(<, Nat))
    BY NatLessThanWellFounded, WFMin
  <1>2. \A m \in T : ~(m < n)
    BY <1>1 DEF OpToRel
  <1> QED  BY <1>2

\* The largest of some numbers below a bound.
LEMMA MaxBounded ==
    ASSUME NEW b \in Nat, NEW S, S \subseteq 0 .. b, S # {}
    PROVE  Max(S) \in S /\ \A x \in S : x <= Max(S)
  <1> DEFINE T == { b - x : x \in S }
  <1>1. T \subseteq Nat /\ T # {}
    <2>1. \A x \in S : b - x \in Nat
      <3> TAKE x \in S
      <3>1. x \in 0 .. b
        OBVIOUS
      <3> QED  BY <3>1
    <2> QED  BY <2>1
  <1>2. PICK t \in T : \A u \in T : t <= u
    <2> HIDE DEF T
    <2> QED  BY <1>1, LeastNatural
  <1>3. PICK m \in S : t = b - m
    BY <1>2
  <1>4. \A x \in S : m >= x
    <2> TAKE x \in S
    <2>1. b - m <= b - x
      BY <1>2, <1>3
    <2>2. m \in Int /\ x \in Int
      OBVIOUS
    <2> QED  BY <2>1, <2>2
  <1>5. \E k \in S : \A x \in S : k >= x
    BY <1>4
  <1>6. Max(S) \in S /\ \A x \in S : Max(S) >= x
    <2>1. Max(S) = CHOOSE k \in S : \A x \in S : k >= x
      BY DEF Max
    <2> QED  BY <1>5, <2>1
  <1> QED  BY <1>6

\* What holds before a loop of n iterations and is kept by each of them holds
\* throughout.
LEMMA LoopInduction ==
    ASSUME NEW n \in Nat, NEW T, 0 \in T,
           \A k \in 1 .. n : k - 1 \in T => k \in T
    PROVE  0 .. n \subseteq T
  <1> SUFFICES ASSUME NEW b \in 0 .. n, b \notin T
               PROVE  FALSE
    OBVIOUS
  <1> DEFINE Bad == { k \in 0 .. n : k \notin T }
  <1>0. Bad \subseteq Nat /\ b \in Bad
    OBVIOUS
  <1>1. PICK k \in Bad : \A m \in Bad : k <= m
    <2> HIDE DEF Bad
    <2> QED  BY <1>0, LeastNatural
  <1>2. k \in 1 .. n /\ k - 1 \in 0 .. n
    BY <1>1
  <1>3. k - 1 \notin Bad
    BY <1>1, <1>2
  <1>4. k - 1 \in T
    BY <1>2, <1>3
  <1> QED  BY <1>1, <1>2, <1>4

\* What a loop of n iterations computes from the base, one step after another.
LoopFunctions(V, base, n, step) ==
    { f \in [0 .. n -> V] :
          f[0] = base /\ \A k \in 1 .. n : f[k] = step[k][f[k - 1]] }

\* A function defined along such a loop exists: its value after k iterations
\* comes from the one before by the k-th step.
LEMMA LoopFunction ==
    ASSUME NEW V, NEW base \in V, NEW n \in Nat, NEW step \in [1 .. n -> [V -> V]]
    PROVE  LoopFunctions(V, base, n, step) # {}
  <1> DEFINE Runs(m, f) == /\ f \in [0 .. m -> V] /\ f[0] = base
                           /\ \A k \in 1 .. m : f[k] = step[k][f[k - 1]]
             T == { m \in 0 .. n : \E f : Runs(m, f) }
  <1>1. 0 \in T
    <2>1. Runs(0, [k \in 0 .. 0 |-> base])
      OBVIOUS
    <2>2. 0 \in 0 .. n
      OBVIOUS
    <2> HIDE DEF Runs
    <2> QED  BY <2>1, <2>2
  <1>2. ASSUME NEW m \in 1 .. n, m - 1 \in T
        PROVE  m \in T
    <2>1. PICK f : Runs(m - 1, f)
      BY <1>2
    <2> DEFINE g == [k \in 0 .. m |-> IF k = m THEN step[m][f[m - 1]] ELSE f[k]]
    <2>2. f[m - 1] \in V
      BY <2>1
    <2>3. g \in [0 .. m -> V] /\ g[0] = base
      BY <2>1, <2>2
    <2>4. ASSUME NEW k \in 1 .. m
          PROVE  g[k] = step[k][g[k - 1]]
      <3>1. g[k - 1] = f[k - 1]
        OBVIOUS
      <3>2. k # m => g[k] = f[k] /\ k \in 1 .. m - 1
        OBVIOUS
      <3>3. k = m => g[k] = step[m][f[m - 1]]
        OBVIOUS
      <3> QED  BY <2>1, <3>1, <3>2, <3>3
    <2>5. Runs(m, g)
      BY <2>3, <2>4
    <2>6. m \in 0 .. n
      OBVIOUS
    <2> HIDE DEF Runs, g
    <2> QED  BY <2>5, <2>6
  <1>3. 0 .. n \subseteq T
    <2> HIDE DEF T
    <2> QED  BY <1>1, <1>2, LoopInduction
  <1>4. PICK f : Runs(n, f)
    <2>1. n \in T
      <3> HIDE DEF T
      <3> QED  BY <1>3
    <2> HIDE DEF Runs
    <2> QED  BY <2>1
  <1> QED  BY <1>4 DEF LoopFunctions

-----------------------------------------------------------------------------
(* Sums over finite sets *)

\* The element SumFunctionOnSet takes first, and the equation its recursion
\* solves.
First(s) == CHOOSE x \in s : TRUE

SumEquation(f, S, g) ==
    g = [s \in SUBSET S |->
            IF s = {} THEN 0 ELSE f[First(s)] + g[s \ {First(s)}]]

\* Taking an element out leaves a smaller set.
LEMMA RestSmaller ==
    ASSUME NEW s, IsFiniteSet(s), NEW x \in s
    PROVE  /\ IsFiniteSet(s \ {x}) /\ s # {}
           /\ Cardinality(s) \in Nat /\ Cardinality(s \ {x}) \in Nat
           /\ Cardinality(s \ {x}) = Cardinality(s) - 1
           /\ Cardinality(s) >= 1
  <1>1. IsFiniteSet(s \ {x}) /\ Cardinality(s \ {x}) = Cardinality(s) - 1
    BY FS_RemoveElement
  <1>2. Cardinality(s) \in Nat /\ Cardinality(s \ {x}) \in Nat
    BY <1>1, FS_CardinalityType
  <1> QED  BY <1>1, <1>2

\* The first element is one of the set.
LEMMA FirstIn == \A s : s # {} => First(s) \in s
  BY DEF First

\* The recursion has a solution.
LEMMA SumsExist ==
    ASSUME NEW S, IsFiniteSet(S), NEW f
    PROVE  \E g : SumEquation(f, S, g)
  <1>f. \A s \in SUBSET S : IsFiniteSet(s) /\ Cardinality(s) \in Nat
                             /\ Cardinality(s) <= Cardinality(S)
    BY FS_Subset, FS_CardinalityType
  <1> DEFINE Solves(n, g) ==
               \A s \in SUBSET S : Cardinality(s) <= n =>
                   g[s] = IF s = {} THEN 0 ELSE f[First(s)] + g[s \ {First(s)}]
             T == { n \in 0 .. Cardinality(S) : \E g : Solves(n, g) }
  <1>n. Cardinality(S) \in Nat
    BY FS_CardinalityType
  <1>1. 0 \in T
    <2>1. Solves(0, [s \in SUBSET S |-> 0])
      <3> SUFFICES ASSUME NEW s \in SUBSET S, Cardinality(s) <= 0
                   PROVE  s = {}
        OBVIOUS
      <3> QED  BY <1>f, FS_EmptySet
    <2>2. 0 \in 0 .. Cardinality(S)
      BY <1>n
    <2> HIDE DEF Solves
    <2> QED  BY <2>1, <2>2
  <1>2. ASSUME NEW n \in 1 .. Cardinality(S), n - 1 \in T
        PROVE  n \in T
    <2>1. PICK g : Solves(n - 1, g)
      <3> HIDE DEF Solves
      <3> QED  BY <1>2
    <2> DEFINE h == [s \in SUBSET S |->
                       IF s = {} THEN 0 ELSE f[First(s)] + g[s \ {First(s)}]]
    <2>2. ASSUME NEW s \in SUBSET S, Cardinality(s) <= n - 1
          PROVE  h[s] = g[s]
      BY <2>1, <2>2
    <2>3. ASSUME NEW s \in SUBSET S, Cardinality(s) <= n, s # {}
          PROVE  h[s \ {First(s)}] = g[s \ {First(s)}]
      <3>1. First(s) \in s /\ s \ {First(s)} \in SUBSET S
        BY <2>3, FirstIn
      <3>2. Cardinality(s \ {First(s)}) = Cardinality(s) - 1
        BY <1>f, <3>1, RestSmaller
      <3>3. Cardinality(s \ {First(s)}) <= n - 1
        BY <1>f, <2>3, <3>2
      <3> HIDE DEF h
      <3> QED  BY <2>2, <3>1, <3>3
    <2>4. Solves(n, h)
      <3> SUFFICES ASSUME NEW s \in SUBSET S, Cardinality(s) <= n
                   PROVE  h[s] = IF s = {} THEN 0
                                 ELSE f[First(s)] + h[s \ {First(s)}]
        OBVIOUS
      <3>1. h[s] = IF s = {} THEN 0 ELSE f[First(s)] + g[s \ {First(s)}]
        OBVIOUS
      <3> HIDE DEF h
      <3> QED  BY <2>3, <3>1
    <2> HIDE DEF Solves, h
    <2> QED  BY <2>4, <1>n
  <1>3. 0 .. Cardinality(S) \subseteq T
    <2> HIDE DEF T
    <2> QED  BY <1>1, <1>2, <1>n, LoopInduction
  <1>4. PICK g : Solves(Cardinality(S), g)
    <2>1. Cardinality(S) \in T
      <3> HIDE DEF T
      <3> QED  BY <1>3, <1>n
    <2> HIDE DEF Solves
    <2> QED  BY <2>1
  <1> DEFINE h == [s \in SUBSET S |-> g[s]]
  <1>5. ASSUME NEW s \in SUBSET S
        PROVE  h[s] = IF s = {} THEN 0 ELSE f[First(s)] + h[s \ {First(s)}]
    <2>1. s \ {First(s)} \in SUBSET S
      OBVIOUS
    <2>2. h[s \ {First(s)}] = g[s \ {First(s)}] /\ h[s] = g[s]
      BY <2>1
    <2>3. g[s] = IF s = {} THEN 0 ELSE f[First(s)] + g[s \ {First(s)}]
      BY <1>f, <1>4
    <2> QED  BY <2>2, <2>3
  <1>6. h = [s \in SUBSET S |->
               IF s = {} THEN 0 ELSE f[First(s)] + h[s \ {First(s)}]]
    <2>1. h = [s \in SUBSET S |-> h[s]]
      OBVIOUS
    <2> HIDE DEF h
    <2> QED  BY <1>5, <2>1
  <1> QED  BY <1>6 DEF SumEquation

\* SumFunctionOnSet is such a solution.
LEMMA SumIsSums ==
    ASSUME NEW S, IsFiniteSet(S), NEW f
    PROVE  \E g : SumEquation(f, S, g) /\ SumFunctionOnSet(f, S) = g[S]
  <1>1. SumFunctionOnSet(f, S) = FoldFunctionOnSet(LAMBDA a, b : a + b, 0, f, S)
    BY DEF SumFunctionOnSet
  <1>2. FoldFunctionOnSet(LAMBDA a, b : a + b, 0, f, S) =
            (CHOOSE g : g = [s \in SUBSET S |->
                 IF s = {} THEN 0
                 ELSE f[CHOOSE x \in s : TRUE] + g[s \ {CHOOSE x \in s : TRUE}]])[S]
    BY DEF FoldFunctionOnSet, MapThenFoldSet
  <1>3. SumEquation(f, S, CHOOSE g : SumEquation(f, S, g))
    BY SumsExist
  <1>4. (CHOOSE g : SumEquation(f, S, g)) =
            (CHOOSE g : g = [s \in SUBSET S |->
                 IF s = {} THEN 0
                 ELSE f[CHOOSE x \in s : TRUE] + g[s \ {CHOOSE x \in s : TRUE}]])
    BY DEF SumEquation, First
  <1> QED  BY <1>1, <1>2, <1>3, <1>4

\* Whatever element is taken first.
LEMMA SumsExchange ==
    ASSUME NEW S, IsFiniteSet(S), NEW f, \A x \in S : f[x] \in Int,
           NEW g, SumEquation(f, S, g)
    PROVE  \A s \in SUBSET S :
               /\ g[s] \in Int
               /\ \A x \in s : g[s] = f[x] + g[s \ {x}]
  <1>f. \A s \in SUBSET S : IsFiniteSet(s) /\ Cardinality(s) \in Nat
                             /\ Cardinality(s) <= Cardinality(S)
    BY FS_Subset, FS_CardinalityType
  <1>n. Cardinality(S) \in Nat
    BY FS_CardinalityType
  <1>g. \A s \in SUBSET S :
            g[s] = IF s = {} THEN 0 ELSE f[First(s)] + g[s \ {First(s)}]
    BY DEF SumEquation
  <1> DEFINE Good(s) == g[s] \in Int /\ \A x \in s : g[s] = f[x] + g[s \ {x}]
             T == { n \in Nat : \A s \in SUBSET S : Cardinality(s) <= n => Good(s) }
  <1>1. 0 \in T
    <2>1. ASSUME NEW s \in SUBSET S, Cardinality(s) <= 0
          PROVE  Good(s)
      <3>1. s = {}
        BY <1>f, <2>1, FS_EmptySet
      <3>2. g[s] = 0
        BY <1>g, <3>1
      <3> QED  BY <3>1, <3>2
    <2> HIDE DEF Good
    <2> QED  BY <2>1
  <1>2. ASSUME NEW n \in 1 .. Cardinality(S), n - 1 \in T
        PROVE  n \in T
    <2>1. ASSUME NEW s \in SUBSET S, Cardinality(s) <= n
          PROVE  Good(s)
      <3>0. \A u \in SUBSET S : Cardinality(u) <= n - 1 => Good(u)
        BY <1>2
      <3>1. CASE s = {}
        <4>1. g[s] = 0
          BY <1>g, <3>1
        <4> QED  BY <3>1, <4>1
      <3>2. CASE s # {}
        <4> DEFINE y == First(s)
        <4>1. y \in s
          BY <3>2, FirstIn
        <4> HIDE DEF y
        <4>2. \A x \in s : /\ s \ {x} \in SUBSET S
                            /\ Cardinality(s \ {x}) <= n - 1
          <5> TAKE x \in s
          <5>1. Cardinality(s \ {x}) = Cardinality(s) - 1
            BY <1>f, RestSmaller
          <5> QED  BY <1>f, <2>1, <5>1
        <4>3. \A x \in s : Good(s \ {x})
          <5> HIDE DEF Good
          <5> QED  BY <3>0, <4>2
        <4>4. g[s] = f[y] + g[s \ {y}]
          BY <1>g, <3>2 DEF y
        <4>5. f[y] \in Int /\ g[s \ {y}] \in Int
          BY <4>1, <4>3
        <4>6. ASSUME NEW x \in s
              PROVE  g[s] = f[x] + g[s \ {x}]
          <5>1. CASE x = y
            BY <4>4, <5>1
          <5>2. CASE x # y
            <6>1. x \in s \ {y} /\ y \in s \ {x}
              BY <4>1, <5>2
            <6>2. g[s \ {y}] = f[x] + g[(s \ {y}) \ {x}]
              BY <4>1, <4>3, <6>1
            <6>3. g[s \ {x}] = f[y] + g[(s \ {x}) \ {y}]
              BY <4>3, <6>1
            <6>4. (s \ {y}) \ {x} = (s \ {x}) \ {y}
              OBVIOUS
            <6>5. g[(s \ {y}) \ {x}] \in Int
              <7>1. /\ (s \ {y}) \ {x} \in SUBSET S
                    /\ IsFiniteSet(s \ {y}) /\ Cardinality(s \ {y}) <= n - 1
                BY <1>f, <4>1, <4>2
              <7>2. Cardinality((s \ {y}) \ {x}) = Cardinality(s \ {y}) - 1
                BY <6>1, <7>1, RestSmaller
              <7>3. Cardinality((s \ {y}) \ {x}) <= n - 1
                BY <1>f, <4>1, <4>2, <7>1, <7>2
              <7> QED  BY <3>0, <7>1, <7>3
            <6>6. f[x] \in Int
              OBVIOUS
            <6> DEFINE u == (s \ {x}) \ {y}
            <6>7. g[s \ {y}] = f[x] + g[u] /\ g[u] \in Int
              BY <6>2, <6>4, <6>5
            <6>8. g[s \ {x}] = f[y] + g[u]
              BY <6>3
            <6> HIDE DEF u
            <6> QED  BY <4>4, <4>5, <6>6, <6>7, <6>8
          <5> QED  BY <5>1, <5>2
        <4>7. g[s] \in Int
          BY <4>4, <4>5
        <4> QED  BY <4>6, <4>7
      <3> QED  BY <3>1, <3>2
    <2> HIDE DEF Good
    <2> QED  BY <2>1
  <1>3. 0 .. Cardinality(S) \subseteq T
    <2> HIDE DEF T
    <2> QED  BY <1>1, <1>2, <1>n, LoopInduction
  <1>4. Cardinality(S) \in T
    <2> HIDE DEF T
    <2> QED  BY <1>3, <1>n
  <1>5. \A s \in SUBSET S : Good(s)
    <2> HIDE DEF Good
    <2> QED  BY <1>f, <1>4
  <1> QED  BY <1>5

\* The sum over a subset does not depend on the set it is taken in.
LEMMA SumsAgree ==
    ASSUME NEW S, IsFiniteSet(S), NEW f, NEW g, SumEquation(f, S, g),
           NEW R \in SUBSET S, NEW e, SumEquation(f, R, e)
    PROVE  g[R] = e[R]
  <1>f. \A s \in SUBSET R : /\ IsFiniteSet(s) /\ Cardinality(s) \in Nat
                             /\ Cardinality(s) <= Cardinality(R)
    BY FS_Subset, FS_CardinalityType
  <1>n. Cardinality(R) \in Nat
    BY <1>f
  <1>g. \A s \in SUBSET R :
            /\ g[s] = IF s = {} THEN 0 ELSE f[First(s)] + g[s \ {First(s)}]
            /\ e[s] = IF s = {} THEN 0 ELSE f[First(s)] + e[s \ {First(s)}]
    BY DEF SumEquation
  <1> DEFINE T == { n \in Nat :
                      \A s \in SUBSET R : Cardinality(s) <= n => g[s] = e[s] }
  <1>1. 0 \in T
    <2>1. ASSUME NEW s \in SUBSET R, Cardinality(s) <= 0
          PROVE  g[s] = e[s]
      <3>1. s = {}
        BY <1>f, <2>1, FS_EmptySet
      <3> QED  BY <1>g, <3>1
    <2> QED  BY <2>1
  <1>2. ASSUME NEW n \in 1 .. Cardinality(R), n - 1 \in T
        PROVE  n \in T
    <2>1. ASSUME NEW s \in SUBSET R, Cardinality(s) <= n
          PROVE  g[s] = e[s]
      <3>1. CASE s = {}
        BY <1>g, <3>1
      <3>2. CASE s # {}
        <4>1. First(s) \in s /\ s \ {First(s)} \in SUBSET R
          BY <3>2, FirstIn
        <4>2. Cardinality(s \ {First(s)}) = Cardinality(s) - 1
          BY <1>f, <4>1, RestSmaller
        <4>3. Cardinality(s \ {First(s)}) <= n - 1
          BY <1>f, <2>1, <4>2
        <4>4. g[s \ {First(s)}] = e[s \ {First(s)}]
          BY <1>2, <4>1, <4>3
        <4> QED  BY <1>g, <3>2, <4>4
      <3> QED  BY <3>1, <3>2
    <2> QED  BY <2>1
  <1>3. 0 .. Cardinality(R) \subseteq T
    <2> HIDE DEF T
    <2> QED  BY <1>1, <1>2, <1>n, LoopInduction
  <1>4. Cardinality(R) \in T
    <2> HIDE DEF T
    <2> QED  BY <1>3, <1>n
  <1> QED  BY <1>f, <1>4

\* A sum over a finite set grows by the value at the element added.
LEMMA SumInsert ==
    ASSUME NEW S, IsFiniteSet(S), NEW f, NEW x, x \notin S,
           \A y \in S \cup {x} : f[y] \in Int
    PROVE  /\ SumFunctionOnSet(f, S) \in Int
           /\ SumFunctionOnSet(f, S \cup {x}) = SumFunctionOnSet(f, S) + f[x]
  <1> DEFINE R == S \cup {x}
  <1>1. IsFiniteSet(R)
    BY FS_AddElement
  <1>2. PICK g : SumEquation(f, R, g) /\ SumFunctionOnSet(f, R) = g[R]
    BY <1>1, SumIsSums
  <1>3. PICK e : SumEquation(f, S, e) /\ SumFunctionOnSet(f, S) = e[S]
    BY SumIsSums
  <1>4. g[S] = e[S]
    BY <1>1, <1>2, <1>3, SumsAgree
  <1>5. g[S] \in Int /\ g[R] = f[x] + g[R \ {x}]
    BY <1>1, <1>2, SumsExchange
  <1>6. R \ {x} = S
    OBVIOUS
  <1>7. f[x] \in Int
    OBVIOUS
  <1>8. SumFunctionOnSet(f, R) = f[x] + SumFunctionOnSet(f, S)
    BY <1>2, <1>3, <1>4, <1>5, <1>6
  <1>9. SumFunctionOnSet(f, S) \in Int
    BY <1>3, <1>4, <1>5
  <1> QED  BY <1>7, <1>8, <1>9

\* The sum of nothing.
LEMMA SumEmpty == ASSUME NEW f PROVE SumFunctionOnSet(f, {}) = 0
  <1>1. IsFiniteSet({})
    BY FS_EmptySet
  <1>2. PICK g : SumEquation(f, {}, g) /\ SumFunctionOnSet(f, {}) = g[{}]
    BY <1>1, SumIsSums
  <1> QED  BY <1>2 DEF SumEquation

\* The sums of a function over the first numbers.
LEMMA PartialSums ==
    ASSUME NEW n \in Nat, NEW f, \A j \in 1 .. n : f[j] \in Nat, NEW i \in 1 .. n
    PROVE  /\ SumFunctionOnSet(f, 1 .. i - 1) \in Int
           /\ SumFunctionOnSet(f, 1 .. i) = SumFunctionOnSet(f, 1 .. i - 1) + f[i]
  <1> DEFINE S == 1 .. i - 1
  <1>1. IsFiniteSet(S) /\ i \notin S /\ 1 .. i = S \cup {i}
    <2>1. i - 1 \in Int /\ 1 \in Int
      OBVIOUS
    <2>2. IsFiniteSet(S)
      BY <2>1, FS_Interval
    <2> QED  BY <2>2
  <1>2. \A y \in S \cup {i} : f[y] \in Int
    OBVIOUS
  <1> HIDE DEF S
  <1>3. /\ SumFunctionOnSet(f, S) \in Int
        /\ SumFunctionOnSet(f, S \cup {i}) = SumFunctionOnSet(f, S) + f[i]
    BY <1>1, <1>2, SumInsert
  <1> QED  BY <1>1, <1>3 DEF S

-----------------------------------------------------------------------------
(* Sequences laid end to end *)

\* FlattenSeq appends one sequence after another.
LEMMA FlattenLoop ==
    ASSUME NEW S, NEW q \in Seq(Seq(S)), q # << >>
    PROVE  \E g \in [0 .. Len(q) -> Seq(S)] :
               /\ g[0] = << >> /\ FlattenSeq(q) = g[Len(q)]
               /\ \A i \in 1 .. Len(q) : g[i] = g[i - 1] \o q[i]
  <1> DEFINE n == Len(q)
             V == Seq(S)
             step == [i \in 1 .. n |-> [v \in V |-> v \o q[i]]]
             Loop(h) == h = [i \in 1 .. n |->
                               IF i = 1 THEN q[i] ELSE h[i - 1] \o q[i]]
  <1>1. n \in Nat /\ n >= 1 /\ \A i \in 1 .. n : q[i] \in V
    BY LenProperties, ElementOfSeq, EmptySeq
  <1>2. << >> \in V
    BY EmptySeq
  <1>3. step \in [1 .. n -> [V -> V]]
    <2>1. ASSUME NEW v \in V, NEW i \in 1 .. n
          PROVE  v \o q[i] \in V
      BY <1>1, ConcatProperties
    <2> HIDE DEF V, n
    <2> QED  BY <2>1
  <1>4. PICK g \in [0 .. n -> V] :
            g[0] = << >> /\ \A i \in 1 .. n : g[i] = step[i][g[i - 1]]
    <2>1. LoopFunctions(V, << >>, n, step) # {}
      <3> HIDE DEF n, V, step
      <3> QED  BY <1>1, <1>2, <1>3, LoopFunction
    <2> HIDE DEF n, V, step
    <2> QED  BY <2>1 DEF LoopFunctions
  <1>5. \A i \in 1 .. n : g[i - 1] \in V /\ g[i] = g[i - 1] \o q[i]
    <2> TAKE i \in 1 .. n
    <2>1. g[i - 1] \in V
      <3>1. i - 1 \in 0 .. n
        BY <1>1
      <3> HIDE DEF n, V, step
      <3> QED  BY <1>4, <3>1
    <2> QED  BY <1>4, <2>1
  <1> HIDE DEF step
  <1>6. g[1] = q[1]
    <2>1. 1 \in 1 .. n
      BY <1>1
    <2>2. g[1] = g[1 - 1] \o q[1] /\ q[1] \in V
      <3> HIDE DEF n, V
      <3> QED  BY <1>1, <1>5, <2>1
    <2>3. 1 - 1 = 0
      OBVIOUS
    <2>4. g[1 - 1] = << >>
      BY <1>4, <2>3
    <2>5. g[1] = << >> \o q[1]
      BY <2>2, <2>4
    <2> QED  BY <2>2, <2>5, ConcatEmptySeq
  <1>7. Loop([i \in 1 .. n |-> g[i]])
    <2> DEFINE h == [i \in 1 .. n |-> g[i]]
    <2>1. ASSUME NEW i \in 1 .. n
          PROVE  h[i] = IF i = 1 THEN q[i] ELSE h[i - 1] \o q[i]
      <3>1. i # 1 => i - 1 \in 1 .. n
        BY <1>1
      <3> HIDE DEF n, V
      <3> QED  BY <1>5, <1>6, <3>1
    <2>2. h = [i \in 1 .. n |-> h[i]]
      OBVIOUS
    <2>3. Loop(h)
      <3> HIDE DEF h, n, V
      <3> QED  BY <2>1, <2>2
    <2> HIDE DEF Loop
    <2> QED  BY <2>3
  <1> DEFINE f == CHOOSE h : Loop(h)
  <1>8. Loop(f)
    <2> HIDE DEF Loop
    <2> QED  BY <1>7
  <1>9. FlattenSeq(q) = f[n]
    BY <1>1 DEF FlattenSeq
  <1> DEFINE T == { i \in 0 .. n : i = 0 \/ f[i] = g[i] }
  <1> HIDE DEF f, V
  <1>10. \A i \in 1 .. n : f[i] = IF i = 1 THEN q[i] ELSE f[i - 1] \o q[i]
    <2> HIDE DEF n
    <2> QED  BY <1>8
  <1> HIDE DEF Loop
  <1>11. n \in T
    <2>1. 0 \in T
      BY <1>1
    <2>2. ASSUME NEW k \in 1 .. n, k - 1 \in T
          PROVE  k \in T
      <3>1. CASE k = 1
        BY <1>6, <1>10, <3>1
      <3>2. CASE k # 1
        <4>1. f[k - 1] = g[k - 1] /\ k \in 0 .. n
          BY <1>1, <2>2, <3>2
        <4> HIDE DEF n
        <4> QED  BY <1>5, <1>10, <3>2, <4>1
      <3> QED  BY <3>1, <3>2
    <2>3. 0 .. n \subseteq T
      <3> HIDE DEF T, n
      <3> QED  BY <1>1, <2>1, <2>2, LoopInduction
    <2> HIDE DEF T
    <2> QED  BY <1>1, <2>3
  <1>12. FlattenSeq(q) = g[n]
    BY <1>1, <1>9, <1>11
  <1> QED  BY <1>4, <1>5, <1>12 DEF V

LEMMA ConcatEntries ==
    ASSUME NEW S, NEW a \in Seq(S), NEW b \in Seq(S), NEW c, c = a \o b
    PROVE  /\ c \in Seq(S) /\ Len(c) = Len(a) + Len(b)
           /\ \A x \in DOMAIN a : x \in DOMAIN c /\ c[x] = a[x]
           /\ \A k \in 1 .. Len(b) :
                  Len(a) + k \in DOMAIN c /\ c[Len(a) + k] = b[k]
  <1>1. /\ c \in Seq(S) /\ Len(c) = Len(a) + Len(b)
        /\ \A x \in 1 .. Len(a) + Len(b) :
               c[x] = IF x <= Len(a) THEN a[x] ELSE b[x - Len(a)]
    BY ConcatProperties
  <1>2. /\ Len(a) \in Nat /\ DOMAIN a = 1 .. Len(a)
        /\ Len(b) \in Nat
    BY LenProperties
  <1>3. DOMAIN c = 1 .. Len(a) + Len(b)
    BY <1>1, LenProperties
  <1>4. ASSUME NEW k \in 1 .. Len(b)
        PROVE  Len(a) + k \in DOMAIN c /\ c[Len(a) + k] = b[k]
    <2>1. /\ Len(a) + k \in 1 .. Len(a) + Len(b) /\ ~(Len(a) + k <= Len(a))
          /\ (Len(a) + k) - Len(a) = k
      BY <1>2
    <2>2. c[Len(a) + k] = b[(Len(a) + k) - Len(a)]
      BY <1>1, <2>1
    <2> QED  BY <1>3, <2>1, <2>2
  <1>5. ASSUME NEW x \in DOMAIN a
        PROVE  x \in DOMAIN c /\ c[x] = a[x]
    <2>1. x \in 1 .. Len(a) + Len(b) /\ x <= Len(a)
      BY <1>2
    <2> QED  BY <1>1, <1>3, <2>1
  <1> QED  BY <1>1, <1>4, <1>5

\* Where an element of one of the sequences ends up.
LEMMA FlattenElement ==
    ASSUME NEW S, NEW q \in Seq(Seq(S)), NEW f,
           \A j \in 1 .. Len(q) : f[j] = Len(q[j]),
           NEW i \in 1 .. Len(q), NEW k \in 1 .. Len(q[i])
    PROVE  /\ SumFunctionOnSet(f, 1 .. i - 1) + k \in DOMAIN FlattenSeq(q)
           /\ FlattenSeq(q)[SumFunctionOnSet(f, 1 .. i - 1) + k] = q[i][k]
  <1>0. PICK r : r = SumFunctionOnSet(f, 1 .. i - 1) + k
    OBVIOUS
  <1> DEFINE n == Len(q)
             sum(m) == SumFunctionOnSet(f, 1 .. m)
  <1>1. /\ n \in Nat /\ n >= 1 /\ q # << >>
        /\ \A j \in 1 .. n : q[j] \in Seq(S) /\ f[j] \in Nat
    BY LenProperties, ElementOfSeq, EmptySeq, SMTT(30)
  <1>2. PICK g \in [0 .. n -> Seq(S)] :
               /\ g[0] = << >> /\ FlattenSeq(q) = g[n]
               /\ \A j \in 1 .. n : g[j] = g[j - 1] \o q[j]
    BY <1>1, FlattenLoop, ZenonT(60)
  <1>3. sum(0) = 0
    <2>1. 1 .. 0 = {}
      OBVIOUS
    <2> QED  BY <2>1, SumEmpty
  <1>4. \A j \in 1 .. n : sum(j - 1) \in Int /\ sum(j) = sum(j - 1) + Len(q[j])
    BY <1>1, PartialSums
  <1>5. \A j \in 1 .. n : g[j - 1] \in Seq(S) /\ g[j] \in Seq(S)
    <2>1. \A j \in 1 .. n : j \in 0 .. n /\ j - 1 \in 0 .. n
      BY <1>1
    <2> HIDE DEF n
    <2> QED  BY <1>2, <2>1
  <1> HIDE DEF n, sum
  <1> DEFINE T == { m \in 0 .. n : Len(g[m]) = sum(m) }
  <1>6. 0 .. n \subseteq T
    <2>1. 0 \in T
      <3>1. Len(g[0]) = 0 /\ 0 \in 0 .. n
        BY <1>1, <1>2
      <3> QED  BY <1>3, <3>1
    <2>2. ASSUME NEW m \in 1 .. n, m - 1 \in T
          PROVE  m \in T
      <3>1. Len(g[m]) = Len(g[m - 1]) + Len(q[m])
        <4>1. g[m] = g[m - 1] \o q[m] /\ g[m - 1] \in Seq(S) /\ q[m] \in Seq(S)
          BY <1>1, <1>2, <1>5 DEF n
        <4> QED  BY <4>1, ConcatEntries
      <3>2. Len(g[m - 1]) = sum(m - 1) /\ m \in 0 .. n
        BY <1>1, <2>2
      <3> QED  BY <1>4, <3>1, <3>2
    <2> HIDE DEF T
    <2> QED  BY <1>1, <2>1, <2>2, LoopInduction
  <1>s. r = sum(i - 1) + k
    BY <1>0 DEF sum
  <1> DEFINE Found(m) == r \in DOMAIN g[m] /\ g[m][r] = q[i][k]
             U == { m \in 0 .. n : i <= m => Found(m) }
  <1>7. i \in 1 .. n /\ k \in Nat /\ k >= 1 /\ k <= Len(q[i]) /\ Len(q[i]) \in Nat
    <2>1. i \in 1 .. n
      BY DEF n
    <2> QED  BY <1>1, <2>1, LenProperties, SMTT(30)
  <1>8. r \in Int /\ r >= 1
    <2>1. i - 1 \in T
      <3>1. i - 1 \in 0 .. n
        BY <1>1, <1>7
      <3> HIDE DEF T
      <3> QED  BY <1>6, <3>1
    <2>2. Len(g[i - 1]) = sum(i - 1)
      BY <2>1
    <2>3. sum(i - 1) \in Nat
      BY <1>5, <1>7, <2>2, LenProperties
    <2> QED  BY <1>7, <1>s, <2>3
  <1>9. 0 .. n \subseteq U
    <2>1. 0 \in U
      BY <1>1, <1>7
    <2>2. ASSUME NEW m \in 1 .. n, m - 1 \in U
          PROVE  m \in U
      <3>1. /\ g[m] = g[m - 1] \o q[m] /\ g[m - 1] \in Seq(S) /\ q[m] \in Seq(S)
            /\ g[m] \in Seq(S)
        BY <1>1, <1>2, <1>5 DEF n
      <3>2. /\ \A x \in DOMAIN g[m - 1] : x \in DOMAIN g[m] /\ g[m][x] = g[m - 1][x]
            /\ \A x \in 1 .. Len(q[m]) :
                   /\ Len(g[m - 1]) + x \in DOMAIN g[m]
                   /\ g[m][Len(g[m - 1]) + x] = q[m][x]
        <4>1. PICK a \in Seq(S), b \in Seq(S), c \in Seq(S) :
                  a = g[m - 1] /\ b = q[m] /\ c = g[m] /\ c = a \o b
          BY <3>1
        <4>2. /\ \A x \in DOMAIN a : x \in DOMAIN c /\ c[x] = a[x]
              /\ \A x \in 1 .. Len(b) :
                     Len(a) + x \in DOMAIN c /\ c[Len(a) + x] = b[x]
          <5>1. c = a \o b
            BY <4>1
          <5>2. \A x \in DOMAIN a : x \in DOMAIN c /\ c[x] = a[x]
            BY <5>1, ConcatEntries, SMTT(30)
          <5>3. \A x \in 1 .. Len(b) : Len(a) + x \in DOMAIN c /\ c[Len(a) + x] = b[x]
            BY <5>1, ConcatEntries, SMTT(30)
          <5> QED  BY <5>2, <5>3
        <4> QED  BY <4>1, <4>2
      <3>3. CASE i = m
        <4>1. Len(g[m - 1]) = sum(i - 1)
          <5>1. m - 1 \in 0 .. n
            BY <1>1
          <5>2. m - 1 \in T
            <6> HIDE DEF T
            <6> QED  BY <1>6, <5>1
          <5> QED  BY <3>3, <5>2
        <4>2. r = Len(g[m - 1]) + k
          BY <1>s, <4>1
        <4>3. Found(m)
          BY <3>2, <3>3, <4>2
        <4> QED  BY <1>1, <4>3
      <3>4. CASE i <= m - 1
        <4>1. Found(m - 1)
          BY <2>2, <3>4
        <4>2. Found(m)
          BY <3>2, <4>1
        <4> QED  BY <1>1, <4>2
      <3>5. CASE ~(i <= m)
        BY <1>1, <3>5
      <3> QED  BY <1>7, <3>3, <3>4, <3>5
    <2> HIDE DEF U
    <2> QED  BY <1>1, <2>1, <2>2, LoopInduction
  <1>10. Found(n)
    <2>1. n \in U
      <3>1. n \in 0 .. n
        BY <1>1
      <3> HIDE DEF U
      <3> QED  BY <1>9, <3>1
    <2> QED  BY <1>1, <1>7, <2>1
  <1>11. r \in DOMAIN FlattenSeq(q) /\ FlattenSeq(q)[r] = q[i][k]
    BY <1>2, <1>10
  <1> QED  BY <1>0, <1>11

\* One element at every position picked, another at each of them.
Picks(S, q, P, e) ==
    /\ q \in Seq(Seq(S))
    /\ \A i \in 1 .. Len(q) : i \in P => e[i] \in S /\ q[i] = << e[i] >>
    /\ \A i \in 1 .. Len(q) : i \notin P => q[i] = << >>
    /\ \A i, j \in 1 .. Len(q) : i \in P /\ j \in P /\ e[i] = e[j] => i = j

\* Laying end to end the elements at the positions picked.
LEMMA FlattenPicked ==
    ASSUME NEW S, NEW q, NEW P, NEW e, Picks(S, q, P, e)
    PROVE  /\ FlattenSeq(q) \in Seq(S) /\ IsInjective(FlattenSeq(q))
           /\ \A x : x \in ToSet(FlattenSeq(q)) <=>
                         \E i \in 1 .. Len(q) : i \in P /\ e[i] = x
  <1>q. q \in Seq(Seq(S))
    BY DEF Picks
  <1>n. PICK n \in Nat : n = Len(q)
    BY <1>q, LenProperties
  <1>r. PICK r : r = FlattenSeq(q)
    OBVIOUS
  <1>2. /\ q \in Seq(Seq(S)) /\ Len(q) = n
        /\ \A i \in 1 .. n : i \in P => e[i] \in S /\ q[i] = << e[i] >>
        /\ \A i \in 1 .. n : i \notin P => q[i] = << >>
    BY <1>n DEF Picks
  <1> DEFINE Picked(m) == { e[i] : i \in P \cap 1 .. m }
             Apart == \A i, j \in P \cap 1 .. n : e[i] = e[j] => i = j
  <1>a. Apart
    BY <1>n DEF Picks
  <1>3. CASE n = 0
    <2>1. q = << >> /\ Len(q) = 0
      BY <1>2, <1>3, EmptySeq
    <2>2. r = << >>
      BY <1>r, <2>1 DEF FlattenSeq
    <2> QED  BY <1>2, <1>3, <1>r, <2>2, EmptyElements, EmptySeq
  <1>4. CASE n # 0
    <2>1. q # << >>
      BY <1>2, <1>4, EmptySeq
    <2>2. PICK g \in [0 .. n -> Seq(S)] :
               /\ g[0] = << >> /\ r = g[n]
               /\ \A i \in 1 .. n : g[i] = g[i - 1] \o q[i]
      <3>1. PICK g \in [0 .. Len(q) -> Seq(S)] :
                 /\ g[0] = << >> /\ FlattenSeq(q) = g[Len(q)]
                 /\ \A i \in 1 .. Len(q) : g[i] = g[i - 1] \o q[i]
        <4>1. \A p \in Seq(Seq(S)) : p # << >> =>
                  \E g \in [0 .. Len(p) -> Seq(S)] :
                      /\ g[0] = << >> /\ FlattenSeq(p) = g[Len(p)]
                      /\ \A i \in 1 .. Len(p) : g[i] = g[i - 1] \o p[i]
          BY FlattenLoop
        <4>2. q \in Seq(Seq(S)) /\ q # << >>
          BY <1>2, <2>1
        <4> QED  BY <4>1, <4>2
      <3> QED  BY <1>2, <1>r, <3>1
    <2> DEFINE T == { m \in 0 .. n : /\ ToSet(g[m]) = Picked(m)
                                     /\ Apart => IsInjective(g[m]) }
    <2>3. 0 \in T
      <3>1. P \cap 1 .. 0 = {} /\ 0 \in 0 .. n
        OBVIOUS
      <3>2. Picked(0) = {}
        BY <3>1
      <3> HIDE DEF Picked
      <3> QED  BY <2>2, <3>1, <3>2, EmptyElements
    <2>4. ASSUME NEW m \in 1 .. n, m - 1 \in T
          PROVE  m \in T
      <3>1. m \in 0 .. n /\ m - 1 \in 0 .. n
        OBVIOUS
      <3>2. /\ g[m - 1] \in Seq(S) /\ g[m] = g[m - 1] \o q[m]
            /\ ToSet(g[m - 1]) = Picked(m - 1)
            /\ Apart => IsInjective(g[m - 1])
        BY <2>2, <2>4, <3>1
      <3>3. CASE m \in P
        <4>1. q[m] = << e[m] >> /\ e[m] \in S
          BY <1>2, <3>3
        <4>2. /\ q[m] \in Seq(S) /\ ToSet(q[m]) = { e[m] } /\ IsInjective(q[m])
          BY <4>1, Singleton
        <4>3. ToSet(g[m]) = ToSet(g[m - 1]) \cup ToSet(q[m])
          <5>1. \A a, b \in Seq(S) : ToSet(a \o b) = ToSet(a) \cup ToSet(b)
            BY ConcatElements
          <5>2. ToSet(g[m - 1] \o q[m]) = ToSet(g[m - 1]) \cup ToSet(q[m])
            BY <3>2, <4>2, <5>1, Zenon
          <5> QED  BY <3>2, <5>2
        <4>4. Picked(m) = Picked(m - 1) \cup { e[m] }
          BY <3>3
        <4>5. ASSUME Apart
              PROVE  IsInjective(g[m])
          <5>1. e[m] \notin Picked(m - 1)
            <6>1. \A i \in P \cap 1 .. m - 1 : i \in P \cap 1 .. n /\ i # m
              OBVIOUS
            <6>2. m \in P \cap 1 .. n
              BY <3>3
            <6> QED  BY <4>5, <6>1, <6>2
          <5>2. IsInjective(g[m - 1] \o q[m]) <=>
                    /\ IsInjective(g[m - 1]) /\ IsInjective(q[m])
                    /\ \A x \in ToSet(g[m - 1]) : x \notin ToSet(q[m])
            <6>1. \A a, b \in Seq(S) :
                      IsInjective(a \o b) <=>
                          /\ IsInjective(a) /\ IsInjective(b)
                          /\ \A x \in ToSet(a) : x \notin ToSet(b)
              BY ConcatInjective
            <6> QED  BY <3>2, <4>2, <6>1, Zenon
          <5> HIDE DEF Picked
          <5> QED  BY <3>2, <4>2, <4>5, <5>1, <5>2
        <4> HIDE DEF Picked, Apart
        <4> QED  BY <3>1, <3>2, <4>2, <4>3, <4>4, <4>5
      <3>4. CASE m \notin P
        <4>1. q[m] = << >>
          BY <1>2, <3>4
        <4>2. g[m] = g[m - 1]
          BY <3>2, <4>1, ConcatEmptySeq
        <4>3. Picked(m) = Picked(m - 1)
          <5>1. P \cap 1 .. m = P \cap 1 .. m - 1
            BY <3>4
          <5> QED  BY <5>1
        <4> HIDE DEF Picked, Apart
        <4> QED  BY <3>1, <3>2, <4>2, <4>3
      <3> QED  BY <3>3, <3>4
    <2>5. n \in T
      <3>1. 0 .. n \subseteq T
        <4> HIDE DEF T
        <4> QED  BY <2>3, <2>4, LoopInduction
      <3> HIDE DEF T
      <3> QED  BY <3>1
    <2>6. r \in Seq(S) /\ ToSet(r) = Picked(n) /\ IsInjective(r)
      <3>1. n \in 0 .. n
        OBVIOUS
      <3>2. r \in Seq(S)
        BY <2>2, <3>1
      <3>3. ToSet(g[n]) = Picked(n) /\ (Apart => IsInjective(g[n]))
        BY <2>5
      <3> HIDE DEF Picked, Apart
      <3> QED  BY <1>a, <2>2, <3>2, <3>3
    <2>7. \A x : x \in ToSet(r) <=> \E i \in 1 .. n : i \in P /\ e[i] = x
      BY <2>6
    <2> QED  BY <1>2, <1>r, <2>6, <2>7
  <1> QED  BY <1>3, <1>4
=============================================================================
