-------------------------- MODULE MessageQueueProofs --------------------------
(***************************************************************************)
(* Proofs about ACE_Message_Queue for every set of threads, blocks, sizes, *)
(* priorities, deadlines and water marks and, unless a theorem says        *)
(* otherwise, every choice of the features.                                *)
(***************************************************************************)
EXTENDS MessageQueue, FiniteSetTheorems, SequenceTheorems, TLAPS

-----------------------------------------------------------------------------
(* Lists of blocks *)

LEMMA ToSetFacts ==
  ASSUME NEW s \in Seq(Blocks)
  PROVE  /\ ToSet(s) = {s[i] : i \in 1..Len(s)} /\ ToSet(s) \subseteq Blocks
         /\ Len(s) \in Nat /\ DOMAIN s = 1..Len(s)
         /\ s = <<>> <=> Len(s) = 0
         /\ \A i \in 1..Len(s) : s[i] \in Blocks /\ s[i] \in ToSet(s)
<1>1. /\ Len(s) \in Nat /\ DOMAIN s = 1..Len(s)
      /\ \A i \in 1..Len(s) : s[i] \in Blocks
  BY LenProperties, ElementOfSeq
<1>2. s = <<>> <=> Len(s) = 0
  BY EmptySeq
<1>3. QED
  BY <1>1, <1>2 DEF ToSet

LEMMA ChainFacts ==
  ASSUME NEW s \in Chains
  PROVE  s \in Seq(Blocks) /\ IsInjective(s) /\ Len(s) \in 1..MaxChain
<1>1. PICK n \in 1..MaxChain : s \in [1..n -> Blocks]
  BY DEF Chains
<1>2. n \in Nat
  BY <1>1, MessageQueueAssumption
<1>3. s \in Seq(Blocks)
  BY <1>1, <1>2, SeqDef
<1>4. Len(s) = n
  BY <1>1, <1>2, <1>3, LenProperties
<1>5. QED
  BY <1>1, <1>3, <1>4 DEF Chains

\* One list behind another,
LEMMA JoinFacts ==
  ASSUME NEW s \in Seq(Blocks), NEW r \in Seq(Blocks), IsInjective(s), IsInjective(r),
         ToSet(s) \cap ToSet(r) = {}
  PROVE  /\ s \o r \in Seq(Blocks) /\ IsInjective(s \o r)
         /\ ToSet(s \o r) = ToSet(s) \cup ToSet(r)
         /\ Len(s \o r) = Len(s) + Len(r)
<1> DEFINE m == Len(s)
           n == Len(r)
           j == s \o r
<1>1. /\ j \in Seq(Blocks) /\ Len(j) = m + n
      /\ \A i \in 1..(m + n) : j[i] = IF i <= m THEN s[i] ELSE r[i - m]
  BY ConcatProperties
<1>2. /\ m \in Nat /\ n \in Nat
      /\ DOMAIN s = 1..m /\ DOMAIN r = 1..n /\ DOMAIN j = 1..(m + n)
      /\ ToSet(s) = {s[i] : i \in 1..m} /\ ToSet(r) = {r[i] : i \in 1..n}
      /\ ToSet(j) = {j[i] : i \in 1..(m + n)}
  BY <1>1, ToSetFacts
<1> HIDE DEF m, n, j
<1>3. \A i \in 1..m : i \in 1..(m + n) /\ j[i] = s[i]
  BY <1>1, <1>2
<1>4. \A i \in 1..n : m + i \in 1..(m + n) /\ j[m + i] = r[i]
  BY <1>1, <1>2
<1>5. \A i \in 1..(m + n) : i \in 1..m \/ \E k \in 1..n : i = m + k
  <2>1. ASSUME NEW i \in 1..(m + n), i \notin 1..m
        PROVE  i - m \in 1..n /\ i = m + (i - m)
    BY <1>2, <2>1
  <2>2. QED BY <2>1
<1>6. ToSet(j) = ToSet(s) \cup ToSet(r)
  <2>1. ASSUME NEW i \in 1..(m + n) PROVE j[i] \in ToSet(s) \cup ToSet(r)
    <3>1. CASE i \in 1..m
      BY <1>2, <1>3, <3>1
    <3>2. CASE \E k \in 1..n : i = m + k
      BY <1>2, <1>4, <3>2
    <3>3. QED BY <1>5, <3>1, <3>2
  <2>2. ASSUME NEW i \in 1..m PROVE s[i] \in ToSet(j)
    BY <1>2, <1>3
  <2>3. ASSUME NEW i \in 1..n PROVE r[i] \in ToSet(j)
    BY <1>2, <1>4
  <2>4. QED BY <1>2, <2>1, <2>2, <2>3, ZenonT(40)
<1>7. ASSUME NEW a \in 1..(m + n), NEW b \in 1..(m + n), j[a] = j[b]
      PROVE  a = b
  <2>1. CASE a \in 1..m /\ b \in 1..m
    BY <1>2, <1>3, <1>7, <2>1 DEF IsInjective
  <2>2. ASSUME NEW x \in 1..m, NEW y \in 1..n, j[x] = j[m + y]
        PROVE  FALSE
    BY <1>2, <1>3, <1>4, <2>2
  <2>3. CASE \E x \in 1..n, y \in 1..n : a = m + x /\ b = m + y
    <3>1. PICK x \in 1..n, y \in 1..n : a = m + x /\ b = m + y
      BY <2>3
    <3>2. r[x] = r[y]
      BY <1>4, <1>7, <3>1
    <3>3. x = y
      BY <1>2, <3>2 DEF IsInjective
    <3>4. QED BY <3>1, <3>3
  <2>4. QED BY <1>5, <1>7, <2>1, <2>2, <2>3
<1>8. IsInjective(j)
  BY <1>2, <1>7 DEF IsInjective
<1>9. QED
  BY <1>1, <1>6, <1>8 DEF j, m, n

\* a part of a list,
LEMMA PartFacts ==
  ASSUME NEW q \in Seq(Blocks), IsInjective(q), NEW a \in 1..(Len(q) + 1), NEW b \in 0..Len(q),
         a <= b + 1
  PROVE  LET s == SubSeq(q, a, b)
         IN  /\ s \in Seq(Blocks) /\ IsInjective(s) /\ Len(s) = b - a + 1
             /\ ToSet(s) = {q[i] : i \in a..b}
<1> DEFINE s == SubSeq(q, a, b)
           n == b - a + 1
<1>1. /\ Len(q) \in Nat /\ DOMAIN q = 1..Len(q)
      /\ \A i \in 1..Len(q) : q[i] \in Blocks
  BY ToSetFacts
<1>2. a \in Int /\ b \in Int /\ n \in Nat /\ a..b \subseteq 1..Len(q)
  BY <1>1
<1>3. \A i \in a..b : q[i] \in Blocks
  BY <1>1, <1>2
<1>4. /\ s \in Seq(Blocks) /\ Len(s) = n
      /\ \A i \in 1..n : s[i] = q[a + i - 1]
  BY <1>2, <1>3, SubSeqProperties
<1>5. DOMAIN s = 1..n /\ ToSet(s) = {s[i] : i \in 1..n}
  BY <1>4, ToSetFacts
<1> HIDE DEF s
<1>6. \A i \in 1..n : a + i - 1 \in a..b
  BY <1>2
<1>7. \A k \in a..b : k - a + 1 \in 1..n /\ a + (k - a + 1) - 1 = k
  BY <1>2
<1>8. ToSet(s) = {q[i] : i \in a..b}
  <2>1. ASSUME NEW k \in a..b PROVE q[k] \in ToSet(s)
    <3>1. s[k - a + 1] = q[k]
      BY <1>4, <1>7
    <3>2. QED BY <1>5, <1>7, <3>1
  <2>2. ASSUME NEW i \in 1..n PROVE s[i] \in {q[k] : k \in a..b}
    BY <1>4, <1>6
  <2>3. QED BY <1>5, <2>1, <2>2
<1>9. IsInjective(s)
  <2>1. ASSUME NEW i \in 1..n, NEW k \in 1..n, s[i] = s[k] PROVE i = k
    <3>1. q[a + i - 1] = q[a + k - 1] /\ a + i - 1 \in 1..Len(q) /\ a + k - 1 \in 1..Len(q)
      BY <1>2, <1>4, <1>6, <2>1
    <3>2. a + i - 1 = a + k - 1
      BY <1>1, <3>1 DEF IsInjective
    <3>3. QED BY <1>2, <3>2
  <2>2. QED BY <1>5, <2>1 DEF IsInjective
<1>10. QED
  BY <1>4, <1>8, <1>9 DEF s

\* and one block.
LEMMA OneFacts ==
  ASSUME NEW b \in Blocks
  PROVE  <<b>> \in Seq(Blocks) /\ IsInjective(<<b>>) /\ ToSet(<<b>>) = {b} /\ Len(<<b>>) = 1
BY DEF IsInjective, ToSet

LEMMA EmptyFacts ==
  <<>> \in Seq(Blocks) /\ IsInjective(<<>>) /\ ToSet(<<>>) = {} /\ Len(<<>>) = 0
BY DEF IsInjective, ToSet

\* A block is linked in behind the k-th,
LEMMA InsertFacts ==
  ASSUME NEW q \in Seq(Blocks), IsInjective(q), NEW k \in 0..Len(q), NEW b \in Blocks,
         b \notin ToSet(q)
  PROVE  LET s == InsertAt(q, k + 1, b)
         IN  /\ s \in Seq(Blocks) /\ IsInjective(s) /\ Len(s) = Len(q) + 1
             /\ ToSet(s) = ToSet(q) \cup {b}
<1> DEFINE n == Len(q)
           x == SubSeq(q, 1, k)
           y == SubSeq(q, k + 1, n)
           z == x \o <<b>>
<1>1. /\ n \in Nat /\ k \in Nat /\ 1 \in 1..(n + 1) /\ k + 1 \in 1..(n + 1) /\ n \in 0..n
      /\ 1 <= k + 1 /\ k + 1 <= n + 1 /\ (k + 1) - 1 = k /\ DOMAIN q = 1..n
      /\ ToSet(q) = {q[i] : i \in 1..n}
  BY ToSetFacts
<1>2. /\ x \in Seq(Blocks) /\ IsInjective(x) /\ Len(x) = k - 1 + 1
      /\ ToSet(x) = {q[i] : i \in 1..k}
  BY <1>1, PartFacts
<1>3. /\ y \in Seq(Blocks) /\ IsInjective(y) /\ Len(y) = n - (k + 1) + 1
      /\ ToSet(y) = {q[i] : i \in (k + 1)..n}
  BY <1>1, PartFacts
<1>4. InsertAt(q, k + 1, b) = z \o y
  BY <1>1 DEF InsertAt
<1> HIDE DEF x, y
<1>5. <<b>> \in Seq(Blocks) /\ IsInjective(<<b>>) /\ ToSet(<<b>>) = {b} /\ Len(<<b>>) = 1
  BY OneFacts
<1>6. ToSet(q) = ToSet(x) \cup ToSet(y)
  <2>1. 1..n = (1..k) \cup ((k + 1)..n)
    BY <1>1
  <2>2. QED BY <1>1, <1>2, <1>3, <2>1
<1>7. ToSet(x) \cap ToSet(y) = {}
  <2>1. ASSUME NEW i \in 1..k, NEW j \in (k + 1)..n PROVE q[i] # q[j]
    <3>1. i \in 1..n /\ j \in 1..n /\ i # j
      BY <1>1
    <3>2. QED BY <1>1, <3>1 DEF IsInjective
  <2>2. QED BY <1>2, <1>3, <2>1
<1>8. ToSet(x) \cap ToSet(<<b>>) = {}
  BY <1>5, <1>6
<1>9. /\ z \in Seq(Blocks) /\ IsInjective(z) /\ ToSet(z) = ToSet(x) \cup ToSet(<<b>>)
      /\ Len(z) = Len(x) + Len(<<b>>)
  BY <1>2, <1>5, <1>8, JoinFacts
<1> HIDE DEF z
<1>10. ToSet(z) \cap ToSet(y) = {}
  BY <1>5, <1>6, <1>7, <1>9
<1>11. /\ z \o y \in Seq(Blocks) /\ IsInjective(z \o y)
       /\ ToSet(z \o y) = ToSet(z) \cup ToSet(y) /\ Len(z \o y) = Len(z) + Len(y)
  BY <1>3, <1>9, <1>10, JoinFacts
<1>12. ToSet(z \o y) = ToSet(q) \cup {b} /\ Len(z \o y) = n + 1
  BY <1>1, <1>2, <1>3, <1>5, <1>6, <1>9, <1>11
<1>13. QED
  BY <1>4, <1>11, <1>12

\* or the k-th is unlinked.
LEMMA RemoveFacts ==
  ASSUME NEW q \in Seq(Blocks), IsInjective(q), NEW k \in 1..Len(q)
  PROVE  LET s == RemoveAt(q, k)
         IN  /\ s \in Seq(Blocks) /\ IsInjective(s) /\ Len(s) = Len(q) - 1
             /\ ToSet(s) = ToSet(q) \ {q[k]} /\ q[k] \in ToSet(q)
<1> DEFINE n == Len(q)
           x == SubSeq(q, 1, k - 1)
           y == SubSeq(q, k + 1, n)
<1>1. /\ n \in Nat /\ k \in Nat /\ 1 \in 1..(n + 1) /\ k + 1 \in 1..(n + 1) /\ n \in 0..n
      /\ k - 1 \in 0..n /\ 1 <= (k - 1) + 1 /\ k + 1 <= n + 1 /\ DOMAIN q = 1..n
      /\ ToSet(q) = {q[i] : i \in 1..n}
  BY ToSetFacts
<1>2. /\ x \in Seq(Blocks) /\ IsInjective(x) /\ Len(x) = (k - 1) - 1 + 1
      /\ ToSet(x) = {q[i] : i \in 1..(k - 1)}
  BY <1>1, PartFacts
<1>3. /\ y \in Seq(Blocks) /\ IsInjective(y) /\ Len(y) = n - (k + 1) + 1
      /\ ToSet(y) = {q[i] : i \in (k + 1)..n}
  BY <1>1, PartFacts
<1>4. RemoveAt(q, k) = x \o y
  BY DEF RemoveAt
<1> HIDE DEF x, y
<1>5. ToSet(q) = ToSet(x) \cup ToSet(y) \cup {q[k]}
  <2>1. 1..n = (1..(k - 1)) \cup ((k + 1)..n) \cup {k}
    BY <1>1
  <2>2. QED BY <1>1, <1>2, <1>3, <2>1
<1>6. ASSUME NEW i \in 1..n, NEW j \in 1..n, i # j PROVE q[i] # q[j]
  BY <1>1, <1>6 DEF IsInjective
<1>7. ToSet(x) \cap ToSet(y) = {}
  <2>1. ASSUME NEW i \in 1..(k - 1), NEW j \in (k + 1)..n
        PROVE  i \in 1..n /\ j \in 1..n /\ i # j
    BY <1>1
  <2>2. QED BY <1>2, <1>3, <1>6, <2>1
<1>8. q[k] \notin ToSet(x) \cup ToSet(y)
  <2>1. ASSUME NEW i \in (1..(k - 1)) \cup ((k + 1)..n) PROVE i \in 1..n /\ i # k
    BY <1>1
  <2>2. QED BY <1>2, <1>3, <1>6, <2>1
<1>9. /\ x \o y \in Seq(Blocks) /\ IsInjective(x \o y)
      /\ ToSet(x \o y) = ToSet(x) \cup ToSet(y) /\ Len(x \o y) = Len(x) + Len(y)
  BY <1>2, <1>3, <1>7, JoinFacts
<1>10. Len(x \o y) = n - 1
  <2>1. Len(x) = k - 1 /\ Len(y) = n - k
    BY <1>1, <1>2, <1>3
  <2>2. QED BY <1>1, <1>9, <2>1
<1>11. QED
  BY <1>4, <1>5, <1>8, <1>9, <1>10

-----------------------------------------------------------------------------
(* Bytes *)

LEMMA BlockOfBytes ==
  ASSUME NEW b, NEW n \in Nat
  PROVE  IsFiniteSet({b} \X (1..n)) /\ Cardinality({b} \X (1..n)) = n
<1>1. IsFiniteSet({b}) /\ Cardinality({b}) = 1
  BY FS_Singleton
<1>2. IsFiniteSet(1..n) /\ Cardinality(1..n) = IF 1 > n THEN 0 ELSE n - 1 + 1
  BY FS_Interval
<1>3. Cardinality(1..n) = n
  BY <1>2
<1>4. /\ IsFiniteSet({b} \X (1..n))
      /\ Cardinality({b} \X (1..n)) = Cardinality({b}) * Cardinality(1..n)
  BY <1>1, <1>2, FS_Product
<1>5. QED
  BY <1>1, <1>3, <1>4

LEMMA BytesFacts ==
  ASSUME NEW s \in Seq(Blocks)
  PROVE  /\ IsFiniteSet(Bytes(s)) /\ Total(s) \in Nat
         /\ Bytes(s) = {p \in Blocks \X Nat : p[1] \in ToSet(s) /\ p[2] \in 1..Size[p[1]]}
<1> DEFINE S == ToSet(s)
           f == [b \in S |-> {b} \X (1..Size[b])]
           T == {{b} \X (1..Size[b]) : b \in S}
<1>1. S \subseteq Blocks /\ IsFiniteSet(S)
  BY ToSetFacts, FS_Subset, MessageQueueAssumption
<1>2. \A b \in S : Size[b] \in Nat
  BY <1>1, MessageQueueAssumption
<1>3. f \in Surjection(S, T)
  BY DEF Surjection
<1>4. IsFiniteSet(T)
  BY <1>1, <1>3, FS_Surjection
<1>5. \A b \in S : IsFiniteSet({b} \X (1..Size[b]))
  BY <1>2, BlockOfBytes
<1>6. IsFiniteSet(UNION T)
  BY <1>4, <1>5, FS_UNION
<1>7. Bytes(s) = UNION T
  BY DEF Bytes
<1>8. Total(s) \in Nat
  BY <1>6, <1>7, FS_CardinalityType DEF Total
<1>9. Bytes(s) = {p \in Blocks \X Nat : p[1] \in S /\ p[2] \in 1..Size[p[1]]}
  BY <1>1, <1>2 DEF Bytes
<1>10. QED
  BY <1>6, <1>7, <1>8, <1>9

\* The bytes of two lists of different blocks add up.
LEMMA TotalJoin ==
  ASSUME NEW q \in Seq(Blocks), NEW r \in Seq(Blocks), NEW s \in Seq(Blocks),
         ToSet(s) = ToSet(q) \cup ToSet(r), ToSet(q) \cap ToSet(r) = {}
  PROVE  Total(s) = Total(q) + Total(r)
<1>1. /\ IsFiniteSet(Bytes(q)) /\ IsFiniteSet(Bytes(r)) /\ Total(q) \in Nat /\ Total(r) \in Nat
      /\ Bytes(q) = {p \in Blocks \X Nat : p[1] \in ToSet(q) /\ p[2] \in 1..Size[p[1]]}
      /\ Bytes(r) = {p \in Blocks \X Nat : p[1] \in ToSet(r) /\ p[2] \in 1..Size[p[1]]}
      /\ Bytes(s) = {p \in Blocks \X Nat : p[1] \in ToSet(s) /\ p[2] \in 1..Size[p[1]]}
  BY BytesFacts
<1>2. Bytes(s) = Bytes(q) \cup Bytes(r) /\ Bytes(q) \cap Bytes(r) = {}
  BY <1>1
<1>3. Cardinality(Bytes(s)) =
        Cardinality(Bytes(q)) + Cardinality(Bytes(r)) - Cardinality(Bytes(q) \cap Bytes(r))
  <2>1. Cardinality(Bytes(q) \cup Bytes(r)) =
          Cardinality(Bytes(q)) + Cardinality(Bytes(r)) - Cardinality(Bytes(q) \cap Bytes(r))
    BY <1>1, FS_Union
  <2>2. QED BY <1>2, <2>1
<1>4. Cardinality(Bytes(q) \cap Bytes(r)) = 0
  BY <1>2, FS_EmptySet
<1>5. QED
  BY <1>1, <1>3, <1>4 DEF Total

LEMMA TotalEmpty == Total(<<>>) = 0
BY FS_EmptySet, EmptyFacts DEF Total, Bytes

LEMMA TotalOne ==
  ASSUME NEW b \in Blocks
  PROVE  Total(<<b>>) = Size[b]
<1>1. ToSet(<<b>>) = {b}
  BY OneFacts
<1>2. Bytes(<<b>>) = {b} \X (1..Size[b])
  BY <1>1 DEF Bytes
<1>3. Size[b] \in Nat
  BY MessageQueueAssumption
<1>4. QED
  BY <1>2, <1>3, BlockOfBytes DEF Total

LEMMA TotalTake ==
  ASSUME NEW q \in Seq(Blocks), NEW s \in Seq(Blocks), NEW b \in ToSet(q),
         ToSet(s) = ToSet(q) \ {b}
  PROVE  Total(s) = Total(q) - Size[b] /\ Size[b] \in Nat
<1>1. b \in Blocks
  BY ToSetFacts
<1>2. <<b>> \in Seq(Blocks) /\ ToSet(<<b>>) = {b}
  BY <1>1, OneFacts
<1>3. ToSet(q) = ToSet(s) \cup ToSet(<<b>>) /\ ToSet(s) \cap ToSet(<<b>>) = {}
  BY <1>2
<1>4. Total(q) = Total(s) + Total(<<b>>)
  BY <1>2, <1>3, TotalJoin
<1>5. Total(s) \in Nat /\ Total(q) \in Nat /\ Size[b] \in Nat
  BY <1>1, BytesFacts, MessageQueueAssumption
<1>6. QED
  BY <1>1, <1>4, <1>5, TotalOne

-----------------------------------------------------------------------------
(* Positions *)

LEMMA LeastOf ==
  ASSUME NEW T \in SUBSET Nat, T # {}
  PROVE  \E x \in T : \A y \in T : x <= y
<1> DEFINE R == OpToRel(<, Nat)
<1>1. IsWellFoundedOn(R, Nat)
  BY NatLessThanWellFounded
<1>2. \A x, y \in Nat : x < y => <<x, y>> \in R
  BY DEF OpToRel
<1> HIDE DEF R
<1>3. PICK x \in T : \A y \in T : ~(<<y, x>> \in R)
  BY <1>1, WFMin
<1>4. ASSUME NEW y \in T PROVE x <= y
  <2>1. x \in Nat /\ y \in Nat /\ ~(y < x)
    BY <1>2, <1>3
  <2>2. QED BY <2>1
<1>5. QED
  BY <1>4

LEMMA GreatestOf ==
  ASSUME NEW n \in Nat, NEW T \in SUBSET (1..n), T # {}
  PROVE  \E x \in T : \A y \in T : y <= x
<1> DEFINE D == {n - i : i \in T}
<1>1. D \in SUBSET Nat /\ D # {}
  <2>1. ASSUME NEW i \in T PROVE n - i \in Nat
    OBVIOUS
  <2>2. QED BY <2>1
<1>2. PICK d \in D : \A e \in D : d <= e
  BY <1>1, LeastOf
<1>3. PICK x \in T : d = n - x
  BY <1>2
<1>4. ASSUME NEW y \in T PROVE y <= x
  <2>1. n - y \in D
    OBVIOUS
  <2>2. n - x <= n - y
    BY <1>2, <1>3, <2>1
  <2>3. x \in Nat /\ y \in Nat
    OBVIOUS
  <2>4. QED BY <2>2, <2>3
<1>5. QED
  BY <1>4

\* Where a block goes,
LEMMA AfterFacts ==
  ASSUME queue \in Seq(Blocks), NEW b \in Blocks
  PROVE  AfterPriority(b) \in 0..Len(queue) /\ AfterDeadline(b) \in 0..Len(queue)
<1> DEFINE n == Len(queue)
           ge == {i \in 1..n : Priority[queue[i]] >= Priority[b]}
           later == {i \in 1..n : Deadline[b] < Deadline[queue[i]]}
<1>1. n \in Nat
  BY ToSetFacts
<1>2. AfterPriority(b) \in 0..n
  <2>1. CASE ge = {}
    BY <1>1, <2>1 DEF AfterPriority
  <2>2. CASE ge # {}
    <3>1. \E i \in ge : \A j \in ge : j <= i
      BY <1>1, <2>2, GreatestOf
    <3>2. AfterPriority(b) \in ge
      BY <2>2, <3>1 DEF AfterPriority
    <3>3. QED BY <1>1, <3>2
  <2>3. QED BY <2>1, <2>2
<1>3. AfterDeadline(b) \in 0..n
  <2>1. CASE later = {}
    BY <1>1, <2>1 DEF AfterDeadline
  <2>2. CASE later # {}
    <3>1. later \in SUBSET Nat
      BY <1>1
    <3>2. \E i \in later : \A j \in later : i <= j
      BY <2>2, <3>1, LeastOf
    <3>3. AfterDeadline(b) \in later
      BY <2>2, <3>2 DEF AfterDeadline
    <3>4. QED BY <1>1, <3>3
  <2>3. QED BY <2>1, <2>2
<1>4. QED
  BY <1>2, <1>3

\* and the first of those with the least value.
LEMMA FirstLeastFacts ==
  ASSUME queue \in Seq(Blocks), queue # <<>>, NEW value \in [Blocks -> Nat]
  PROVE  /\ FirstLeast(value) \in 1..Len(queue)
         /\ \A j \in 1..Len(queue) :
              /\ value[queue[FirstLeast(value)]] <= value[queue[j]]
              /\ value[queue[FirstLeast(value)]] = value[queue[j]] => FirstLeast(value) <= j
<1> DEFINE n == Len(queue)
           V == {value[queue[i]] : i \in 1..n}
<1>1. n \in Nat \ {0} /\ \A i \in 1..n : queue[i] \in Blocks /\ value[queue[i]] \in Nat
  BY ToSetFacts
<1>2. V \in SUBSET Nat /\ V # {}
  <2>1. 1 \in 1..n
    BY <1>1
  <2>2. QED BY <1>1, <2>1
<1>3. PICK v \in V : \A w \in V : v <= w
  BY <1>2, LeastOf
<1> DEFINE I == {i \in 1..n : value[queue[i]] = v}
<1>4. I \in SUBSET Nat /\ I # {}
  BY <1>1
<1>5. PICK i \in I : \A j \in I : i <= j
  BY <1>4, LeastOf
<1>6. i \in 1..n /\ \A j \in 1..n : /\ value[queue[i]] <= value[queue[j]]
                                    /\ value[queue[i]] = value[queue[j]] => i <= j
  BY <1>3, <1>5
<1>7. QED
  BY <1>6 DEF FirstLeast

-----------------------------------------------------------------------------
(* What the operations do to the list *)

LEMMA EnqueuedFacts ==
  ASSUME queue \in Seq(Blocks), IsInjective(queue), NEW op \in EnqueueOps,
         NEW items \in Chains, ToSet(items) \cap ToSet(queue) = {},
         op \in {"prio", "deadline"} => Len(items) = 1
  PROVE  LET s == Enqueued(op, items)
         IN  /\ s \in Seq(Blocks) /\ IsInjective(s) /\ s # <<>>
             /\ ToSet(s) = ToSet(queue) \cup ToSet(items)
             /\ Len(s) = Len(queue) + Len(items)
             /\ Total(s) = Total(queue) + Total(items)
<1> DEFINE s == Enqueued(op, items)
<1>1. /\ items \in Seq(Blocks) /\ IsInjective(items) /\ Len(items) \in Nat \ {0}
      /\ Len(queue) \in Nat
  BY ChainFacts, ToSetFacts, MessageQueueAssumption
<1>2. /\ s \in Seq(Blocks) /\ IsInjective(s) /\ ToSet(s) = ToSet(queue) \cup ToSet(items)
      /\ Len(s) = Len(queue) + Len(items)
  <2>1. CASE op = "head"
    <3>1. s = items \o queue
      BY <2>1 DEF Enqueued
    <3>2. /\ s \in Seq(Blocks) /\ IsInjective(s) /\ ToSet(s) = ToSet(items) \cup ToSet(queue)
          /\ Len(s) = Len(items) + Len(queue)
      BY <1>1, <3>1, JoinFacts
    <3>3. QED BY <1>1, <3>2
  <2>2. CASE op = "tail"
    <3>1. s = queue \o items
      BY <2>2 DEF Enqueued
    <3>2. QED BY <1>1, <3>1, JoinFacts
  <2>3. CASE op \in {"prio", "deadline"}
    <3> DEFINE b == items[1]
    <3>1. Len(items) = 1
      BY <2>3
    <3>2. b \in Blocks /\ ToSet(items) = {b}
      <4>1. /\ ToSet(items) = {items[i] : i \in 1..Len(items)}
            /\ \A i \in 1..Len(items) : items[i] \in Blocks
        BY <1>1, ToSetFacts
      <4>2. 1..Len(items) = {1}
        BY <3>1
      <4>3. QED BY <4>1, <4>2
    <3>3. PICK k \in 0..Len(queue) : s = InsertAt(queue, k + 1, b)
      BY <2>3, <3>2, AfterFacts DEF Enqueued
    <3>4. b \notin ToSet(queue)
      BY <3>2
    <3> HIDE DEF b, s
    <3>5. /\ s \in Seq(Blocks) /\ IsInjective(s) /\ Len(s) = Len(queue) + 1
          /\ ToSet(s) = ToSet(queue) \cup {b}
      BY <3>2, <3>3, <3>4, InsertFacts
    <3>6. QED BY <3>1, <3>2, <3>5
  <2>4. QED
    BY <2>1, <2>2, <2>3, MessageQueueAssumption
<1> HIDE DEF s
<1>3. Total(s) = Total(queue) + Total(items)
  BY <1>1, <1>2, TotalJoin
<1>4. s # <<>>
  BY <1>1, <1>2, EmptyFacts
<1>5. QED
  BY <1>2, <1>3, <1>4 DEF s

LEMMA TakenFacts ==
  ASSUME queue \in Seq(Blocks), IsInjective(queue), queue # <<>>,
         NEW op \in DequeueOps, op # "peek"
  PROVE  LET s == RemoveAt(queue, Chosen(op))
             b == queue[Chosen(op)]
         IN  /\ s \in Seq(Blocks) /\ IsInjective(s) /\ Len(s) = Len(queue) - 1
             /\ ToSet(s) \subseteq ToSet(queue)
             /\ Total(s) = Total(queue) - Size[b] /\ Size[b] \in Nat
<1> DEFINE k == Chosen(op)
           s == RemoveAt(queue, k)
<1>1. Len(queue) \in Nat \ {0}
  BY ToSetFacts
<1>2. k \in 1..Len(queue)
  <2>1. FirstLeast(Priority) \in 1..Len(queue) /\ FirstLeast(Deadline) \in 1..Len(queue)
    BY FirstLeastFacts, MessageQueueAssumption
  <2>2. op \in {"head", "tail", "prio", "deadline"}
    BY MessageQueueAssumption
  <2>3. QED BY <1>1, <2>1, <2>2 DEF Chosen
<1> HIDE DEF k
<1>3. /\ s \in Seq(Blocks) /\ IsInjective(s) /\ Len(s) = Len(queue) - 1
      /\ ToSet(s) = ToSet(queue) \ {queue[k]} /\ queue[k] \in ToSet(queue)
  BY <1>2, RemoveFacts
<1> HIDE DEF s
<1>4. Total(s) = Total(queue) - Size[queue[k]] /\ Size[queue[k]] \in Nat
  BY <1>3, TotalTake
<1>5. QED
  BY <1>3, <1>4 DEF s, k

\* Who is told.
LEMMA SignalFacts ==
  ASSUME NEW call, NEW sig, NEW new \in AfterSignal(call, sig)
  PROVE  /\ sig \subseteq new /\ new \subseteq sig \cup Waiting(call)
         /\ \/ new = sig /\ Waiting(call) \subseteq sig
            \/ \E t \in Waiting(call) \ sig : new = sig \cup {t}
<1>1. CASE Waiting(call) \ sig = {}
  BY <1>1 DEF AfterSignal
<1>2. CASE Waiting(call) \ sig # {}
  BY <1>2 DEF AfterSignal
<1>3. QED
  BY <1>1, <1>2

-----------------------------------------------------------------------------
(* The inductive invariant *)

\* What a waiting call was given.
Sorted(f) ==
  /\ f.call = "enqueue" => /\ f.op \in EnqueueOps /\ f.items \in Chains
                           /\ f.op \in {"prio", "deadline"} => Len(f.items) = 1
  /\ f.call = "dequeue" => f.op \in DequeueOps
  /\ f.call # "enqueue" => f.items = <<>>

(***************************************************************************)
(* A block is linked once or is in the hands of one waiting producer.      *)
(* Without it cur_bytes_ would not be the size of what is linked.          *)
(***************************************************************************)
Owned ==
  /\ IsInjective(queue)
  /\ \A t \in Threads : Sorted(frame[t]) /\ InHand(t) \cap ToSet(queue) = {}
  /\ \A t, u \in Threads : t # u => InHand(t) \cap InHand(u) = {}

\* Waiting threads know what they wait for, and signals reach waiting threads.
Typed ==
  /\ queue \in Seq(Blocks) /\ cur_bytes = Total(queue)
  /\ frame \in [Threads -> Frames] /\ signaled \subseteq Everybody
  /\ state \in {ACTIVATED, DEACTIVATED, PULSED}

Safe == Typed /\ Owned /\ NobodySleepsDeactivated

LEMMA FrameFacts ==
  /\ NoCall \in Frames /\ NoCall.call = "none" /\ NoCall.items = <<>> /\ Sorted(NoCall)
  /\ \A op \in EnqueueOps, items \in Chains, timed \in BOOLEAN :
       LET f == Frame("enqueue", op, items, timed)
       IN  f \in Frames /\ f.call = "enqueue" /\ f.op = op /\ f.items = items
  /\ \A op \in DequeueOps, timed \in BOOLEAN :
       LET f == Frame("dequeue", op, <<>>, timed)
       IN  f \in Frames /\ f.call = "dequeue" /\ f.op = op /\ f.items = <<>>
<1>1. NoCall \in Frames /\ NoCall.call = "none" /\ NoCall.items = <<>> /\ Sorted(NoCall)
  BY DEF NoCall, Frame, Frames, Sorted
<1>2. ASSUME NEW op \in EnqueueOps, NEW items \in Chains, NEW timed \in BOOLEAN
      PROVE  LET f == Frame("enqueue", op, items, timed)
             IN  f \in Frames /\ f.call = "enqueue" /\ f.op = op /\ f.items = items
  BY DEF Frame, Frames
<1>3. ASSUME NEW op \in DequeueOps, NEW timed \in BOOLEAN
      PROVE  LET f == Frame("dequeue", op, <<>>, timed)
             IN  f \in Frames /\ f.call = "dequeue" /\ f.op = op /\ f.items = <<>>
  BY DEF Frame, Frames
<1>4. QED
  BY <1>1, <1>2, <1>3

\* The call of t changes to f.
LEMMA CallChanges ==
  ASSUME frame \in [Threads -> Frames], NEW t \in Threads, NEW f \in Frames,
         frame' = [frame EXCEPT ![t] = f]
  PROVE  /\ frame' \in [Threads -> Frames] /\ frame'[t] = f
         /\ \A u \in Threads \ {t} : frame'[u] = frame[u]
         /\ \A c \in {"enqueue", "dequeue"} :
              /\ Waiting(c)' = (Waiting(c) \ {t}) \cup IF f.call = c THEN {t} ELSE {}
              /\ Waiting(c) \subseteq Threads
         /\ Everybody' = (Everybody \ {t}) \cup
                           IF f.call \in {"enqueue", "dequeue"} THEN {t} ELSE {}
<1>1. /\ frame' \in [Threads -> Frames] /\ frame'[t] = f
      /\ \A u \in Threads \ {t} : frame'[u] = frame[u]
  OBVIOUS
<1>2. ASSUME NEW c \in {"enqueue", "dequeue"}
      PROVE  /\ Waiting(c)' = (Waiting(c) \ {t}) \cup IF f.call = c THEN {t} ELSE {}
             /\ Waiting(c) \subseteq Threads
  BY <1>1 DEF Waiting
<1>3. QED
  BY <1>1, <1>2 DEF Everybody

LEMMA Returns ==
  ASSUME frame \in [Threads -> Frames], NEW t \in Threads, Return(t)
  PROVE  /\ frame' \in [Threads -> Frames] /\ frame'[t] = NoCall
         /\ \A u \in Threads \ {t} : frame'[u] = frame[u]
         /\ Waiting("enqueue")' = Waiting("enqueue") \ {t}
         /\ Waiting("dequeue")' = Waiting("dequeue") \ {t}
         /\ Everybody' = Everybody \ {t}
<1>1. NoCall \in Frames /\ NoCall.call = "none"
  BY FrameFacts
<1>2. frame' = [frame EXCEPT ![t] = NoCall]
  BY DEF Return
<1> HIDE DEF NoCall
<1>3. QED
  BY <1>1, <1>2, CallChanges

\* Only t's call and the list have changed.
LEMMA OwnedMove ==
  ASSUME Owned, frame \in [Threads -> Frames], NEW t \in Threads,
         \A u \in Threads \ {t} : frame'[u] = frame[u],
         Sorted(frame'[t]), IsInjective(queue'),
         \A u \in Threads \ {t} : (ToSet(queue') \cup ToSet(frame'[t].items)) \cap InHand(u) = {},
         ToSet(frame'[t].items) \cap ToSet(queue') = {}
  PROVE  Owned'
<1>1. InHand(t)' = ToSet(frame'[t].items)
  BY DEF InHand
<1>2. \A u \in Threads \ {t} : InHand(u)' = InHand(u)
  BY DEF InHand
<1>3. \A u \in Threads : Sorted(frame'[u])
  BY DEF Owned
<1>4. \A u \in Threads : InHand(u)' \cap ToSet(queue') = {}
  BY <1>1, <1>2
<1>5. \A u, v \in Threads : u # v => InHand(u)' \cap InHand(v)' = {}
  <2>1. ASSUME NEW u \in Threads, NEW v \in Threads, u # v
        PROVE  InHand(u)' \cap InHand(v)' = {}
    <3>1. CASE u = t
      BY <1>1, <1>2, <2>1, <3>1
    <3>2. CASE v = t
      BY <1>1, <1>2, <2>1, <3>2
    <3>3. CASE u # t /\ v # t
      BY <1>2, <2>1, <3>3 DEF Owned
    <3>4. QED BY <3>1, <3>2, <3>3
  <2>2. QED BY <2>1
<1>6. QED
  BY <1>3, <1>4, <1>5 DEF Owned

\* A producer that holds lock_ links its chain and tells a consumer.
LEMMA PutFacts ==
  ASSUME Typed, Owned, NEW op \in EnqueueOps, NEW items \in Chains,
         ToSet(items) \cap ToSet(queue) = {}, op \in {"prio", "deadline"} => Len(items) = 1,
         NEW sig \in SUBSET Threads, Put(op, items, sig)
  PROVE  /\ queue' \in Seq(Blocks) /\ IsInjective(queue') /\ queue' # <<>>
         /\ ToSet(queue') = ToSet(queue) \cup ToSet(items)
         /\ Len(queue') = Len(queue) + Len(items)
         /\ cur_bytes' = Total(queue')
         /\ sig \subseteq signaled' /\ signaled' \subseteq sig \cup Waiting("dequeue")
         /\ \/ signaled' = sig /\ Waiting("dequeue") \subseteq sig
            \/ \E t \in Waiting("dequeue") \ sig : signaled' = sig \cup {t}
<1>1. queue \in Seq(Blocks) /\ IsInjective(queue) /\ cur_bytes = Total(queue)
  BY DEF Typed, Owned
<1> DEFINE s == Enqueued(op, items)
<1>2. /\ s \in Seq(Blocks) /\ IsInjective(s) /\ s # <<>>
      /\ ToSet(s) = ToSet(queue) \cup ToSet(items)
      /\ Len(s) = Len(queue) + Len(items)
      /\ Total(s) = Total(queue) + Total(items)
  BY <1>1, EnqueuedFacts
<1>3. queue' = s /\ cur_bytes' = cur_bytes + Total(items)
      /\ signaled' \in AfterSignal("dequeue", sig)
  BY DEF Put
<1> HIDE DEF s
<1>4. /\ sig \subseteq signaled' /\ signaled' \subseteq sig \cup Waiting("dequeue")
      /\ \/ signaled' = sig /\ Waiting("dequeue") \subseteq sig
         \/ \E t \in Waiting("dequeue") \ sig : signaled' = sig \cup {t}
  BY <1>3, SignalFacts
<1>5. QED
  BY <1>1, <1>2, <1>3, <1>4

\* A consumer unlinks a block and tells a producer at the low water mark.
LEMMA TakeFacts ==
  ASSUME Typed, Owned, queue # <<>>, NEW op \in DequeueOps, op # "peek",
         NEW sig \in SUBSET Threads, Take(op, sig)
  PROVE  /\ queue' \in Seq(Blocks) /\ IsInjective(queue')
         /\ ToSet(queue') \subseteq ToSet(queue)
         /\ Len(queue') = Len(queue) - 1
         /\ cur_bytes' = Total(queue') /\ cur_bytes' <= cur_bytes
         /\ sig \subseteq signaled' /\ signaled' \subseteq sig \cup Waiting("enqueue")
         /\ cur_bytes' <= low_water_mark /\ Waiting("enqueue") # {}
              => Waiting("enqueue") \cap signaled' # {}
<1>1. /\ queue \in Seq(Blocks) /\ IsInjective(queue) /\ cur_bytes = Total(queue)
      /\ Total(queue) \in Nat
  BY BytesFacts DEF Typed, Owned
<1> DEFINE s == RemoveAt(queue, Chosen(op))
           n == Size[queue[Chosen(op)]]
<1>2. /\ s \in Seq(Blocks) /\ IsInjective(s) /\ Len(s) = Len(queue) - 1
      /\ ToSet(s) \subseteq ToSet(queue)
      /\ Total(s) = Total(queue) - n /\ n \in Nat
  BY <1>1, TakenFacts
<1>3. /\ queue' = s /\ cur_bytes' = cur_bytes - n
      /\ signaled' \in IF cur_bytes' <= low_water_mark
                       THEN AfterSignal("enqueue", sig) ELSE {sig}
  BY DEF Take
<1> HIDE DEF s, n
<1>4. ASSUME signaled' \in AfterSignal("enqueue", sig)
      PROVE  /\ sig \subseteq signaled' /\ signaled' \subseteq sig \cup Waiting("enqueue")
             /\ Waiting("enqueue") # {} => Waiting("enqueue") \cap signaled' # {}
  <2>1. /\ sig \subseteq signaled' /\ signaled' \subseteq sig \cup Waiting("enqueue")
        /\ \/ signaled' = sig /\ Waiting("enqueue") \subseteq sig
           \/ \E t \in Waiting("enqueue") \ sig : signaled' = sig \cup {t}
    BY <1>4, SignalFacts
  <2>2. QED BY <2>1
<1>5. cur_bytes' <= cur_bytes
  BY <1>1, <1>2, <1>3
<1>6. QED
  BY <1>1, <1>2, <1>3, <1>4, <1>5

LEMMA SafeInit == Init => Safe
<1>1. SUFFICES ASSUME Init PROVE Safe
  OBVIOUS
<1>2. NoCall \in Frames /\ NoCall.call = "none" /\ NoCall.items = <<>> /\ Sorted(NoCall)
  BY FrameFacts
<1>3. /\ queue = <<>> /\ cur_bytes = 0 /\ state = ACTIVATED /\ signaled = {}
      /\ frame = [t \in Threads |-> NoCall]
  BY <1>1 DEF Init
<1>4. Typed
  BY <1>2, <1>3, EmptyFacts, TotalEmpty DEF Typed
<1>5. Owned
  BY <1>2, <1>3, EmptyFacts DEF Owned, InHand
<1>6. NobodySleepsDeactivated
  BY <1>3 DEF NobodySleepsDeactivated, ACTIVATED, DEACTIVATED
<1>7. QED
  BY <1>4, <1>5, <1>6 DEF Safe

\* What lies in the hands of others is not linked, nor in the hands of t.
LEMMA Apart ==
  ASSUME Owned, NEW t \in Threads, NEW u \in Threads \ {t}
  PROVE  InHand(u) \cap ToSet(queue) = {} /\ InHand(u) \cap InHand(t) = {}
BY DEF Owned

LEMMA EnqueueSafe ==
  ASSUME Safe, NEW t \in Producers, NEW op \in EnqueueOps, NEW items \in Chains,
         EnqueueNow(t, op, items)
  PROVE  Safe'
<1>1. Typed /\ Owned /\ NobodySleepsDeactivated /\ t \in Threads
  BY MessageQueueAssumption DEF Safe
<1>2. /\ Offers(t, op, items) /\ Put(op, items, signaled)
      /\ state' = state /\ frame' = frame
  BY DEF EnqueueNow
<1>3. /\ ToSet(items) \cap ToSet(queue) = {}
      /\ op \in {"prio", "deadline"} => Len(items) = 1
      /\ \A u \in Threads : ToSet(items) \cap InHand(u) = {}
      /\ state # DEACTIVATED
  BY <1>2 DEF Offers, InUse
<1>4. signaled \in SUBSET Threads
  BY <1>1 DEF Typed, Everybody, Waiting
<1>5. /\ queue' \in Seq(Blocks) /\ IsInjective(queue')
      /\ ToSet(queue') = ToSet(queue) \cup ToSet(items)
      /\ cur_bytes' = Total(queue')
      /\ signaled' \subseteq signaled \cup Waiting("dequeue")
  BY <1>1, <1>2, <1>3, <1>4, PutFacts
<1>6. Everybody' = Everybody
  BY <1>2 DEF Everybody, Waiting
<1>7. Typed'
  BY <1>1, <1>2, <1>5, <1>6 DEF Typed, Everybody
<1>8. Owned'
  <2>1. Sorted(frame[t]) /\ InHand(t) = ToSet(frame[t].items)
    BY <1>1 DEF Owned, InHand
  <2>2. ToSet(frame[t].items) \cap ToSet(queue') = {}
    BY <1>1, <1>3, <1>5, <2>1 DEF Owned
  <2>3. ASSUME NEW u \in Threads \ {t}
        PROVE  (ToSet(queue') \cup ToSet(frame[t].items)) \cap InHand(u) = {}
    BY <1>1, <1>3, <1>5, <2>1, Apart
  <2>4. frame \in [Threads -> Frames]
    BY <1>1 DEF Typed
  <2>5. QED BY <1>1, <1>2, <1>5, <2>1, <2>2, <2>3, <2>4, OwnedMove
<1>9. QED
  BY <1>2, <1>3, <1>7, <1>8 DEF Safe, NobodySleepsDeactivated

LEMMA DequeueSafe ==
  ASSUME Safe, NEW t \in Consumers, NEW op \in DequeueOps, DequeueNow(t, op)
  PROVE  Safe'
<1>1. Typed /\ Owned /\ NobodySleepsDeactivated /\ t \in Threads
  BY MessageQueueAssumption DEF Safe
<1>2. /\ op # "peek" /\ Take(op, signaled) /\ queue # <<>> /\ state # DEACTIVATED
      /\ state' = state /\ frame' = frame
  BY DEF DequeueNow, is_empty_i
<1>3. signaled \in SUBSET Threads
  BY <1>1 DEF Typed, Everybody, Waiting
<1>4. /\ queue' \in Seq(Blocks) /\ IsInjective(queue') /\ ToSet(queue') \subseteq ToSet(queue)
      /\ cur_bytes' = Total(queue')
      /\ signaled' \subseteq signaled \cup Waiting("enqueue")
  BY <1>1, <1>2, <1>3, TakeFacts
<1>5. Everybody' = Everybody
  BY <1>2 DEF Everybody, Waiting
<1>6. Typed'
  BY <1>1, <1>2, <1>4, <1>5 DEF Typed, Everybody
<1>7. Owned'
  BY <1>1, <1>2, <1>4 DEF Owned, InHand
<1>8. QED
  BY <1>2, <1>6, <1>7 DEF Safe, NobodySleepsDeactivated

\* A thread begins to wait.
LEMMA WaitSafe ==
  ASSUME Safe, NEW t \in Threads, NEW f \in Frames, Sorted(f), ~Blocked(t),
         f.call \in {"enqueue", "dequeue"}, state # DEACTIVATED,
         ToSet(f.items) \cap InUse = {},
         frame' = [frame EXCEPT ![t] = f],
         UNCHANGED <<queue, cur_bytes, marks, state, signaled>>
  PROVE  Safe'
<1>1. Typed /\ Owned /\ frame \in [Threads -> Frames]
  BY DEF Safe, Typed
<1>2. /\ frame' \in [Threads -> Frames] /\ frame'[t] = f
      /\ \A u \in Threads \ {t} : frame'[u] = frame[u]
      /\ Everybody' = (Everybody \ {t}) \cup
                        IF f.call \in {"enqueue", "dequeue"} THEN {t} ELSE {}
  BY <1>1, CallChanges
<1>3. Everybody \subseteq Everybody'
  BY <1>2
<1>4. Typed'
  BY <1>1, <1>2, <1>3 DEF Typed
<1>5. Owned'
  <2>1. \A u \in Threads : ToSet(f.items) \cap InHand(u) = {}
    BY DEF InUse
  <2>2. ToSet(f.items) \cap ToSet(queue) = {}
    BY DEF InUse
  <2>3. \A u \in Threads \ {t} : (ToSet(queue) \cup ToSet(f.items)) \cap InHand(u) = {}
    BY <1>1, <2>1, Apart
  <2>4. IsInjective(queue)
    BY <1>1 DEF Owned
  <2>5. QED BY <1>1, <1>2, <2>2, <2>3, <2>4, OwnedMove
<1>6. QED
  BY <1>4, <1>5 DEF Safe, NobodySleepsDeactivated

LEMMA CallSafe ==
  ASSUME Safe,
         \/ \E t \in Producers : Enqueue(t)
         \/ \E t \in Consumers : Dequeue(t)
  PROVE  Safe'
<1>1. Producers \subseteq Threads /\ Consumers \subseteq Threads
  BY MessageQueueAssumption
<1>2. ASSUME NEW t \in Producers, NEW op \in EnqueueOps, NEW items \in Chains,
             NEW timed \in BOOLEAN, EnqueueWait(t, op, items, timed)
      PROVE  Safe'
  <2> DEFINE f == Frame("enqueue", op, items, timed)
  <2>1. f \in Frames /\ f.call = "enqueue" /\ f.op = op /\ f.items = items
    BY FrameFacts
  <2>2. /\ ~Blocked(t) /\ state # DEACTIVATED /\ ToSet(items) \cap InUse = {}
        /\ op \in {"prio", "deadline"} => Len(items) = 1
        /\ frame' = [frame EXCEPT ![t] = f]
        /\ UNCHANGED <<queue, cur_bytes, marks, state, signaled>>
    BY <1>2 DEF EnqueueWait, Offers
  <2> HIDE DEF f
  <2>3. Sorted(f)
    BY <2>1, <2>2 DEF Sorted
  <2>4. QED BY <1>1, <2>1, <2>2, <2>3, WaitSafe
<1>3. ASSUME NEW t \in Consumers, NEW op \in DequeueOps, NEW timed \in BOOLEAN,
             DequeueWait(t, op, timed)
      PROVE  Safe'
  <2> DEFINE f == Frame("dequeue", op, <<>>, timed)
  <2>1. f \in Frames /\ f.call = "dequeue" /\ f.op = op /\ f.items = <<>>
    BY FrameFacts
  <2>2. /\ ~Blocked(t) /\ state # DEACTIVATED
        /\ frame' = [frame EXCEPT ![t] = f]
        /\ UNCHANGED <<queue, cur_bytes, marks, state, signaled>>
    BY <1>3 DEF DequeueWait
  <2> HIDE DEF f
  <2>3. Sorted(f) /\ ToSet(f.items) \cap InUse = {}
    BY <2>1, EmptyFacts DEF Sorted
  <2>4. QED BY <1>1, <2>1, <2>2, <2>3, WaitSafe
<1>4. QED
  BY <1>2, <1>3, EnqueueSafe, DequeueSafe DEF Enqueue, Dequeue

\* A thread returns without having touched the list.
LEMMA ReturnSafe ==
  ASSUME Safe, NEW t \in Threads, Return(t), signaled' = signaled \ {t},
         UNCHANGED <<queue, cur_bytes, marks, state>>
  PROVE  Safe'
<1>1. Typed /\ Owned /\ frame \in [Threads -> Frames]
  BY DEF Safe, Typed
<1>2. /\ frame' \in [Threads -> Frames] /\ frame'[t] = NoCall
      /\ \A u \in Threads \ {t} : frame'[u] = frame[u]
      /\ Everybody' = Everybody \ {t}
  BY <1>1, Returns
<1>3. NoCall.items = <<>> /\ Sorted(NoCall)
  BY FrameFacts
<1> HIDE DEF NoCall
<1>4. Typed'
  BY <1>1, <1>2 DEF Typed
<1>5. Owned'
  <2>1. ToSet(frame'[t].items) = {} /\ Sorted(frame'[t])
    BY <1>2, <1>3, EmptyFacts
  <2>2. IsInjective(queue') /\ queue' = queue
    BY <1>1 DEF Owned
  <2>3. QED BY <1>1, <1>2, <2>1, <2>2, Apart, OwnedMove
<1>6. QED
  BY <1>2, <1>4, <1>5 DEF Safe, NobodySleepsDeactivated

LEMMA WakeEnqueueSafe ==
  ASSUME Safe, NEW t \in Threads, WakeEnqueue(t)
  PROVE  Safe'
<1> DEFINE items == frame[t].items
           op == frame[t].op
<1>1. Typed /\ Owned /\ frame \in [Threads -> Frames] /\ signaled \subseteq Everybody
  BY DEF Safe, Typed
<1>2. /\ frame[t].call = "enqueue" /\ Put(op, items, signaled \ {t}) /\ Return(t)
      /\ state' = state /\ state = ACTIVATED
  BY DEF WakeEnqueue
<1>3. /\ frame' \in [Threads -> Frames] /\ frame'[t] = NoCall
      /\ \A u \in Threads \ {t} : frame'[u] = frame[u]
      /\ Everybody' = Everybody \ {t}
      /\ Waiting("dequeue")' = Waiting("dequeue") \ {t}
  BY <1>1, <1>2, Returns
<1>4. /\ op \in EnqueueOps /\ items \in Chains
      /\ op \in {"prio", "deadline"} => Len(items) = 1
      /\ ToSet(items) = InHand(t) /\ ToSet(items) \cap ToSet(queue) = {}
  BY <1>1, <1>2 DEF Owned, Sorted, InHand
<1>5. signaled \ {t} \in SUBSET Threads /\ t \notin Waiting("dequeue")
  BY <1>1, <1>2 DEF Everybody, Waiting
<1> HIDE DEF items, op, NoCall
<1>6. /\ queue' \in Seq(Blocks) /\ IsInjective(queue')
      /\ ToSet(queue') = ToSet(queue) \cup ToSet(items)
      /\ cur_bytes' = Total(queue')
      /\ signaled' \subseteq (signaled \ {t}) \cup Waiting("dequeue")
  BY <1>1, <1>2, <1>4, <1>5, PutFacts
<1>7. Typed'
  <2>1. signaled' \subseteq Everybody'
    BY <1>1, <1>3, <1>5, <1>6 DEF Everybody
  <2>2. state' \in {ACTIVATED, DEACTIVATED, PULSED}
    BY <1>2
  <2>3. QED BY <1>3, <1>6, <2>1, <2>2 DEF Typed
<1>8. Owned'
  <2>1. ToSet(frame'[t].items) = {} /\ Sorted(frame'[t])
    BY <1>3, FrameFacts, EmptyFacts
  <2>2. \A u \in Threads \ {t} : (ToSet(queue') \cup ToSet(frame'[t].items)) \cap InHand(u) = {}
    BY <1>1, <1>4, <1>6, <2>1, Apart
  <2>3. QED BY <1>1, <1>3, <1>6, <2>1, <2>2, OwnedMove
<1>9. QED
  BY <1>2, <1>7, <1>8 DEF Safe, NobodySleepsDeactivated, ACTIVATED, DEACTIVATED

LEMMA WakeDequeueSafe ==
  ASSUME Safe, NEW t \in Threads, WakeDequeue(t)
  PROVE  Safe'
<1> DEFINE op == frame[t].op
           sig == signaled \ {t}
<1>1. Typed /\ Owned /\ frame \in [Threads -> Frames] /\ signaled \subseteq Everybody
  BY DEF Safe, Typed
<1>2. /\ frame[t].call = "dequeue" /\ TakeOrPeek(op, sig) /\ Return(t) /\ queue # <<>>
      /\ state' = state /\ state = ACTIVATED /\ UNCHANGED marks
  BY DEF WakeDequeue, is_empty_i
<1>3. CASE op = "peek"
  <2>1. signaled' = signaled \ {t} /\ UNCHANGED <<queue, cur_bytes>>
    BY <1>2, <1>3 DEF TakeOrPeek
  <2>2. QED BY <1>2, <2>1, ReturnSafe
<1>4. CASE op # "peek"
  <2>1. Take(op, sig)
    BY <1>2, <1>4 DEF TakeOrPeek
  <2>2. /\ frame' \in [Threads -> Frames] /\ frame'[t] = NoCall
        /\ \A u \in Threads \ {t} : frame'[u] = frame[u]
        /\ Everybody' = Everybody \ {t}
        /\ Waiting("enqueue")' = Waiting("enqueue") \ {t}
    BY <1>1, <1>2, Returns
  <2>3. op \in DequeueOps
    BY <1>1, <1>2 DEF Owned, Sorted
  <2>4. sig \in SUBSET Threads /\ t \notin Waiting("enqueue")
    BY <1>1, <1>2 DEF Everybody, Waiting
  <2> HIDE DEF op, NoCall
  <2>5. /\ queue' \in Seq(Blocks) /\ IsInjective(queue') /\ ToSet(queue') \subseteq ToSet(queue)
        /\ cur_bytes' = Total(queue')
        /\ signaled' \subseteq sig \cup Waiting("enqueue")
    BY <1>1, <1>2, <1>4, <2>1, <2>3, <2>4, TakeFacts
  <2>6. Typed'
    <3>1. signaled' \subseteq Everybody'
      BY <1>1, <2>2, <2>4, <2>5 DEF Everybody
    <3>2. state' \in {ACTIVATED, DEACTIVATED, PULSED}
      BY <1>2
    <3>3. QED BY <2>2, <2>5, <3>1, <3>2 DEF Typed
  <2>7. Owned'
    <3>1. ToSet(frame'[t].items) = {} /\ Sorted(frame'[t])
      BY <2>2, FrameFacts, EmptyFacts
    <3>2. \A u \in Threads \ {t} :
            (ToSet(queue') \cup ToSet(frame'[t].items)) \cap InHand(u) = {}
      BY <1>1, <2>5, <3>1, Apart
    <3>3. QED BY <1>1, <2>2, <2>5, <3>1, <3>2, OwnedMove
  <2>8. QED
    BY <1>2, <2>6, <2>7 DEF Safe, NobodySleepsDeactivated, ACTIVATED, DEACTIVATED
<1>5. QED
  BY <1>3, <1>4

\* deactivate_i reaches everybody who waits.
LEMMA DeactivateFacts ==
  ASSUME Safe, NEW new \in {DEACTIVATED, PULSED}, deactivate_i(new), frame' = frame
  PROVE  /\ Everybody' = Everybody /\ signaled \subseteq signaled' /\ signaled' \subseteq Everybody
         /\ state' \in {DEACTIVATED, PULSED} /\ Everybody \subseteq signaled'
<1>1. Everybody' = Everybody
  BY DEF Everybody, Waiting
<1>2. signaled \subseteq Everybody /\ (state = DEACTIVATED => Everybody \subseteq signaled)
  BY DEF Safe, Typed, NobodySleepsDeactivated
<1>3. QED
  BY <1>1, <1>2 DEF deactivate_i

LEMMA ControlSafe ==
  ASSUME Safe, Deactivate \/ Pulse \/ Activate \/ Flush \/ Close \/ SetWaterMarks
  PROVE  Safe'
<1>1. Typed /\ Owned /\ NobodySleepsDeactivated /\ Total(queue) \in Nat
  BY BytesFacts DEF Safe, Typed
<1>2. CASE Deactivate \/ Pulse
  <2>1. PICK new \in {DEACTIVATED, PULSED} : deactivate_i(new)
    BY <1>2 DEF Deactivate, Pulse
  <2>2. UNCHANGED <<queue, cur_bytes, marks, frame>>
    BY <1>2 DEF Deactivate, Pulse
  <2>3. /\ Everybody' = Everybody /\ signaled' \subseteq Everybody
        /\ state' \in {DEACTIVATED, PULSED} /\ Everybody \subseteq signaled'
    BY <2>1, <2>2, DeactivateFacts
  <2>4. Typed' /\ NobodySleepsDeactivated'
    BY <1>1, <2>2, <2>3 DEF Typed, NobodySleepsDeactivated
  <2>5. Owned'
    BY <1>1, <2>2 DEF Owned, InHand
  <2>6. QED BY <2>4, <2>5 DEF Safe
<1>3. CASE Activate
  <2>1. state' = ACTIVATED /\ UNCHANGED <<queue, cur_bytes, marks, frame, signaled>>
    BY <1>3 DEF Activate
  <2>2. Everybody' = Everybody
    BY <2>1 DEF Everybody, Waiting
  <2>3. Typed' /\ NobodySleepsDeactivated'
    BY <1>1, <2>1, <2>2 DEF Typed, NobodySleepsDeactivated, ACTIVATED, DEACTIVATED
  <2>4. Owned'
    BY <1>1, <2>1 DEF Owned, InHand
  <2>5. QED BY <2>3, <2>4 DEF Safe
<1>4. CASE Flush \/ Close
  <2>1. queue' = <<>> /\ cur_bytes' = cur_bytes - Total(queue) /\ frame' = frame
    BY <1>4 DEF Flush, Close, flush_i
  <2>2. cur_bytes' = Total(queue') /\ queue' \in Seq(Blocks)
    BY <1>1, <2>1, TotalEmpty, EmptyFacts DEF Typed
  <2>3. /\ Everybody' = Everybody /\ signaled' \subseteq Everybody
        /\ state' \in {ACTIVATED, DEACTIVATED, PULSED}
        /\ state' = DEACTIVATED => Everybody \subseteq signaled'
    <3>1. CASE Flush
      <4>1. UNCHANGED <<state, signaled>>
        BY <3>1 DEF Flush
      <4>2. QED BY <1>1, <2>1, <4>1 DEF Typed, NobodySleepsDeactivated, Everybody, Waiting
    <3>2. CASE Close
      <4>1. deactivate_i(DEACTIVATED)
        BY <3>2 DEF Close
      <4>2. QED BY <2>1, <4>1, DeactivateFacts
    <3>3. QED BY <1>4, <3>1, <3>2
  <2>4. Typed' /\ NobodySleepsDeactivated'
    BY <1>1, <2>1, <2>2, <2>3 DEF Typed, NobodySleepsDeactivated
  <2>5. Owned'
    <3>1. ToSet(queue') = {} /\ IsInjective(queue')
      BY <2>1, EmptyFacts
    <3>2. QED BY <1>1, <2>1, <3>1 DEF Owned, InHand
  <2>6. QED BY <2>4, <2>5 DEF Safe
<1>5. CASE SetWaterMarks
  <2>1. UNCHANGED <<queue, cur_bytes, state, frame, signaled>>
    BY <1>5 DEF SetWaterMarks
  <2>2. Typed' /\ Owned' /\ NobodySleepsDeactivated'
    BY <1>1, <2>1 DEF Typed, Owned, NobodySleepsDeactivated, InHand, Everybody, Waiting
  <2>3. QED BY <2>2 DEF Safe
<1>6. QED
  BY <1>2, <1>3, <1>4, <1>5

LEMMA WakeSafe ==
  ASSUME Safe, NEW t \in Threads, Wake(t) \/ TimedOut(t)
  PROVE  Safe'
<1>1. CASE WakeShutdown(t) \/ TimedOut(t)
  BY <1>1, ReturnSafe DEF WakeShutdown, TimedOut
<1>2. CASE WakeAgain(t)
  <2>1. /\ signaled' = signaled \ {t} /\ state = ACTIVATED
        /\ UNCHANGED <<queue, cur_bytes, marks, state, frame>>
    BY <1>2 DEF WakeAgain
  <2>2. Typed /\ Owned /\ Everybody' = Everybody
    BY <2>1 DEF Safe, Everybody, Waiting
  <2>3. Typed'
    BY <2>1, <2>2 DEF Typed
  <2>4. Owned'
    BY <2>1, <2>2 DEF Owned, InHand
  <2>5. NobodySleepsDeactivated'
    BY <2>1 DEF NobodySleepsDeactivated, ACTIVATED, DEACTIVATED
  <2>6. QED BY <2>3, <2>4, <2>5 DEF Safe
<1>3. CASE WakeEnqueue(t)
  BY <1>3, WakeEnqueueSafe
<1>4. CASE WakeDequeue(t)
  BY <1>4, WakeDequeueSafe
<1>5. QED
  BY <1>1, <1>2, <1>3, <1>4 DEF Wake

LEMMA SafeNext ==
  ASSUME Safe, [Next]_vars
  PROVE  Safe'
<1>1. ASSUME NEW t \in Threads, Wake(t) \/ TimedOut(t) PROVE Safe'
  BY <1>1, WakeSafe
<1>2. CASE UNCHANGED vars
  <2>1. UNCHANGED <<queue, cur_bytes, state, frame, signaled>>
    BY <1>2 DEF vars
  <2>2. Typed' /\ Owned' /\ NobodySleepsDeactivated'
    BY <2>1 DEF Safe, Typed, Owned, NobodySleepsDeactivated, InHand, Everybody, Waiting
  <2>3. QED BY <2>2 DEF Safe
<1>3. CASE \/ \E t \in Producers : Enqueue(t)
           \/ \E t \in Consumers : Dequeue(t)
  BY <1>3, CallSafe
<1>4. CASE Deactivate \/ Pulse \/ Activate \/ Flush \/ Close \/ SetWaterMarks
  BY <1>4, ControlSafe
<1>5. QED
  BY <1>1, <1>2, <1>3, <1>4 DEF Next

(***************************************************************************)
(* The inductive invariant holds: cur_bytes_ is the size of what is        *)
(* linked, a block is linked once or held by one waiting producer, signals *)
(* go to waiting threads, and a deactivated queue has woken all of them.   *)
(***************************************************************************)
THEOREM SafeInvariant == Spec => []Safe
<1>1. Safe /\ [Next]_vars => Safe'
  BY SafeNext
<1>2. QED
  BY <1>1, SafeInit, PTL DEF Spec

-----------------------------------------------------------------------------
(* The theorems for every use of the queue *)

Marked == high_water_mark \in HighMarks /\ low_water_mark \in LowMarks

LEMMA MarkedNext ==
  ASSUME Marked, [Next]_vars
  PROVE  Marked'
<1>1. ASSUME UNCHANGED marks PROVE Marked'
  BY <1>1 DEF Marked, marks
<1>2. CASE SetWaterMarks
  BY <1>2 DEF SetWaterMarks, Marked
<1>3. CASE UNCHANGED vars
  BY <1>1, <1>3 DEF vars, marks
<1>4. CASE \/ \E t \in Producers : Enqueue(t)
           \/ \E t \in Consumers : Dequeue(t)
  BY <1>1, <1>4 DEF Enqueue, Dequeue, EnqueueNow, EnqueueWait, DequeueNow, DequeueWait
<1>5. CASE \E t \in Threads : Wake(t) \/ TimedOut(t)
  BY <1>1, <1>5 DEF Wake, TimedOut, WakeShutdown, WakeAgain, WakeEnqueue, WakeDequeue
<1>6. CASE Deactivate \/ Pulse \/ Activate \/ Flush \/ Close
  BY <1>1, <1>6 DEF Deactivate, Pulse, Activate, Flush, Close
<1>7. QED
  BY <1>2, <1>3, <1>4, <1>5, <1>6 DEF Next

(***************************************************************************)
(* The fields keep their types and cur_bytes_, which every operation adds  *)
(* to or subtracts from, stays the size of what is linked, however blocks  *)
(* are enqueued, dequeued, flushed or closed away.                         *)
(***************************************************************************)
THEOREM BytesAlwaysCounted == Spec => []TypeOK
<1>1. Init => Marked
  BY DEF Init, Marked
<1>2. Marked /\ [Next]_vars => Marked'
  BY MarkedNext
<1>3. Safe /\ Marked => TypeOK
  BY DEF Safe, Typed, Marked, TypeOK
<1>4. QED
  BY <1>1, <1>2, <1>3, SafeInvariant, PTL DEF Spec

(***************************************************************************)
(* Once the queue is deactivated every thread that waits has been woken,   *)
(* and nobody begins to wait: deactivate_i broadcasts on both conditions   *)
(* and the enqueue and dequeue methods test state_ first.                  *)
(***************************************************************************)
THEOREM NobodyEverSleepsDeactivated == Spec => []NobodySleepsDeactivated
<1>1. Safe => NobodySleepsDeactivated
  BY DEF Safe
<1>2. QED
  BY <1>1, SafeInvariant, PTL

\* What makes cur_bytes grow.
LEMMA GrowthHasRoom ==
  ASSUME Safe, [Next]_vars, cur_bytes' > cur_bytes
  PROVE  ~is_full_i
<1>1. cur_bytes \in Nat /\ Total(queue) \in Nat /\ ~(cur_bytes > cur_bytes)
      /\ Typed /\ Owned /\ signaled \in SUBSET Threads
  BY BytesFacts DEF Safe, Typed, Everybody, Waiting
<1>2. cur_bytes' # cur_bytes
  BY <1>1
<1>3. ASSUME NEW op \in DequeueOps, NEW sig \in SUBSET Threads, op # "peek", queue # <<>>,
             Take(op, sig)
      PROVE  FALSE
  <2>1. cur_bytes' <= cur_bytes /\ cur_bytes' = Total(queue') /\ queue' \in Seq(Blocks)
    BY <1>1, <1>3, TakeFacts
  <2>2. cur_bytes' \in Nat
    BY <2>1, BytesFacts
  <2>3. QED BY <1>1, <2>1, <2>2
<1>4. CASE UNCHANGED vars
  BY <1>2, <1>4 DEF vars
<1>5. CASE \E t \in Producers : Enqueue(t)
  BY <1>2, <1>5 DEF Enqueue, EnqueueNow, EnqueueWait
<1>6. ASSUME NEW t \in Consumers, Dequeue(t) PROVE FALSE
  BY <1>1, <1>2, <1>3, <1>6 DEF Dequeue, DequeueNow, DequeueWait, is_empty_i
<1>7. ASSUME NEW t \in Threads, Wake(t) \/ TimedOut(t) PROVE ~is_full_i
  <2>1. CASE WakeShutdown(t) \/ TimedOut(t) \/ WakeAgain(t)
    BY <1>2, <2>1 DEF WakeShutdown, TimedOut, WakeAgain
  <2>2. CASE WakeEnqueue(t)
    BY <2>2 DEF WakeEnqueue
  <2>3. CASE WakeDequeue(t)
    <3>1. frame[t].op \in DequeueOps /\ queue # <<>> /\ TakeOrPeek(frame[t].op, signaled \ {t})
      BY <1>1, <2>3 DEF WakeDequeue, Owned, Sorted, is_empty_i
    <3>2. signaled \ {t} \in SUBSET Threads
      BY <1>1
    <3>3. QED BY <1>2, <1>3, <3>1, <3>2 DEF TakeOrPeek
  <2>4. QED BY <1>7, <2>1, <2>2, <2>3 DEF Wake
<1>8. CASE Deactivate \/ Pulse \/ Activate \/ SetWaterMarks
  BY <1>2, <1>8 DEF Deactivate, Pulse, Activate, SetWaterMarks
<1>9. CASE Flush \/ Close
  <2>1. cur_bytes' = cur_bytes - Total(queue)
    BY <1>9 DEF Flush, Close, flush_i
  <2>2. QED BY <1>1, <2>1
<1>10. QED
  BY <1>4, <1>5, <1>6, <1>7, <1>8, <1>9 DEF Next

(***************************************************************************)
(* Nothing is added to a queue at its high water mark: wait_not_full_cond  *)
(* tests the condition again after each wakeup, and nothing else makes     *)
(* cur_bytes_ grow.                                                        *)
(***************************************************************************)
THEOREM QueueNeverOverfilled == Spec => NeverOverfilled
<1>1. Safe /\ [Next]_vars => [cur_bytes' > cur_bytes => ~is_full_i]_vars
  BY GrowthHasRoom
<1>2. QED
  BY <1>1, SafeInvariant, PTL DEF Spec, NeverOverfilled

-----------------------------------------------------------------------------
(* No signal is missing *)

Unpulsed == state \in {ACTIVATED, DEACTIVATED}

LEMMA UnpulsedNext ==
  ASSUME ~Pulses, Unpulsed, [Next]_vars
  PROVE  Unpulsed'
<1>1. ASSUME UNCHANGED state PROVE Unpulsed'
  BY <1>1 DEF Unpulsed
<1>2. CASE SetWaterMarks \/ Flush
  BY <1>1, <1>2 DEF SetWaterMarks, Flush
<1>3. CASE UNCHANGED vars
  BY <1>1, <1>3 DEF vars
<1>4. CASE \/ \E t \in Producers : Enqueue(t)
           \/ \E t \in Consumers : Dequeue(t)
  BY <1>1, <1>4 DEF Enqueue, Dequeue, EnqueueNow, EnqueueWait, DequeueNow, DequeueWait
<1>5. CASE \E t \in Threads : Wake(t) \/ TimedOut(t)
  BY <1>1, <1>5 DEF Wake, TimedOut, WakeShutdown, WakeAgain, WakeEnqueue, WakeDequeue
<1>6. CASE Deactivate \/ Pulse \/ Activate \/ Close
  BY <1>6 DEF Deactivate, Pulse, Activate, Close, deactivate_i, Unpulsed
<1>7. QED
  BY <1>2, <1>3, <1>4, <1>5, <1>6 DEF Next

\* How many consumers have been told of a message.
LEMMA ToldFacts ==
  ASSUME Typed
  PROVE  /\ IsFiniteSet(Waiting("dequeue") \cap signaled)
         /\ Cardinality(Waiting("dequeue") \cap signaled) \in Nat
         /\ Len(queue) \in Nat
<1>1. Waiting("dequeue") \cap signaled \in SUBSET Threads /\ IsFiniteSet(Threads)
  BY MessageQueueAssumption DEF Waiting
<1>2. IsFiniteSet(Waiting("dequeue") \cap signaled)
  BY <1>1, FS_Subset
<1>3. QED
  BY <1>2, FS_CardinalityType, ToSetFacts DEF Typed

\* One more message and one more consumer that is told of it.
LEMMA PutTells ==
  ASSUME MaxChain = 1, Typed, Owned, ConsumersTold,
         NEW op \in EnqueueOps, NEW items \in Chains,
         ToSet(items) \cap ToSet(queue) = {}, op \in {"prio", "deadline"} => Len(items) = 1,
         NEW sig \in SUBSET Threads, Put(op, items, sig),
         sig \cap Waiting("dequeue") = signaled \cap Waiting("dequeue"),
         Waiting("dequeue")' = Waiting("dequeue")
  PROVE  ConsumersTold'
<1> DEFINE W == Waiting("dequeue")
<1>1. /\ Len(queue') = Len(queue) + Len(items)
      /\ sig \subseteq signaled'
      /\ \/ signaled' = sig /\ W \subseteq sig
         \/ \E t \in W \ sig : signaled' = sig \cup {t}
  BY PutFacts
<1>2. Len(items) = 1
  BY ChainFacts
<1>3. IsFiniteSet(W \cap signaled) /\ Cardinality(W \cap signaled) \in Nat /\ Len(queue) \in Nat
  BY ToldFacts
<1> HIDE DEF W
<1>4. W' = W /\ W \cap sig = W \cap signaled
  BY DEF W
<1>5. W \subseteq signaled \/ Len(queue) <= Cardinality(W \cap signaled)
  BY DEF ConsumersTold, W
<1>6. CASE W \subseteq sig
  BY <1>1, <1>4, <1>6 DEF ConsumersTold, W
<1>7. CASE ~(W \subseteq sig)
  <2>1. PICK t \in W \ sig : signaled' = sig \cup {t}
    BY <1>1, <1>7
  <2>2. W \cap signaled' = (W \cap signaled) \cup {t} /\ t \notin W \cap signaled
    BY <1>4, <2>1
  <2>a. Cardinality((W \cap signaled) \cup {t}) = Cardinality(W \cap signaled) + 1
    <3> DEFINE C == W \cap signaled
    <3>1. IsFiniteSet(C) /\ t \notin C
      BY <1>3, <2>2
    <3> HIDE DEF C
    <3>2. Cardinality(C \cup {t}) = Cardinality(C) + 1
      BY <3>1, FS_AddElement
    <3>3. QED BY <3>2 DEF C
  <2>3. Cardinality(W \cap signaled') = Cardinality(W \cap signaled) + 1
    BY <2>2, <2>a
  <2>4. Len(queue) <= Cardinality(W \cap signaled)
    BY <1>4, <1>5, <1>7
  <2>5. Len(queue') <= Cardinality(W \cap signaled')
    BY <1>1, <1>2, <1>3, <2>3, <2>4
  <2>6. QED BY <1>4, <2>5 DEF ConsumersTold, W
<1>8. QED
  BY <1>6, <1>7

\* One message less, and at most one consumer that was told of it.
LEMMA TakeTells ==
  ASSUME Typed, Owned, ConsumersTold, NEW op \in DequeueOps, op # "peek", queue # <<>>,
         NEW t, NEW sig \in SUBSET Threads, Take(op, sig),
         Waiting("dequeue")' = Waiting("dequeue") \ {t},
         sig = signaled \ {t},
         Waiting("enqueue") \cap Waiting("dequeue") = {}
  PROVE  ConsumersTold'
<1> DEFINE W == Waiting("dequeue")
<1>1. /\ Len(queue') = Len(queue) - 1
      /\ sig \subseteq signaled' /\ signaled' \subseteq sig \cup Waiting("enqueue")
  BY TakeFacts
<1>2. IsFiniteSet(W \cap signaled) /\ Cardinality(W \cap signaled) \in Nat /\ Len(queue) \in Nat
  BY ToldFacts
<1>3. W' \cap signaled' = (W \cap signaled) \ {t}
  BY <1>1
<1> HIDE DEF W
<1>4. W' = W \ {t}
  BY DEF W
<1>5. /\ Cardinality((W \cap signaled) \ {t}) \in Nat
      /\ Cardinality((W \cap signaled) \ {t}) >= Cardinality(W \cap signaled) - 1
  <2>1. Cardinality((W \cap signaled) \ {t}) =
          IF t \in W \cap signaled THEN Cardinality(W \cap signaled) - 1
                                   ELSE Cardinality(W \cap signaled)
    BY <1>2, FS_RemoveElement
  <2>2. IsFiniteSet((W \cap signaled) \ {t})
    BY <1>2, FS_RemoveElement
  <2>3. QED BY <1>2, <2>1, <2>2, FS_CardinalityType
<1>6. CASE W \subseteq signaled
  BY <1>1, <1>4, <1>6 DEF ConsumersTold, W
<1>7. CASE Len(queue) <= Cardinality(W \cap signaled)
  <2>1. Len(queue') <= Cardinality((W \cap signaled) \ {t})
    <3> DEFINE c == Cardinality((W \cap signaled) \ {t})
               d == Cardinality(W \cap signaled)
    <3>1. c \in Nat /\ d \in Nat /\ c >= d - 1 /\ Len(queue) <= d
      BY <1>2, <1>5, <1>7
    <3> HIDE DEF c, d
    <3>2. Len(queue') <= c
      BY <1>1, <1>2, <3>1
    <3>3. QED BY <3>2 DEF c
  <2>2. Cardinality(W' \cap signaled') = Cardinality((W \cap signaled) \ {t})
    BY <1>3
  <2>3. Len(queue') <= Cardinality(W' \cap signaled')
    BY <2>1, <2>2
  <2>4. QED BY <2>3 DEF ConsumersTold, W
<1>8. QED
  BY <1>6, <1>7 DEF ConsumersTold, W

\* The consumers that have been told are finitely many.
LEMMA ToldFinite ==
  IsFiniteSet(Waiting("dequeue")' \cap signaled')
<1>1. Waiting("dequeue")' \cap signaled' \in SUBSET Threads /\ IsFiniteSet(Threads)
  BY MessageQueueAssumption DEF Waiting
<1>2. QED
  BY <1>1, FS_Subset

\* Steps that take no message and after which as many consumers are told.
LEMMA SameTold ==
  ASSUME Typed, Typed', ConsumersTold, queue' = queue \/ queue' = <<>>,
         Waiting("dequeue")' \subseteq Waiting("dequeue"),
         Waiting("dequeue") \cap signaled \subseteq Waiting("dequeue")' \cap signaled'
  PROVE  ConsumersTold'
<1> DEFINE W == Waiting("dequeue")
<1>1. /\ IsFiniteSet(W \cap signaled) /\ Cardinality(W \cap signaled) \in Nat
      /\ Len(queue) \in Nat
  BY ToldFacts
<1>2. IsFiniteSet(W' \cap signaled') /\ Cardinality(W' \cap signaled') \in Nat
  <2>1. IsFiniteSet(W' \cap signaled')
    BY ToldFinite
  <2>2. QED BY <2>1, FS_CardinalityType
<1>3. Cardinality(W \cap signaled) <= Cardinality(W' \cap signaled')
  BY <1>2, FS_Subset
<1>4. Len(queue') <= Len(queue) /\ Len(queue') \in Nat
  BY <1>1, EmptyFacts
<1>5. CASE W \subseteq signaled
  BY <1>5 DEF ConsumersTold
<1>6. CASE Len(queue) <= Cardinality(W \cap signaled)
  <2>1. Len(queue') <= Cardinality(W' \cap signaled')
    BY <1>1, <1>2, <1>3, <1>4, <1>6
  <2>2. QED BY <2>1 DEF ConsumersTold
<1>7. QED
  BY <1>5, <1>6 DEF ConsumersTold

\* Somebody who waits on one condition does not wait on the other.
LEMMA WaitersApart ==
  /\ Waiting("enqueue") \cap Waiting("dequeue") = {}
  /\ \A t \in Threads : ~Blocked(t) => t \notin Everybody
  /\ \A t \in Threads : frame[t].call = "enqueue" => t \notin Waiting("dequeue")
  /\ \A t \in Threads : frame[t].call = "dequeue" => t \notin Waiting("enqueue")
  BY DEF Waiting, Blocked, Everybody

\* Consumers that have all been told.
LEMMA AllTold ==
  ASSUME Waiting("dequeue")' \subseteq signaled'
  PROVE  ConsumersTold'
  BY DEF ConsumersTold

LEMMA NothingLeft ==
  ASSUME queue' = <<>>, IsFiniteSet(Waiting("dequeue")' \cap signaled')
  PROVE  ConsumersTold'
<1> DEFINE C == Waiting("dequeue")' \cap signaled'
<1>1. Cardinality(C) \in Nat
  BY FS_CardinalityType
<1> HIDE DEF C
<1>2. Len(queue') = 0
  BY EmptyFacts
<1>3. Len(queue') <= Cardinality(C)
  BY <1>1, <1>2
<1>4. QED
  BY <1>3 DEF ConsumersTold, C

LEMMA CallTells ==
  ASSUME Safe, Safe', ConsumersTold, MaxChain = 1,
         \/ \E t \in Producers : Enqueue(t)
         \/ \E t \in Consumers : Dequeue(t)
  PROVE  ConsumersTold'
<1>1. /\ Producers \subseteq Threads /\ Consumers \subseteq Threads
      /\ Typed /\ Owned /\ Typed' /\ signaled \in SUBSET Threads
      /\ frame \in [Threads -> Frames] /\ signaled \subseteq Everybody
  BY MessageQueueAssumption DEF Safe, Typed, Everybody, Waiting
<1>2. ASSUME NEW t \in Producers, NEW op \in EnqueueOps, NEW items \in Chains,
             EnqueueNow(t, op, items)
      PROVE  ConsumersTold'
  <2>1. /\ Put(op, items, signaled) /\ frame' = frame
        /\ ToSet(items) \cap ToSet(queue) = {}
        /\ op \in {"prio", "deadline"} => Len(items) = 1
    BY <1>2 DEF EnqueueNow, Offers, InUse
  <2>2. Waiting("dequeue")' = Waiting("dequeue")
    BY <2>1 DEF Waiting
  <2>3. QED BY <1>1, <2>1, <2>2, PutTells
<1>3. ASSUME NEW t \in Producers, NEW op \in EnqueueOps, NEW items \in Chains,
             NEW timed \in BOOLEAN, EnqueueWait(t, op, items, timed)
      PROVE  ConsumersTold'
  <2> DEFINE f == Frame("enqueue", op, items, timed)
  <2>1. f \in Frames /\ f.call = "enqueue"
    BY FrameFacts
  <2>2. ~Blocked(t) /\ frame' = [frame EXCEPT ![t] = f] /\ UNCHANGED <<queue, signaled>>
    BY <1>3 DEF EnqueueWait, Offers
  <2> HIDE DEF f
  <2>3. Waiting("dequeue")' = Waiting("dequeue") \ {t}
    BY <1>1, <2>1, <2>2, CallChanges
  <2>4. t \notin Waiting("dequeue")
    BY <1>1, <2>2, WaitersApart DEF Everybody
  <2>5. QED BY <1>1, <2>2, <2>3, <2>4, SameTold
<1>4. ASSUME NEW t \in Consumers, NEW op \in DequeueOps, DequeueNow(t, op)
      PROVE  ConsumersTold'
  <2>1. /\ op # "peek" /\ Take(op, signaled) /\ queue # <<>> /\ ~Blocked(t) /\ frame' = frame
    BY <1>4 DEF DequeueNow, is_empty_i
  <2>2. t \notin Everybody
    BY <1>1, <2>1, WaitersApart
  <2>3. Waiting("dequeue")' = Waiting("dequeue") \ {t} /\ signaled = signaled \ {t}
    BY <1>1, <2>1, <2>2 DEF Waiting, Everybody
  <2>4. QED BY <1>1, <2>1, <2>3, WaitersApart, TakeTells
<1>5. ASSUME NEW t \in Consumers, NEW op \in DequeueOps, NEW timed \in BOOLEAN,
             DequeueWait(t, op, timed)
      PROVE  ConsumersTold'
  <2>1. queue' = <<>>
    BY <1>5 DEF DequeueWait, is_empty_i
  <2>2. QED BY <1>1, <2>1, NothingLeft, ToldFinite
<1>6. QED
  BY <1>2, <1>3, <1>4, <1>5 DEF Enqueue, Dequeue

LEMMA WakeTells ==
  ASSUME Safe, Safe', Unpulsed, ConsumersTold, MaxChain = 1, "peek" \notin DequeueOps,
         ~TimeoutTakesSignal, NEW t \in Threads, Wake(t) \/ TimedOut(t)
  PROVE  ConsumersTold'
<1>1. /\ Typed /\ Owned /\ Typed' /\ signaled \in SUBSET Threads /\ signaled \ {t} \in SUBSET Threads
      /\ frame \in [Threads -> Frames]
  BY DEF Safe, Typed, Everybody, Waiting
<1>2. CASE WakeShutdown(t)
  <2>1. state = DEACTIVATED /\ Return(t) /\ signaled' = signaled \ {t}
    BY <1>2 DEF WakeShutdown, Unpulsed
  <2>2. Waiting("dequeue") \subseteq signaled
    BY <2>1 DEF Safe, NobodySleepsDeactivated, Everybody
  <2>3. Waiting("dequeue")' = Waiting("dequeue") \ {t}
    BY <1>1, <2>1, Returns
  <2>4. Waiting("dequeue")' \subseteq signaled'
    BY <2>1, <2>2, <2>3
  <2>5. QED BY <2>4, AllTold
<1>3. CASE TimedOut(t)
  <2>1. t \notin signaled /\ Return(t) /\ signaled' = signaled \ {t} /\ queue' = queue
    BY <1>3 DEF TimedOut
  <2>2. Waiting("dequeue")' = Waiting("dequeue") \ {t}
    BY <1>1, <2>1, Returns
  <2>3. /\ Waiting("dequeue")' \subseteq Waiting("dequeue")
        /\ Waiting("dequeue") \cap signaled \subseteq Waiting("dequeue")' \cap signaled'
    BY <2>1, <2>2
  <2>4. QED BY <1>1, <2>1, <2>3, SameTold
<1>4. CASE WakeAgain(t)
  <2>1. signaled' = signaled \ {t} /\ UNCHANGED <<queue, frame>>
    BY <1>4 DEF WakeAgain
  <2>2. CASE frame[t].call = "enqueue"
    <3>1. /\ Waiting("dequeue")' \subseteq Waiting("dequeue")
          /\ Waiting("dequeue") \cap signaled \subseteq Waiting("dequeue")' \cap signaled'
      BY <2>1, <2>2 DEF Waiting
    <3>2. QED BY <1>1, <2>1, <3>1, SameTold
  <2>3. CASE queue = <<>>
    BY <1>1, <2>1, <2>3, NothingLeft, ToldFinite
  <2>4. QED BY <1>4, <2>2, <2>3 DEF WakeAgain, is_empty_i
<1>5. CASE WakeEnqueue(t)
  <2> DEFINE items == frame[t].items
             op == frame[t].op
             sig == signaled \ {t}
  <2>1. frame[t].call = "enqueue" /\ Put(op, items, sig) /\ Return(t)
    BY <1>5 DEF WakeEnqueue
  <2>2. /\ op \in EnqueueOps /\ items \in Chains
        /\ op \in {"prio", "deadline"} => Len(items) = 1
        /\ ToSet(items) \cap ToSet(queue) = {}
    BY <1>1, <2>1 DEF Owned, Sorted, InHand
  <2>3. t \notin Waiting("dequeue") /\ Waiting("dequeue")' = Waiting("dequeue") \ {t}
    BY <1>1, <2>1, Returns, WaitersApart
  <2>4. /\ Waiting("dequeue")' = Waiting("dequeue") /\ sig \in SUBSET Threads
        /\ sig \cap Waiting("dequeue") = signaled \cap Waiting("dequeue")
    BY <1>1, <2>3
  <2> HIDE DEF items, op, sig
  <2>5. QED BY <1>1, <2>1, <2>2, <2>4, PutTells
<1>6. CASE WakeDequeue(t)
  <2> DEFINE op == frame[t].op
             sig == signaled \ {t}
  <2>1. /\ frame[t].call = "dequeue" /\ TakeOrPeek(op, sig) /\ Return(t) /\ queue # <<>>
    BY <1>6 DEF WakeDequeue, is_empty_i
  <2>2. op \in DequeueOps
    BY <1>1, <2>1 DEF Owned, Sorted
  <2>3. op # "peek"
    BY <2>2
  <2>4. Take(op, sig)
    BY <2>1, <2>3 DEF TakeOrPeek
  <2>5. Waiting("dequeue")' = Waiting("dequeue") \ {t}
    BY <1>1, <2>1, Returns
  <2>6. sig \in SUBSET Threads /\ sig = signaled \ {t}
    BY <1>1
  <2> HIDE DEF op, sig
  <2>7. QED BY <1>1, <2>1, <2>2, <2>3, <2>4, <2>5, <2>6, WaitersApart, TakeTells
<1>7. QED
  BY <1>2, <1>3, <1>4, <1>5, <1>6 DEF Wake

LEMMA ControlTells ==
  ASSUME Safe, Safe', ConsumersTold, ~Pulses,
         \/ Deactivate \/ Pulse \/ Activate \/ Flush \/ Close \/ SetWaterMarks
         \/ UNCHANGED vars
  PROVE  ConsumersTold'
<1>1. Typed /\ Typed'
  BY DEF Safe
<1>2. CASE Deactivate \/ Close
  <2>1. deactivate_i(DEACTIVATED) /\ frame' = frame
    BY <1>2 DEF Deactivate, Close
  <2>2. Everybody' = Everybody /\ Everybody \subseteq signaled'
    BY <2>1, DeactivateFacts
  <2>3. Waiting("dequeue")' \subseteq signaled'
    BY <2>2 DEF Everybody
  <2>4. QED BY <2>3, AllTold
<1>3. CASE Activate \/ SetWaterMarks \/ Flush \/ UNCHANGED vars
  <2>1. (queue' = queue \/ queue' = <<>>) /\ frame' = frame /\ signaled' = signaled
    BY <1>3 DEF Activate, SetWaterMarks, Flush, flush_i, vars
  <2>2. Waiting("dequeue")' = Waiting("dequeue")
    BY <2>1 DEF Waiting
  <2>3. QED BY <1>1, <2>1, <2>2, SameTold
<1>4. QED
  BY <1>2, <1>3 DEF Pulse

(***************************************************************************)
(* No consumer sleeps on while there are more messages than consumers that *)
(* have been told of one: every enqueue signals not_empty_cond_, also on a *)
(* queue that was not empty.  It holds for messages that are enqueued one  *)
(* at a time (a chain of several gets one signal only), if no signal goes  *)
(* to a thread that does not take a message: nobody peeks or lets its wait *)
(* time out with the signal used up, and the queue is not pulsed.          *)
(***************************************************************************)
THEOREM ConsumersAlwaysTold ==
  ASSUME MaxChain = 1, "peek" \notin DequeueOps, ~Pulses, ~TimeoutTakesSignal
  PROVE  Spec => []ConsumersTold
<1> DEFINE Inv == Safe /\ Unpulsed /\ ConsumersTold
<1>1. Init => Inv
  <2>1. ASSUME Init PROVE Waiting("dequeue") = {}
    BY <2>1 DEF Init, Waiting, NoCall, Frame
  <2>2. Init => ConsumersTold
    BY <2>1 DEF ConsumersTold
  <2>3. QED BY <2>2, SafeInit DEF Init, Unpulsed
<1>2. Inv /\ [Next]_vars => Inv'
  <2> SUFFICES ASSUME Inv, [Next]_vars PROVE Inv'
    OBVIOUS
  <2>1. Safe' /\ Unpulsed'
    BY SafeNext, UnpulsedNext
  <2>2. CASE \/ \E t \in Producers : Enqueue(t)
             \/ \E t \in Consumers : Dequeue(t)
    BY <2>1, <2>2, CallTells
  <2>3. CASE \E t \in Threads : Wake(t) \/ TimedOut(t)
    BY <2>1, <2>3, WakeTells
  <2>4. CASE \/ Deactivate \/ Pulse \/ Activate \/ Flush \/ Close \/ SetWaterMarks
             \/ UNCHANGED vars
    BY <2>1, <2>4, ControlTells
  <2>5. QED BY <2>2, <2>3, <2>4 DEF Next
<1>3. Inv => ConsumersTold
  OBVIOUS
<1>4. QED
  BY <1>1, <1>2, <1>3, PTL DEF Spec

-----------------------------------------------------------------------------
(* The water marks *)

\* A queue at a high water mark that is not zero holds something.
LEMMA FullFacts ==
  ASSUME 0 \notin HighMarks, Typed, Marked, is_full_i
  PROVE  queue # <<>>
<1>1. high_water_mark \in Nat /\ high_water_mark # 0
  BY MessageQueueAssumption DEF Marked
<1>2. cur_bytes = Total(queue) /\ cur_bytes >= high_water_mark
  BY DEF Typed, is_full_i
<1>3. QED
  BY <1>1, <1>2, TotalEmpty

LEMMA SomethingLeft ==
  ASSUME queue' # <<>>
  PROVE  ProducersTold'
  BY DEF ProducersTold, is_empty_i

LEMMA AllToldOfRoom ==
  ASSUME Waiting("enqueue")' \subseteq signaled'
  PROVE  ProducersTold'
  BY DEF ProducersTold

\* The list does not change, and no signal to a producer is lost.
LEMMA SameToldOfRoom ==
  ASSUME ProducersTold, queue' = queue,
         Waiting("enqueue")' \subseteq Waiting("enqueue"),
         Waiting("enqueue") \cap signaled \subseteq Waiting("enqueue")' \cap signaled'
  PROVE  ProducersTold'
  BY DEF ProducersTold, is_empty_i

\* Who takes the last block brings cur_bytes to 0, which is not above the mark.
LEMMA TakeTellsOfRoom ==
  ASSUME Typed, Owned, Marked, NEW op \in DequeueOps, op # "peek", queue # <<>>,
         NEW sig \in SUBSET Threads, Take(op, sig),
         Waiting("enqueue")' = Waiting("enqueue")
  PROVE  ProducersTold'
<1>1. /\ cur_bytes' = Total(queue')
      /\ cur_bytes' <= low_water_mark /\ Waiting("enqueue") # {}
           => Waiting("enqueue") \cap signaled' # {}
  BY TakeFacts
<1>2. low_water_mark \in Nat
  BY MessageQueueAssumption DEF Marked
<1>3. CASE queue' = <<>>
  <2>1. cur_bytes' <= low_water_mark
    BY <1>1, <1>2, <1>3, TotalEmpty
  <2>2. QED BY <1>1, <2>1 DEF ProducersTold
<1>4. QED
  BY <1>3, SomethingLeft

LEMMA CallTellsOfRoom ==
  ASSUME Safe, Marked, ProducersTold, 0 \notin HighMarks,
         \/ \E t \in Producers : Enqueue(t)
         \/ \E t \in Consumers : Dequeue(t)
  PROVE  ProducersTold'
<1>1. /\ Producers \subseteq Threads /\ Consumers \subseteq Threads
      /\ Typed /\ Owned /\ signaled \in SUBSET Threads
      /\ frame \in [Threads -> Frames]
  BY MessageQueueAssumption DEF Safe, Typed, Everybody, Waiting
<1>2. ASSUME NEW t \in Producers, NEW op \in EnqueueOps, NEW items \in Chains,
             EnqueueNow(t, op, items)
      PROVE  ProducersTold'
  <2>1. /\ Put(op, items, signaled) /\ ToSet(items) \cap ToSet(queue) = {}
        /\ op \in {"prio", "deadline"} => Len(items) = 1
    BY <1>2 DEF EnqueueNow, Offers, InUse
  <2>2. queue' # <<>>
    BY <1>1, <2>1, PutFacts
  <2>3. QED BY <2>2, SomethingLeft
<1>3. ASSUME NEW t \in Producers, NEW op \in EnqueueOps, NEW items \in Chains,
             NEW timed \in BOOLEAN, EnqueueWait(t, op, items, timed)
      PROVE  ProducersTold'
  <2>1. is_full_i /\ queue' = queue
    BY <1>3 DEF EnqueueWait
  <2>2. QED BY <1>1, <2>1, FullFacts, SomethingLeft
<1>4. ASSUME NEW t \in Consumers, NEW op \in DequeueOps, DequeueNow(t, op)
      PROVE  ProducersTold'
  <2>1. op # "peek" /\ Take(op, signaled) /\ queue # <<>> /\ frame' = frame
    BY <1>4 DEF DequeueNow, is_empty_i
  <2>2. Waiting("enqueue")' = Waiting("enqueue")
    BY <2>1 DEF Waiting
  <2>3. QED BY <1>1, <2>1, <2>2, TakeTellsOfRoom
<1>5. ASSUME NEW t \in Consumers, NEW op \in DequeueOps, NEW timed \in BOOLEAN,
             DequeueWait(t, op, timed)
      PROVE  ProducersTold'
  <2> DEFINE f == Frame("dequeue", op, <<>>, timed)
  <2>1. f \in Frames /\ f.call = "dequeue"
    BY FrameFacts
  <2>2. ~Blocked(t) /\ frame' = [frame EXCEPT ![t] = f] /\ UNCHANGED <<queue, signaled>>
    BY <1>5 DEF DequeueWait
  <2> HIDE DEF f
  <2>3. Waiting("enqueue")' = Waiting("enqueue") \ {t}
    BY <1>1, <2>1, <2>2, CallChanges
  <2>4. t \notin Waiting("enqueue")
    BY <1>1, <2>2, WaitersApart DEF Everybody
  <2>5. QED BY <2>2, <2>3, <2>4, SameToldOfRoom
<1>6. QED
  BY <1>2, <1>3, <1>4, <1>5 DEF Enqueue, Dequeue

LEMMA WakeTellsOfRoom ==
  ASSUME Safe, Marked, Unpulsed, ProducersTold, 0 \notin HighMarks,
         ~TimeoutTakesSignal, NEW t \in Threads, Wake(t) \/ TimedOut(t)
  PROVE  ProducersTold'
<1>1. /\ Typed /\ Owned /\ signaled \ {t} \in SUBSET Threads /\ frame \in [Threads -> Frames]
  BY DEF Safe, Typed, Everybody, Waiting
<1>2. CASE WakeShutdown(t)
  <2>1. state = DEACTIVATED /\ Return(t) /\ signaled' = signaled \ {t}
    BY <1>2 DEF WakeShutdown, Unpulsed
  <2>2. Waiting("enqueue") \subseteq signaled
    BY <2>1 DEF Safe, NobodySleepsDeactivated, Everybody
  <2>3. Waiting("enqueue")' = Waiting("enqueue") \ {t}
    BY <1>1, <2>1, Returns
  <2>4. Waiting("enqueue")' \subseteq signaled'
    BY <2>1, <2>2, <2>3
  <2>5. QED BY <2>4, AllToldOfRoom
<1>3. CASE TimedOut(t)
  <2>1. t \notin signaled /\ Return(t) /\ signaled' = signaled \ {t} /\ queue' = queue
    BY <1>3 DEF TimedOut
  <2>2. Waiting("enqueue")' = Waiting("enqueue") \ {t}
    BY <1>1, <2>1, Returns
  <2>3. /\ Waiting("enqueue")' \subseteq Waiting("enqueue")
        /\ Waiting("enqueue") \cap signaled \subseteq Waiting("enqueue")' \cap signaled'
    BY <2>1, <2>2
  <2>4. QED BY <2>1, <2>3, SameToldOfRoom
<1>4. CASE WakeAgain(t)
  <2>1. signaled' = signaled \ {t} /\ UNCHANGED <<queue, frame>>
    BY <1>4 DEF WakeAgain
  <2>2. CASE frame[t].call = "dequeue"
    <3>1. /\ Waiting("enqueue")' \subseteq Waiting("enqueue")
          /\ Waiting("enqueue") \cap signaled \subseteq Waiting("enqueue")' \cap signaled'
      BY <2>1, <2>2 DEF Waiting
    <3>2. QED BY <2>1, <3>1, SameToldOfRoom
  <2>3. CASE is_full_i
    BY <1>1, <2>1, <2>3, FullFacts, SomethingLeft
  <2>4. QED BY <1>4, <2>2, <2>3 DEF WakeAgain
<1>5. CASE WakeEnqueue(t)
  <2> DEFINE items == frame[t].items
             op == frame[t].op
             sig == signaled \ {t}
  <2>1. frame[t].call = "enqueue" /\ Put(op, items, sig)
    BY <1>5 DEF WakeEnqueue
  <2>2. /\ op \in EnqueueOps /\ items \in Chains
        /\ op \in {"prio", "deadline"} => Len(items) = 1
        /\ ToSet(items) \cap ToSet(queue) = {} /\ sig \in SUBSET Threads
    BY <1>1, <2>1 DEF Owned, Sorted, InHand
  <2> HIDE DEF items, op, sig
  <2>3. queue' # <<>>
    BY <1>1, <2>1, <2>2, PutFacts
  <2>4. QED BY <2>3, SomethingLeft
<1>6. CASE WakeDequeue(t)
  <2> DEFINE op == frame[t].op
             sig == signaled \ {t}
  <2>1. frame[t].call = "dequeue" /\ TakeOrPeek(op, sig) /\ Return(t) /\ queue # <<>>
    BY <1>6 DEF WakeDequeue, is_empty_i
  <2>2. CASE op = "peek"
    <3>1. queue' = queue
      BY <2>1, <2>2 DEF TakeOrPeek
    <3>2. QED BY <2>1, <3>1, SomethingLeft
  <2>3. CASE op # "peek"
    <3>1. op \in DequeueOps /\ Take(op, sig) /\ sig \in SUBSET Threads
      BY <1>1, <2>1, <2>3 DEF Owned, Sorted, TakeOrPeek
    <3>2. Waiting("enqueue")' = Waiting("enqueue") \ {t} /\ t \notin Waiting("enqueue")
      BY <1>1, <2>1, Returns, WaitersApart
    <3>3. Waiting("enqueue")' = Waiting("enqueue")
      BY <3>2
    <3> HIDE DEF op, sig
    <3>4. QED BY <1>1, <2>1, <2>3, <3>1, <3>3, TakeTellsOfRoom
  <2>4. QED BY <2>2, <2>3
<1>7. QED
  BY <1>2, <1>3, <1>4, <1>5, <1>6 DEF Wake

LEMMA ControlTellsOfRoom ==
  ASSUME Safe, ProducersTold, ~Pulses, ~Flushes,
         \/ Deactivate \/ Pulse \/ Activate \/ Flush \/ Close \/ SetWaterMarks
         \/ UNCHANGED vars
  PROVE  ProducersTold'
<1>1. CASE Deactivate \/ Close
  <2>1. deactivate_i(DEACTIVATED) /\ frame' = frame
    BY <1>1 DEF Deactivate, Close
  <2>2. Everybody' = Everybody /\ Everybody \subseteq signaled'
    BY <2>1, DeactivateFacts
  <2>3. Waiting("enqueue")' \subseteq signaled'
    BY <2>2 DEF Everybody
  <2>4. QED BY <2>3, AllToldOfRoom
<1>2. CASE Activate \/ SetWaterMarks \/ UNCHANGED vars
  <2>1. queue' = queue /\ frame' = frame /\ signaled' = signaled
    BY <1>2 DEF Activate, SetWaterMarks, vars
  <2>2. Waiting("enqueue")' = Waiting("enqueue")
    BY <2>1 DEF Waiting
  <2>3. QED BY <2>1, <2>2, SameToldOfRoom
<1>3. QED
  BY <1>1, <1>2 DEF Pulse, Flush

(***************************************************************************)
(* The water marks never leave both sides waiting: whoever dequeues the    *)
(* last message finds cur_bytes_ at 0, which is not above any low water    *)
(* mark, and signals not_full_cond_.  This needs a high water mark above 0 *)
(* (at 0 the empty queue is full) and that the queue is not emptied by     *)
(* flush, which signals nobody; pulse and waits that time out with the     *)
(* signal used up are left out as above.                                   *)
(***************************************************************************)
THEOREM ProducersAlwaysTold ==
  ASSUME 0 \notin HighMarks, ~Flushes, ~Pulses, ~TimeoutTakesSignal
  PROVE  Spec => []ProducersTold
<1> DEFINE Inv == Safe /\ Marked /\ Unpulsed /\ ProducersTold
<1>1. Init => Inv
  <2>1. ASSUME Init PROVE Waiting("enqueue") = {}
    BY <2>1 DEF Init, Waiting, NoCall, Frame
  <2>2. Init => ProducersTold
    BY <2>1 DEF ProducersTold
  <2>3. QED BY <2>2, SafeInit DEF Init, Unpulsed, Marked
<1>2. Inv /\ [Next]_vars => Inv'
  <2> SUFFICES ASSUME Inv, [Next]_vars PROVE Inv'
    OBVIOUS
  <2>1. Safe' /\ Marked' /\ Unpulsed'
    BY SafeNext, MarkedNext, UnpulsedNext
  <2>2. CASE \/ \E t \in Producers : Enqueue(t)
             \/ \E t \in Consumers : Dequeue(t)
    BY <2>1, <2>2, CallTellsOfRoom
  <2>3. CASE \E t \in Threads : Wake(t) \/ TimedOut(t)
    BY <2>1, <2>3, WakeTellsOfRoom
  <2>4. CASE \/ Deactivate \/ Pulse \/ Activate \/ Flush \/ Close \/ SetWaterMarks
             \/ UNCHANGED vars
    BY <2>1, <2>4, ControlTellsOfRoom
  <2>5. QED BY <2>2, <2>3, <2>4 DEF Next
<1>3. Inv => ProducersTold
  OBVIOUS
<1>4. QED
  BY <1>1, <1>2, <1>3, PTL DEF Spec
=============================================================================
