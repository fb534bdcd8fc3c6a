----------------------------- MODULE BuddyProofs -----------------------------
(***************************************************************************)
(* Theorems about Buddy.  The inductive invariant says that there is a set *)
(* of free blocks such that these and the blocks in use tile the heap, the *)
(* split bits are those of the nodes the tiling splits, the allocation     *)
(* bits those of the nodes one half of which is free, and the free list of *)
(* a level runs through the free blocks of that level.                     *)
(***************************************************************************)
EXTENDS Buddy, FiniteSetTheorems, TLAPS

(***************************************************************************)
(* Induction and least elements                                            *)
(***************************************************************************)
\* A set of naturals that is not empty has a least element.
LEMMA LeastNatural ==
    ASSUME NEW T \in SUBSET Nat, T # {}
    PROVE  \E x \in T : \A y \in T : x <= y
<1>1. PICK x \in T : \A y \in T : ~ (<<y, x>> \in OpToRel(<, Nat))
  BY WFMin, NatLessThanWellFounded
<1>2. ASSUME NEW y \in T PROVE x <= y
  <2>1. <<y, x>> \notin OpToRel(<, Nat)
    BY <1>1
  <2>2. ~ (y < x)
    BY <2>1 DEF OpToRel
  <2>. QED BY <2>2
<1>. QED BY <1>2

\* Induction, with a set in place of a predicate.
LEMMA NatSetInduction ==
    ASSUME NEW T, 0 \in T, \A n \in Nat : n \in T => n + 1 \in T
    PROVE  \A n \in Nat : n \in T
<1>1. SUFFICES ASSUME Nat \ T # {} PROVE FALSE
  OBVIOUS
<1>2. PICK x \in Nat \ T : \A y \in Nat \ T : x <= y
  BY <1>1, LeastNatural
<1>3. x # 0 /\ x - 1 \in Nat
  BY <1>2
<1>4. x - 1 \in T
  BY <1>2, <1>3
<1>. QED BY <1>2, <1>3, <1>4

\* A set of naturals with an upper bound has a greatest element.
LEMMA GreatestNatural ==
    ASSUME NEW n \in Nat, NEW S \in SUBSET (0 .. n), S # {}
    PROVE  Max(S) \in S /\ \A y \in S : Max(S) >= y
<1> DEFINE T == {n - x : x \in S}
<1>1. \A t \in T : t \in Nat
  <2>1. \A x \in S : x \in Nat /\ x <= n
    OBVIOUS
  <2>. QED BY <2>1
<1>2. T # {}
  OBVIOUS
<1>3a. PICK t \in T : \A u \in T : t <= u
  BY <1>1, <1>2, LeastNatural
<1>3. PICK x \in S : t = n - x
  BY <1>3a
<1>4. \A y \in S : x >= y
  BY <1>3a, <1>3
<1>. QED BY <1>4 DEF Max
-----------------------------------------------------------------------------
(***************************************************************************)
(* Powers of two: 2 ^ n counts the subsets of 1 .. n                       *)
(***************************************************************************)
LEMMA PowerIsCount ==
    ASSUME NEW n \in Nat
    PROVE  IsFiniteSet(SUBSET (1 .. n)) /\ Cardinality(SUBSET (1 .. n)) = 2 ^ n
<1>1. IsFiniteSet(1 .. n) /\ Cardinality(1 .. n) = n
  BY FS_Interval
<1>. QED BY <1>1, FS_SUBSET

LEMMA PowerType ==
    ASSUME NEW n \in Nat
    PROVE  2 ^ n \in Nat /\ 2 ^ n >= 1
<1>1. 2 ^ n \in Nat
  BY PowerIsCount, FS_CardinalityType
<1>2. {} \in SUBSET (1 .. n)
  OBVIOUS
<1>3. 2 ^ n # 0
  BY <1>2, PowerIsCount, FS_EmptySet
<1>. QED BY <1>1, <1>3

LEMMA PowerZero == 2 ^ 0 = 1
<1>1. SUBSET (1 .. 0) = {{}}
  OBVIOUS
<1>. QED BY <1>1, PowerIsCount, FS_Singleton

LEMMA PowerNext ==
    ASSUME NEW n \in Nat
    PROVE  2 ^ (n + 1) = 2 * 2 ^ n
<1> DEFINE A == SUBSET (1 .. n)
           B == {s \in SUBSET (1 .. n + 1) : n + 1 \in s}
           f == [s \in A |-> s \cup {n + 1}]
<1>1. SUBSET (1 .. n + 1) = A \cup B /\ A \cap B = {}
  <2>1. \A x : x \in 1 .. n + 1 <=> x \in 1 .. n \/ x = n + 1
    OBVIOUS
  <2>2. n + 1 \notin 1 .. n
    OBVIOUS
  <2>. QED BY <2>1, <2>2
<1>2. f \in Bijection(A, B)
  <2>1. \A x : x \in 1 .. n + 1 <=> x \in 1 .. n \/ x = n + 1
    OBVIOUS
  <2>2. n + 1 \notin 1 .. n
    OBVIOUS
  <2>3. \A s \in A : f[s] \in B /\ f[s] \ {n + 1} = s
    BY <2>1, <2>2
  <2>4. \A t \in B : t \ {n + 1} \in A /\ f[t \ {n + 1}] = t
    BY <2>1, <2>2
  <2>. HIDE DEF A, B
  <2>5. f \in Injection(A, B)
    BY <2>3 DEF Injection, IsInjective
  <2>6. f \in Surjection(A, B)
    BY <2>3, <2>4 DEF Surjection
  <2>. QED BY <2>5, <2>6 DEF Bijection
<1>3. IsFiniteSet(A) /\ Cardinality(A) = 2 ^ n
  BY PowerIsCount
<1>4. IsFiniteSet(B) /\ Cardinality(B) = 2 ^ n
  <2>. HIDE DEF A, B, f
  <2>. QED BY <1>2, <1>3, FS_Bijection DEF ExistsBijection
<1>5. Cardinality(A \cup B) = 2 ^ n + 2 ^ n - Cardinality({})
  BY <1>1, <1>3, <1>4, FS_Union
<1>6. Cardinality(SUBSET (1 .. n + 1)) = 2 ^ (n + 1)
  BY PowerIsCount
<1>7. Cardinality(SUBSET (1 .. n + 1)) = 2 ^ n + 2 ^ n
  <2>1. \A x \in Nat : x + x - 0 = x + x
    OBVIOUS
  <2>. HIDE DEF A, B
  <2>. QED BY <2>1, <1>1, <1>5, FS_EmptySet, PowerType
<1>8. \A x \in Nat : x + x = 2 * x
  OBVIOUS
<1>. QED BY <1>6, <1>7, <1>8, PowerType

LEMMA PowerSum ==
    ASSUME NEW m \in Nat, NEW n \in Nat
    PROVE  2 ^ (m + n) = 2 ^ m * 2 ^ n
<1> DEFINE T == {k \in Nat : 2 ^ (m + k) = 2 ^ m * 2 ^ k}
<1>1. 0 \in T
  BY PowerZero, PowerType
<1>2. ASSUME NEW k \in T PROVE k + 1 \in T
  <2>1. 2 ^ (m + (k + 1)) = 2 * 2 ^ (m + k)
    <3>1. m + (k + 1) = (m + k) + 1 /\ m + k \in Nat
      OBVIOUS
    <3>. QED BY <3>1, PowerNext
  <2>2. 2 ^ (k + 1) = 2 * 2 ^ k
    BY PowerNext
  <2>3. 2 ^ m \in Nat /\ 2 ^ k \in Nat
    BY PowerType
  <2>4. \A a, b \in Nat : 2 * (a * b) = a * (2 * b)
    OBVIOUS
  <2>. QED BY <2>1, <2>2, <2>3, <2>4
<1>3. \A k \in Nat : k \in T
  BY <1>1, <1>2, NatSetInduction
<1>. QED BY <1>3

\* Powers of two grow.
LEMMA PowerOrder ==
    ASSUME NEW m \in Nat, NEW n \in Nat
    PROVE  /\ m < n => 2 * 2 ^ m <= 2 ^ n
           /\ m <= n => 2 ^ m <= 2 ^ n
           /\ m < n <=> 2 ^ m < 2 ^ n
           /\ m <= n <=> 2 ^ m <= 2 ^ n
           /\ m = n <=> 2 ^ m = 2 ^ n
<1>1. ASSUME NEW a \in Nat, NEW b \in Nat, a < b PROVE 2 * 2 ^ a <= 2 ^ b
  <2>1. b = (a + 1) + (b - a - 1) /\ a + 1 \in Nat /\ b - a - 1 \in Nat
    BY <1>1
  <2>2. 2 ^ b = 2 ^ (a + 1) * 2 ^ (b - a - 1)
    BY <2>1, PowerSum
  <2>3. 2 ^ (a + 1) = 2 * 2 ^ a
    BY PowerNext
  <2>4. \A x, y \in Nat : y >= 1 => x <= x * y
    OBVIOUS
  <2>. QED BY <2>1, <2>2, <2>3, <2>4, PowerType
<1>2. 2 ^ m \in Nat /\ 2 ^ n \in Nat /\ 2 ^ m >= 1 /\ 2 ^ n >= 1
  BY PowerType
<1>. QED BY <1>1, <1>2
-----------------------------------------------------------------------------
(***************************************************************************)
(* Levels and positions                                                    *)
(***************************************************************************)
\* The blocks that are aligned to their size: the nodes of the tree whose
\* root is the heap and whose leaves are single leaves.
Nodes == {b \in Block : b.addr % size_from_level(b.level) = 0}

LEMMA DivisionBounds ==
    ASSUME NEW x \in Nat, NEW s \in Nat, s >= 1
    PROVE  /\ x \div s \in Nat
           /\ (x \div s) * s <= x /\ x < (x \div s) * s + s
           /\ x % s = x - (x \div s) * s
<1>1. x \div s \in Nat /\ x % s \in Nat /\ x % s < s
  OBVIOUS
<1>2. (x \div s) * s <= x /\ x < (x \div s) * s + s
  OBVIOUS
<1>3. x % s = x - s * (x \div s)
  OBVIOUS
<1> DEFINE q == x \div s
<1>4. q \in Nat
  BY <1>1
<1> HIDE DEF q
<1>5. s * q = q * s
  BY <1>4
<1>. QED BY <1>1, <1>2, <1>3, <1>5 DEF q

LEMMA DivisionUnique ==
    ASSUME NEW x \in Nat, NEW s \in Nat, s >= 1, NEW q \in Nat, q * s <= x, x < q * s + s
    PROVE  x \div s = q
OBVIOUS

LEMMA ProductOrder ==
    ASSUME NEW a \in Nat, NEW b \in Nat, NEW s \in Nat, s >= 1
    PROVE  /\ a * s \in Nat
           /\ a < b => a * s + s <= b * s
           /\ a <= b => a * s <= b * s
           /\ a * s < b * s => a < b
           /\ a * s = b * s => a = b
           /\ (a * s) % s = 0 /\ (a * s) \div s = a
OBVIOUS

LEMMA SizeFacts ==
    ASSUME NEW l \in Levels
    PROVE  /\ size_from_level(l) \in Nat /\ size_from_level(l) >= 1
           /\ 2 ^ l \in Nat /\ 2 ^ l >= 1
           /\ 2 ^ l * size_from_level(l) = 2 ^ MaxLevel
           /\ l < MaxLevel => /\ size_from_level(l) = 2 * size_from_level(l + 1)
                              /\ size_from_level(l) \div 2 = size_from_level(l + 1)
<1>1. l \in Nat /\ MaxLevel - l \in Nat /\ l + (MaxLevel - l) = MaxLevel
  BY LevelAssumption DEF Levels
<1>2. size_from_level(l) \in Nat /\ size_from_level(l) >= 1 /\ 2 ^ l \in Nat /\ 2 ^ l >= 1
  BY <1>1, PowerType DEF size_from_level
<1>3. 2 ^ l * size_from_level(l) = 2 ^ MaxLevel
  BY <1>1, PowerSum DEF size_from_level
<1>4. ASSUME l < MaxLevel
      PROVE  /\ size_from_level(l) = 2 * size_from_level(l + 1)
             /\ size_from_level(l) \div 2 = size_from_level(l + 1)
  <2>1. MaxLevel - l = (MaxLevel - (l + 1)) + 1 /\ MaxLevel - (l + 1) \in Nat
    BY <1>1, <1>4, LevelAssumption
  <2>2. size_from_level(l) = 2 * size_from_level(l + 1) /\ size_from_level(l + 1) \in Nat
    BY <2>1, PowerNext, PowerType DEF size_from_level
  <2>. QED BY <2>2
<1>. QED BY <1>2, <1>3, <1>4

LEMMA SizeEnds ==
    /\ size_from_level(0) = 2 ^ MaxLevel /\ size_from_level(MaxLevel) = 1
    /\ 2 ^ MaxLevel \in Nat /\ 2 ^ MaxLevel >= 1
    /\ 0 \in Levels /\ MaxLevel \in Levels
<1>1. MaxLevel - 0 = MaxLevel /\ MaxLevel - MaxLevel = 0
  BY LevelAssumption
<1>. QED BY <1>1, PowerZero, PowerType, LevelAssumption DEF size_from_level, Levels

\* The block of a level that an address lies in.
LEMMA IndexFacts ==
    ASSUME NEW x \in Addresses, NEW l \in Levels
    PROVE  LET i == index_in_level(x, l)
               s == size_from_level(l)
           IN  i \in 0 .. (2 ^ l - 1) /\ i * s <= x /\ x < i * s + s
<1> DEFINE i == index_in_level(x, l)
           s == size_from_level(l)
           p == 2 ^ l
<1>1. s \in Nat /\ s >= 1 /\ p \in Nat /\ p * s = 2 ^ MaxLevel
  BY SizeFacts
<1>2. x \in Nat /\ x < p * s
  BY <1>1, SizeEnds DEF Addresses
<1>3. i \in Nat /\ i * s <= x /\ x < i * s + s
  BY <1>1, <1>2, DivisionBounds DEF index_in_level
<1>4. i < p
  <2>. HIDE DEF i, s, p
  <2>. QED BY <1>1, <1>2, <1>3, ProductOrder
<1>. QED BY <1>1, <1>3, <1>4

LEMMA IndexUnique ==
    ASSUME NEW x \in Addresses, NEW l \in Levels, NEW i \in Nat,
           i * size_from_level(l) <= x, x < i * size_from_level(l) + size_from_level(l)
    PROVE  index_in_level(x, l) = i
<1>1. x \in Nat
  BY SizeEnds DEF Addresses
<1>. QED BY <1>1, SizeFacts, DivisionUnique DEF index_in_level

\* The addresses of the blocks of a level.
LEMMA PositionFacts ==
    ASSUME NEW l \in Levels, NEW i \in 0 .. (2 ^ l - 1)
    PROVE  /\ i * size_from_level(l) \in Addresses
           /\ index_in_level(i * size_from_level(l), l) = i
           /\ [addr |-> i * size_from_level(l), level |-> l] \in Nodes
           /\ i * size_from_level(l) + size_from_level(l) <= 2 ^ MaxLevel
<1> DEFINE s == size_from_level(l)
           p == 2 ^ l
<1>1. s \in Nat /\ s >= 1 /\ p \in Nat /\ p * s = 2 ^ MaxLevel /\ i \in Nat /\ i < p
  BY SizeFacts
<1> HIDE DEF s, p
<1>2. i * s \in Nat /\ i * s + s <= p * s /\ (i * s) % s = 0 /\ (i * s) \div s = i
  BY <1>1, ProductOrder
<1>3. i * s \in Addresses
  BY <1>1, <1>2, SizeEnds DEF Addresses
<1>. QED BY <1>1, <1>2, <1>3 DEF s, index_in_level, Nodes, Block

\* A node is given by its level and its index.
LEMMA NodeFacts ==
    ASSUME NEW b \in Nodes
    PROVE  LET i == index_in_level(b.addr, b.level)
           IN  /\ b \in Block /\ b.addr \in Addresses /\ b.level \in Levels
               /\ b.addr = i * size_from_level(b.level)
               /\ i \in 0 .. (2 ^ b.level - 1)
               /\ b = [addr |-> b.addr, level |-> b.level]
<1>1. b \in Block /\ b.addr \in Addresses /\ b.level \in Levels
      /\ b.addr % size_from_level(b.level) = 0 /\ b = [addr |-> b.addr, level |-> b.level]
  BY DEF Nodes, Block
<1>2. b.addr \in Nat
  BY <1>1, SizeEnds DEF Addresses
<1> DEFINE i == index_in_level(b.addr, b.level)
           s == size_from_level(b.level)
<1>3. i \in 0 .. (2 ^ b.level - 1)
  BY <1>1, IndexFacts
<1>4. i * s <= b.addr /\ b.addr % s = b.addr - i * s
  BY <1>1, <1>2, SizeFacts, DivisionBounds DEF index_in_level
<1>5. i \in Nat /\ s \in Nat /\ s >= 1
  BY <1>1, <1>3, SizeFacts
<1>6. i * s \in Nat
  <2>. HIDE DEF i, s
  <2>. QED BY <1>5, ProductOrder
<1>7. b.addr = i * s
  BY <1>1, <1>2, <1>4, <1>6
<1>. QED BY <1>1, <1>3, <1>7
-----------------------------------------------------------------------------
(***************************************************************************)
(* The tree                                                                *)
(***************************************************************************)
\* The addresses of a block are those with its index.
LEMMA UnitsFacts ==
    ASSUME NEW b \in Nodes
    PROVE  /\ Units(b) = {x \in Addresses :
                             index_in_level(x, b.level) = index_in_level(b.addr, b.level)}
           /\ b.addr \in Units(b)
           /\ Units(b) = b.addr .. (b.addr + size_from_level(b.level) - 1)
<1> DEFINE l == b.level
           i == index_in_level(b.addr, l)
           s == size_from_level(l)
<1>1. l \in Levels /\ b.addr = i * s /\ i \in 0 .. (2 ^ l - 1) /\ b.addr \in Addresses
  BY NodeFacts
<1>2. s \in Nat /\ s >= 1 /\ 2 ^ MaxLevel \in Nat /\ 2 ^ l \in Nat
  BY <1>1, SizeFacts, SizeEnds
<1>3. i * s + s <= 2 ^ MaxLevel /\ i * s \in Nat /\ i \in Nat
  <2>1. i * s + s <= 2 ^ MaxLevel /\ i * s \in Addresses
    BY <1>1, PositionFacts
  <2>2. Addresses \subseteq Nat
    BY <1>2 DEF Addresses
  <2>. HIDE DEF i, s
  <2>. QED BY <1>1, <1>2, <2>1, <2>2
<1>4. Units(b) = (i * s) .. (i * s + s - 1)
  BY <1>1 DEF Units
<1>5. ASSUME NEW x \in Units(b) PROVE x \in Addresses /\ index_in_level(x, l) = i
  <2>1. x \in Addresses /\ i * s <= x /\ x < i * s + s
    <3>. HIDE DEF i, s
    <3>. QED BY <1>2, <1>3, <1>4 DEF Addresses
  <2>. QED BY <2>1, <1>1, <1>3, IndexUnique
<1>6. ASSUME NEW x \in Addresses, index_in_level(x, l) = i PROVE x \in Units(b)
  <2>1. i * s <= x /\ x < i * s + s
    BY <1>1, <1>6, IndexFacts
  <2>2. x \in Nat
    BY SizeEnds DEF Addresses
  <2>. HIDE DEF i, s
  <2>. QED BY <1>2, <1>3, <1>4, <2>1, <2>2
<1>. QED BY <1>1, <1>5, <1>6 DEF Units

\* The two halves of the blocks of a level.
LEMMA IndexHalf ==
    ASSUME NEW x \in Addresses, NEW l \in Levels, l < MaxLevel
    PROVE  LET i == index_in_level(x, l)
           IN  /\ l + 1 \in Levels
               /\ index_in_level(x, l + 1) \in {2 * i, 2 * i + 1}
               /\ index_in_level(x, l + 1) \div 2 = i
<1> DEFINE i == index_in_level(x, l)
           j == index_in_level(x, l + 1)
           s == size_from_level(l + 1)
<1>1. l + 1 \in Levels
  BY LevelAssumption DEF Levels
<1>2. s \in Nat /\ s >= 1 /\ size_from_level(l) = 2 * s /\ x \in Nat
  BY <1>1, SizeFacts, SizeEnds DEF Addresses
<1>3. i \in Nat /\ i * (2 * s) <= x /\ x < i * (2 * s) + 2 * s
  BY <1>2, IndexFacts
<1>4. j \in Nat /\ j * s <= x /\ x < j * s + s
  BY <1>1, IndexFacts
<1>5. j \in {2 * i, 2 * i + 1}
  <2>. HIDE DEF i, j, s
  <2>1. i * (2 * s) = (2 * i) * s /\ i * (2 * s) + 2 * s = (2 * i + 2) * s
    BY <1>2, <1>3
  <2>2. (2 * i) * s <= x /\ x < (2 * i + 2) * s
    BY <1>3, <2>1
  <2>3. j * s < (2 * i + 2) * s /\ (2 * i) * s < (j + 1) * s
    <3>1. (j + 1) * s = j * s + s /\ j * s \in Nat /\ (2 * i) * s \in Nat /\ (2 * i + 2) * s \in Nat
      BY <1>2, <1>3, <1>4
    <3>. QED BY <1>2, <1>4, <2>2, <3>1
  <2>4. j < 2 * i + 2 /\ 2 * i < j + 1
    BY <1>2, <1>3, <1>4, <2>3, ProductOrder
  <2>. QED BY <1>3, <1>4, <2>4
<1>6. j \div 2 = i
  <2>. HIDE DEF i, j
  <2>. QED BY <1>3, <1>5
<1>. QED BY <1>1, <1>5, <1>6

\* Addresses in one block of a level are in one block of every level above.
LEMMA IndexAbove ==
    ASSUME NEW x \in Addresses, NEW y \in Addresses, NEW l \in Levels, NEW k \in Levels, k <= l,
           index_in_level(x, l) = index_in_level(y, l)
    PROVE  index_in_level(x, k) = index_in_level(y, k)
<1> DEFINE T == {d \in Nat : d <= l => index_in_level(x, l - d) = index_in_level(y, l - d)}
<1>1. l \in Nat /\ k \in Nat
  BY DEF Levels
<1>2. 0 \in T
  BY <1>1
<1>3. ASSUME NEW d \in T PROVE d + 1 \in T
  <2>1. SUFFICES ASSUME d + 1 <= l
                 PROVE  index_in_level(x, l - (d + 1)) = index_in_level(y, l - (d + 1))
    OBVIOUS
  <2> DEFINE m == l - (d + 1)
  <2>2. m \in Levels /\ m < MaxLevel /\ m + 1 = l - d
    BY <1>1, <2>1, LevelAssumption DEF Levels
  <2>3. index_in_level(x, m + 1) = index_in_level(y, m + 1)
    BY <1>1, <2>1, <2>2
  <2>4. index_in_level(x, m) = index_in_level(x, m + 1) \div 2
        /\ index_in_level(y, m) = index_in_level(y, m + 1) \div 2
    BY <2>2, IndexHalf
  <2>. QED BY <2>3, <2>4
<1>4. \A d \in Nat : d \in T
  BY <1>2, <1>3, NatSetInduction
<1>5. l - k \in Nat /\ l - k <= l /\ l - (l - k) = k
  BY <1>1
<1>. QED BY <1>4, <1>5

\* Two nodes that share an address lie one inside the other.
LEMMA Nesting ==
    ASSUME NEW b \in Nodes, NEW c \in Nodes, b.level <= c.level,
           index_in_level(b.addr, b.level) = index_in_level(c.addr, b.level)
               \/ Units(b) \cap Units(c) # {}
    PROVE  /\ Units(c) \subseteq Units(b)
           /\ index_in_level(b.addr, b.level) = index_in_level(c.addr, b.level)
<1>1. b.level \in Levels /\ c.level \in Levels /\ b.addr \in Addresses /\ c.addr \in Addresses
  BY NodeFacts
<1>2. index_in_level(b.addr, b.level) = index_in_level(c.addr, b.level)
  <2>1. CASE Units(b) \cap Units(c) # {}
    <3>1. PICK x \in Units(b) : x \in Units(c)
      BY <2>1
    <3>2. x \in Addresses /\ index_in_level(x, b.level) = index_in_level(b.addr, b.level)
          /\ index_in_level(x, c.level) = index_in_level(c.addr, c.level)
      BY <3>1, UnitsFacts
    <3>. QED BY <1>1, <3>2, IndexAbove
  <2>. QED BY <2>1
<1>3. ASSUME NEW x \in Units(c) PROVE x \in Units(b)
  <2>1. x \in Addresses /\ index_in_level(x, c.level) = index_in_level(c.addr, c.level)
    BY UnitsFacts
  <2>2. index_in_level(x, b.level) = index_in_level(c.addr, b.level)
    BY <1>1, <2>1, IndexAbove
  <2>. QED BY <1>2, <2>1, <2>2, UnitsFacts
<1>. QED BY <1>2, <1>3

LEMMA SameNode ==
    ASSUME NEW b \in Nodes, NEW c \in Nodes, b.level = c.level,
           index_in_level(b.addr, b.level) = index_in_level(c.addr, b.level)
               \/ Units(b) \cap Units(c) # {}
    PROVE  b = c
<1>1. b.level \in Levels
  BY NodeFacts
<1>2. b.level <= c.level
  BY <1>1 DEF Levels
<1>3. index_in_level(b.addr, b.level) = index_in_level(c.addr, b.level)
  BY <1>2, Nesting
<1>4. b.addr = c.addr
  BY <1>3, NodeFacts
<1>. QED BY <1>4, NodeFacts
-----------------------------------------------------------------------------
\* The halves, the parent and the bit of a node.
Lower(b)  == [addr |-> b.addr, level |-> b.level + 1]
Upper(b)  == [addr |-> b.addr + size_from_level(b.level) \div 2, level |-> b.level + 1]
Buddy(b)  == [b EXCEPT !.addr = calculate_buddy_address(b.addr, b.level)]
Parent(b) == [addr  |-> index_in_level(b.addr, b.level - 1) * size_from_level(b.level - 1),
              level |-> b.level - 1]
Bit(b)    == split_bit_index(b.addr, b.level)

\* A node is the disjoint union of its halves.
LEMMA Halves ==
    ASSUME NEW b \in Nodes, b.level < MaxLevel
    PROVE  /\ Lower(b) \in Nodes /\ Upper(b) \in Nodes /\ Lower(b) # Upper(b)
           /\ Units(b) = Units(Lower(b)) \cup Units(Upper(b))
           /\ Units(Lower(b)) \cap Units(Upper(b)) = {}
           /\ index_in_level(Lower(b).addr, b.level) = index_in_level(b.addr, b.level)
           /\ index_in_level(Upper(b).addr, b.level) = index_in_level(b.addr, b.level)
           /\ index_in_level(Lower(b).addr, b.level + 1) = 2 * index_in_level(b.addr, b.level)
           /\ index_in_level(Upper(b).addr, b.level + 1) = 2 * index_in_level(b.addr, b.level) + 1
<1> DEFINE l == b.level
           i == index_in_level(b.addr, l)
           s == size_from_level(l + 1)
           p == 2 ^ l
<1>1. l \in Levels /\ l + 1 \in Levels /\ b.addr = i * size_from_level(l) /\ i \in 0 .. (p - 1)
      /\ b.addr \in Addresses
  BY NodeFacts, LevelAssumption DEF Levels
<1>2. s \in Nat /\ s >= 1 /\ size_from_level(l) = 2 * s /\ size_from_level(l) \div 2 = s
      /\ p \in Nat /\ 2 ^ (l + 1) = 2 * p
  BY <1>1, SizeFacts, PowerNext DEF Levels
<1>3. i \in Nat /\ 2 * i \in 0 .. (2 ^ (l + 1) - 1) /\ 2 * i + 1 \in 0 .. (2 ^ (l + 1) - 1)
  <2>. HIDE DEF i, p
  <2>. QED BY <1>1, <1>2
<1>4. b.addr = (2 * i) * s /\ b.addr + s = (2 * i + 1) * s
  <2>. HIDE DEF i, p, s, l
  <2>1. i * (2 * s) = (2 * i) * s /\ (2 * i + 1) * s = (2 * i) * s + s
    BY <1>2, <1>3
  <2>. QED BY <2>1, <1>1, <1>2
<1>5. Lower(b) = [addr |-> (2 * i) * s, level |-> l + 1]
      /\ Upper(b) = [addr |-> (2 * i + 1) * s, level |-> l + 1]
  BY <1>2, <1>4 DEF Lower, Upper
<1>6. /\ Lower(b) \in Nodes /\ Lower(b).addr \in Addresses
      /\ index_in_level(Lower(b).addr, l + 1) = 2 * i
  BY <1>1, <1>3, <1>5, PositionFacts
<1>7. /\ Upper(b) \in Nodes /\ Upper(b).addr \in Addresses
      /\ index_in_level(Upper(b).addr, l + 1) = 2 * i + 1
  BY <1>1, <1>3, <1>5, PositionFacts
<1>8. Lower(b).level = l + 1 /\ Upper(b).level = l + 1
  BY DEF Lower, Upper
<1>9. \A x \in Addresses :
         /\ index_in_level(x, l + 1) \in {2 * index_in_level(x, l), 2 * index_in_level(x, l) + 1}
         /\ index_in_level(x, l) \in Nat
         /\ index_in_level(x, l + 1) \div 2 = index_in_level(x, l)
  <2>1. l < MaxLevel
    OBVIOUS
  <2>2. TAKE x \in Addresses
  <2>3. index_in_level(x, l) \in Nat
    BY <1>1, SizeFacts, IndexFacts
  <2>. QED BY <1>1, <2>1, <2>3, IndexHalf
<1>10. index_in_level(Lower(b).addr, l) = i /\ index_in_level(Upper(b).addr, l) = i
  <2>1. (2 * i) \div 2 = i /\ (2 * i + 1) \div 2 = i
    <3>. HIDE DEF i
    <3>. QED BY <1>3
  <2>. QED BY <1>6, <1>7, <1>9, <2>1
<1>11. Units(b) = {x \in Addresses : index_in_level(x, l) = i}
       /\ Units(Lower(b)) = {x \in Addresses : index_in_level(x, l + 1) = 2 * i}
       /\ Units(Upper(b)) = {x \in Addresses : index_in_level(x, l + 1) = 2 * i + 1}
  BY <1>6, <1>7, <1>8, UnitsFacts
<1>12. \A x \in Addresses : index_in_level(x, l) = i
                                <=> index_in_level(x, l + 1) \in {2 * i, 2 * i + 1}
  <2>1. (2 * i) \div 2 = i /\ (2 * i + 1) \div 2 = i
    <3>. HIDE DEF i
    <3>. QED BY <1>3
  <2>. HIDE DEF i
  <2>. QED BY <1>3, <1>9, <2>1
<1>13. 2 * i # 2 * i + 1
  BY <1>3
<1>14. Units(b) = Units(Lower(b)) \cup Units(Upper(b)) /\ Units(Lower(b)) \cap Units(Upper(b)) = {}
  <2>. HIDE DEF i
  <2>. QED BY <1>11, <1>12, <1>13
<1>15. Lower(b) # Upper(b)
  BY <1>6, <1>7, <1>13
<1>. QED BY <1>6, <1>7, <1>10, <1>14, <1>15

\* Two nodes with one parent are its halves.
LEMMA ParentFacts ==
    ASSUME NEW b \in Nodes, b.level > 0
    PROVE  /\ Parent(b) \in Nodes /\ Parent(b).level = b.level - 1 /\ Parent(b).level < MaxLevel
           /\ index_in_level(Parent(b).addr, b.level - 1) = index_in_level(b.addr, b.level - 1)
           /\ index_in_level(b.addr, b.level - 1) = index_in_level(b.addr, b.level) \div 2
           /\ \/ b = Lower(Parent(b)) /\ index_in_level(b.addr, b.level) % 2 = 0
              \/ b = Upper(Parent(b)) /\ index_in_level(b.addr, b.level) % 2 = 1
<1> DEFINE l == b.level
           k == b.level - 1
           i == index_in_level(b.addr, k)
           j == index_in_level(b.addr, l)
           P == Parent(b)
<1>1. l \in Levels /\ k \in Levels /\ k < MaxLevel /\ k + 1 = l /\ b.addr \in Addresses
  BY NodeFacts, LevelAssumption DEF Levels
<1>2. i \in 0 .. (2 ^ k - 1) /\ i \in Nat
  BY <1>1, IndexFacts, SizeFacts
<1>3. P \in Nodes /\ P.level = k /\ index_in_level(P.addr, k) = i
  BY <1>1, <1>2, PositionFacts DEF Parent
<1>4. j \in {2 * i, 2 * i + 1} /\ j \div 2 = i
  BY <1>1, IndexHalf
<1>5. /\ Lower(P) \in Nodes /\ Upper(P) \in Nodes
      /\ index_in_level(Lower(P).addr, l) = 2 * i
      /\ index_in_level(Upper(P).addr, l) = 2 * i + 1
      /\ Lower(P).level = l /\ Upper(P).level = l
  BY <1>1, <1>3, Halves DEF Lower, Upper
<1>6. CASE j = 2 * i
  <2>1. b = Lower(P)
    BY <1>5, <1>6, SameNode
  <2>2. (2 * i) % 2 = 0
    <3>. HIDE DEF i
    <3>. QED BY <1>2
  <2>. QED BY <1>1, <1>3, <1>4, <1>6, <2>1, <2>2
<1>7. CASE j = 2 * i + 1
  <2>1. b = Upper(P)
    BY <1>5, <1>7, SameNode
  <2>2. (2 * i + 1) % 2 = 1
    <3>. HIDE DEF i
    <3>. QED BY <1>2
  <2>. QED BY <1>1, <1>3, <1>4, <1>7, <2>1, <2>2
<1>. QED BY <1>4, <1>6, <1>7

\* The block that calculate_buddy_address() finds is the other half.
LEMMA BuddyFacts ==
    ASSUME NEW b \in Nodes, b.level > 0
    PROVE  /\ \/ b = Lower(Parent(b)) /\ Buddy(b) = Upper(Parent(b))
              \/ b = Upper(Parent(b)) /\ Buddy(b) = Lower(Parent(b))
           /\ Buddy(b) \in Nodes /\ Buddy(b) # b
           /\ Buddy(b) = [addr |-> calculate_buddy_address(b.addr, b.level), level |-> b.level]
           /\ allocation_bit_index(b.addr, b.level) = Bit(Parent(b))
           /\ split_bit_index(b.addr, b.level - 1) = Bit(Parent(b))
<1> DEFINE P == Parent(b)
           s == size_from_level(b.level)
<1>1. P \in Nodes /\ P.level = b.level - 1 /\ P.level < MaxLevel
  BY ParentFacts
<1>2. b.level \in Levels /\ b.addr \in Nat /\ P.addr \in Nat /\ b = [addr |-> b.addr, level |-> b.level]
  BY <1>1, NodeFacts, SizeEnds DEF Addresses
<1>3. s \in Nat /\ s >= 1 /\ size_from_level(P.level) \div 2 = s
  <2>1. P.level \in Levels /\ P.level + 1 = b.level
    BY <1>1, <1>2, NodeFacts DEF Levels
  <2>. QED BY <1>1, <1>2, <2>1, SizeFacts
<1>4. Lower(P) = [addr |-> P.addr, level |-> b.level] /\ Upper(P) = [addr |-> P.addr + s, level |-> b.level]
  <2>1. P.level + 1 = b.level
    BY <1>1, <1>2 DEF Levels
  <2>. QED BY <1>3, <2>1 DEF Lower, Upper
<1>5. Lower(P) \in Nodes /\ Upper(P) \in Nodes /\ Lower(P) # Upper(P)
  BY <1>1, Halves
<1>6. Buddy(b) = [addr |-> calculate_buddy_address(b.addr, b.level), level |-> b.level]
  BY <1>2 DEF Buddy
<1>7. /\ \/ b = Lower(P) /\ Buddy(b) = Upper(P)
         \/ b = Upper(P) /\ Buddy(b) = Lower(P)
      /\ Buddy(b) \in Nodes /\ Buddy(b) # b
  <2>1. \/ b = Lower(P) /\ index_in_level(b.addr, b.level) % 2 = 0
        \/ b = Upper(P) /\ index_in_level(b.addr, b.level) % 2 = 1
    BY ParentFacts
  <2>2. CASE b = Lower(P) /\ index_in_level(b.addr, b.level) % 2 = 0
    <3>1. calculate_buddy_address(b.addr, b.level) = P.addr + s
      BY <1>4, <2>2 DEF calculate_buddy_address
    <3>. QED BY <1>4, <1>5, <1>6, <2>2, <3>1
  <2>3. CASE b = Upper(P) /\ index_in_level(b.addr, b.level) % 2 = 1
    <3>1. calculate_buddy_address(b.addr, b.level) = P.addr
      BY <1>2, <1>3, <1>4, <2>3 DEF calculate_buddy_address
    <3>. QED BY <1>4, <1>5, <1>6, <2>3, <3>1
  <2>. QED BY <2>1, <2>2, <2>3
<1>8. allocation_bit_index(b.addr, b.level) = Bit(P) /\ split_bit_index(b.addr, b.level - 1) = Bit(P)
  <2>1. index_in_level(P.addr, b.level - 1) = index_in_level(b.addr, b.level - 1)
        /\ index_in_level(b.addr, b.level - 1) = index_in_level(b.addr, b.level) \div 2
    BY ParentFacts
  <2>. QED BY <1>1, <2>1 DEF allocation_bit_index, split_bit_index, Bit
<1>. QED BY <1>6, <1>7, <1>8

LEMMA ParentOfHalves ==
    ASSUME NEW n \in Nodes, n.level < MaxLevel
    PROVE  /\ Parent(Lower(n)) = n /\ Parent(Upper(n)) = n
           /\ Lower(n).level > 0 /\ Upper(n).level > 0
           /\ Lower(n).level = n.level + 1 /\ Upper(n).level = n.level + 1
           /\ Buddy(Lower(n)) = Upper(n) /\ Buddy(Upper(n)) = Lower(n)
<1>1. n.level \in Nat
  BY NodeFacts DEF Levels
<1>2. ASSUME NEW b \in {Lower(n), Upper(n)} PROVE Parent(b) = n /\ b.level = n.level + 1
  <2>1. b \in Nodes /\ b.level = n.level + 1 /\ b.level > 0
        /\ index_in_level(b.addr, n.level) = index_in_level(n.addr, n.level)
    <3>1. Lower(n).level = n.level + 1 /\ Upper(n).level = n.level + 1
      BY DEF Lower, Upper
    <3>2. n.level + 1 > 0
      BY <1>1
    <3>3. b \in Nodes /\ index_in_level(b.addr, n.level) = index_in_level(n.addr, n.level)
      BY Halves
    <3>. QED BY <3>1, <3>2, <3>3
  <2>2. Parent(b) \in Nodes /\ Parent(b).level = n.level
        /\ index_in_level(Parent(b).addr, n.level) = index_in_level(n.addr, n.level)
    <3>1. b.level - 1 = n.level
      BY <1>1, <2>1
    <3>. QED BY <2>1, <3>1, ParentFacts
  <2>. QED BY <2>1, <2>2, SameNode
<1>3. Lower(n) # Upper(n) /\ Lower(n) \in Nodes /\ Upper(n) \in Nodes
  BY Halves
<1>4. Parent(Lower(n)) = n /\ Parent(Upper(n)) = n /\ Lower(n).level = n.level + 1
      /\ Upper(n).level = n.level + 1
  BY <1>2
<1>5. Lower(n).level > 0 /\ Upper(n).level > 0
  BY <1>1, <1>4
<1>6. Buddy(Lower(n)) = Upper(n) /\ Buddy(Upper(n)) = Lower(n)
  BY <1>3, <1>4, <1>5, BuddyFacts
<1>. QED BY <1>4, <1>5, <1>6

\* The bit numbers of the nodes that can have halves differ and fit the bitmaps.
LEMMA BitFacts ==
    ASSUME NEW b \in Nodes, NEW c \in Nodes, b.level < MaxLevel, c.level < MaxLevel
    PROVE  Bit(b) \in Bits /\ (Bit(b) = Bit(c) => b = c)
<1>1. ASSUME NEW n \in Nodes, n.level < MaxLevel
      PROVE  /\ n.level \in Nat /\ 2 ^ n.level \in Nat
             /\ Bit(n) = 2 ^ n.level + index_in_level(n.addr, n.level) - 1
             /\ 2 ^ n.level - 1 <= Bit(n) /\ Bit(n) <= 2 * 2 ^ n.level - 2
             /\ index_in_level(n.addr, n.level) \in Nat
  <2>1. n.level \in Nat /\ index_in_level(n.addr, n.level) \in 0 .. (2 ^ n.level - 1)
    BY NodeFacts DEF Levels
  <2>2. 2 ^ n.level \in Nat
    BY <2>1, PowerType
  <2>3. Bit(n) = 2 ^ n.level + index_in_level(n.addr, n.level) - 1
    BY DEF Bit, split_bit_index, unique_index
  <2> DEFINE i == index_in_level(n.addr, n.level)
             p == 2 ^ n.level
  <2>4. i \in Nat /\ i <= p - 1
    BY <2>1, <2>2
  <2>. HIDE DEF i, p
  <2>. QED BY <2>1, <2>2, <2>3, <2>4 DEF i, p
<1>2. Bit(b) \in Bits
  <2>1. MaxLevel \in Nat
    BY LevelAssumption
  <2>2. 2 * 2 ^ b.level <= 2 ^ MaxLevel
    BY <1>1, <2>1, PowerOrder
  <2>. QED BY <1>1, <2>1, <2>2, PowerType DEF Bits
<1>3. ASSUME Bit(b) = Bit(c) PROVE b = c
  <2>1. b.level = c.level
    <3>1. ASSUME b.level < c.level PROVE FALSE
      <4>1. 2 * 2 ^ b.level <= 2 ^ c.level
        BY <1>1, <3>1, PowerOrder
      <4>. QED BY <1>1, <1>3, <4>1
    <3>2. ASSUME c.level < b.level PROVE FALSE
      <4>1. 2 * 2 ^ c.level <= 2 ^ b.level
        BY <1>1, <3>2, PowerOrder
      <4>. QED BY <1>1, <1>3, <4>1
    <3>3. b.level \in Nat /\ c.level \in Nat
      BY <1>1
    <3>. QED BY <3>1, <3>2, <3>3
  <2>2. index_in_level(b.addr, b.level) = index_in_level(c.addr, c.level)
    <3> DEFINE i == index_in_level(b.addr, b.level)
               j == index_in_level(c.addr, c.level)
               p == 2 ^ b.level
    <3>1. i \in Nat /\ j \in Nat /\ p \in Nat /\ p + i - 1 = p + j - 1
      BY <1>1, <1>3, <2>1
    <3>. HIDE DEF i, j, p
    <3>. QED BY <3>1 DEF i, j
  <2>. QED BY <2>1, <2>2, SameNode
<1>. QED BY <1>2, <1>3
-----------------------------------------------------------------------------
(***************************************************************************)
(* Blocks inside others, and the bits that tell of them                    *)
(***************************************************************************)
\* b lies properly inside the node n, so that n is split.
Inside(b, n) == n.level < b.level /\ Units(b) \subseteq Units(n)

LEMMA InsideIndex ==
    ASSUME NEW b \in Nodes, NEW n \in Nodes
    PROVE  Inside(b, n) <=> /\ n.level < b.level
                            /\ index_in_level(b.addr, n.level) = index_in_level(n.addr, n.level)
<1>1. n.level \in Nat /\ b.level \in Nat /\ b.addr \in Units(b)
  BY NodeFacts, UnitsFacts DEF Levels
<1>2. ASSUME Inside(b, n)
      PROVE  index_in_level(b.addr, n.level) = index_in_level(n.addr, n.level)
  BY <1>1, <1>2, Nesting DEF Inside
<1>3. ASSUME n.level < b.level, index_in_level(b.addr, n.level) = index_in_level(n.addr, n.level)
      PROVE  Inside(b, n)
  BY <1>1, <1>3, Nesting DEF Inside
<1>. QED BY <1>2, <1>3 DEF Inside

\* What contains the halves: the block itself and what contains it.
LEMMA InsideHalves ==
    ASSUME NEW b \in Nodes, b.level < MaxLevel, NEW n \in Nodes, NEW c \in {Lower(b), Upper(b)}
    PROVE  Inside(c, n) <=> n = b \/ Inside(b, n)
<1>1. c \in Nodes /\ c.level = b.level + 1 /\ Units(c) \subseteq Units(b) /\ n.level \in Nat
      /\ b.level \in Nat /\ index_in_level(c.addr, b.level) = index_in_level(b.addr, b.level)
      /\ c.addr \in Units(c)
  <2>1. c \in Nodes /\ Units(c) \subseteq Units(b)
        /\ index_in_level(c.addr, b.level) = index_in_level(b.addr, b.level)
    BY Halves
  <2>. QED BY <2>1, ParentOfHalves, NodeFacts, UnitsFacts DEF Levels
<1>2. ASSUME Inside(c, n) PROVE n = b \/ Inside(b, n)
  <2>1. n.level <= b.level /\ c.addr \in Units(n) \cap Units(b)
    BY <1>1, <1>2 DEF Inside
  <2>2. CASE n.level = b.level
    BY <2>1, <2>2, SameNode
  <2>3. CASE n.level < b.level
    BY <1>1, <2>1, <2>3, Nesting DEF Inside
  <2>. QED BY <1>1, <2>1, <2>2, <2>3
<1>3. ASSUME n = b \/ Inside(b, n) PROVE Inside(c, n)
  BY <1>1, <1>3 DEF Inside
<1>. QED BY <1>2, <1>3
-----------------------------------------------------------------------------
(***************************************************************************)
(* Tilings of the heap, and what the two bitmaps say of them               *)
(***************************************************************************)
\* The blocks of D are aligned, apart from each other, and cover the heap.
Tiles(D) ==
    /\ D \subseteq Nodes
    /\ \A b, c \in D : b # c => Units(b) \cap Units(c) = {}
    /\ \A x \in Addresses : \E b \in D : x \in Units(b)

\* The bits of B are those of the nodes that D splits.
SplitExact(B, D) ==
    \A n \in Nodes : n.level < MaxLevel => (Bit(n) \in B <=> \E c \in D : Inside(c, n))

\* The bits of B are those of the nodes one half of which is in V.
PairsExact(B, V) ==
    \A n \in Nodes : n.level < MaxLevel =>
        (Bit(n) \in B <=> \/ Lower(n) \in V /\ Upper(n) \notin V
                          \/ Lower(n) \notin V /\ Upper(n) \in V)

\* Buddies do not stay next to each other.
Merged(V) == \A n \in Nodes : n.level < MaxLevel => ~ (Lower(n) \in V /\ Upper(n) \in V)

\* In a tiling nothing lies inside a block.
LEMMA TileAlone ==
    ASSUME NEW D, Tiles(D), NEW b \in D, NEW c \in D
    PROVE  /\ Units(c) \cap Units(b) # {} => c = b
           /\ b.addr = c.addr => c = b
           /\ ~ Inside(c, b)
<1>1. b \in Nodes /\ c \in Nodes /\ b.level \in Nat
  BY NodeFacts DEF Tiles, Levels
<1>2. c.addr \in Units(c) /\ b.addr \in Units(b)
  BY <1>1, UnitsFacts
<1>. QED BY <1>1, <1>2 DEF Tiles, Inside

\* A block and its halves, or two buddies and their parent.
LEMMA TileSplit ==
    ASSUME NEW D, Tiles(D), NEW b \in D, b.level < MaxLevel
    PROVE  /\ Tiles((D \ {b}) \cup {Lower(b), Upper(b)})
           /\ Lower(b) \notin D /\ Upper(b) \notin D
<1> DEFINE E == (D \ {b}) \cup {Lower(b), Upper(b)}
<1>1. b \in Nodes
  BY DEF Tiles
<1>2. /\ Lower(b) \in Nodes /\ Upper(b) \in Nodes /\ Units(b) = Units(Lower(b)) \cup Units(Upper(b))
      /\ Units(Lower(b)) \cap Units(Upper(b)) = {} /\ Lower(b) # Upper(b)
  BY <1>1, Halves
<1>3. E \subseteq Nodes
  BY <1>2 DEF Tiles
<1>4. \A x \in Addresses : \E c \in E : x \in Units(c)
  BY <1>2 DEF Tiles
<1>5. \A c \in D \ {b} : Units(c) \cap Units(Lower(b)) = {} /\ Units(c) \cap Units(Upper(b)) = {}
  BY <1>2 DEF Tiles
<1>6. \A c, d \in E : c # d => Units(c) \cap Units(d) = {}
  BY <1>2, <1>5 DEF Tiles
<1>7. Lower(b) \notin D /\ Upper(b) \notin D
  <2>1. Lower(b) # b /\ Upper(b) # b
    <3>1. Lower(b).level = b.level + 1 /\ Upper(b).level = b.level + 1 /\ b.level \in Nat
      BY <1>1, NodeFacts, ParentOfHalves DEF Levels
    <3>. QED BY <3>1
  <2>2. Units(Lower(b)) # {} /\ Units(Upper(b)) # {}
    BY <1>2, UnitsFacts
  <2>. QED BY <1>2, <1>5, <2>1, <2>2
<1>. QED BY <1>3, <1>4, <1>6, <1>7 DEF Tiles

LEMMA TileMerge ==
    ASSUME NEW D, Tiles(D), NEW p \in Nodes, p.level < MaxLevel, Lower(p) \in D, Upper(p) \in D
    PROVE  /\ Tiles((D \ {Lower(p), Upper(p)}) \cup {p})
           /\ p \notin D
<1> DEFINE E == (D \ {Lower(p), Upper(p)}) \cup {p}
<1>1. Lower(p) \in Nodes /\ Upper(p) \in Nodes /\ Units(p) = Units(Lower(p)) \cup Units(Upper(p))
  BY Halves
<1>2. E \subseteq Nodes
  BY <1>1 DEF Tiles
<1>3. \A x \in Addresses : \E c \in E : x \in Units(c)
  BY <1>1 DEF Tiles
<1>4. \A c \in D \ {Lower(p), Upper(p)} : Units(c) \cap Units(p) = {}
  BY <1>1 DEF Tiles
<1>5. \A c, d \in E : c # d => Units(c) \cap Units(d) = {}
  BY <1>4 DEF Tiles
<1>6. p \notin D
  <2>1. ~ Inside(Lower(p), p) \/ p \notin D
    BY TileAlone
  <2>2. p.level \in Nat /\ Lower(p).level = p.level + 1
    BY NodeFacts, ParentOfHalves DEF Levels
  <2>. QED BY <1>1, <2>1, <2>2 DEF Inside
<1>. QED BY <1>2, <1>3, <1>5, <1>6 DEF Tiles

\* split() sets the bit of the block.
LEMMA SplitExactSplit ==
    ASSUME NEW D, Tiles(D), NEW b \in D, b.level < MaxLevel, NEW B, SplitExact(B, D)
    PROVE  SplitExact(B \cup {Bit(b)}, (D \ {b}) \cup {Lower(b), Upper(b)})
<1> DEFINE E == (D \ {b}) \cup {Lower(b), Upper(b)}
<1>1. b \in Nodes
  BY DEF Tiles
<1>2. \A n \in Nodes : n.level < MaxLevel => (Bit(n) = Bit(b) <=> n = b)
  BY <1>1, BitFacts
<1>3. \A n \in Nodes : /\ Inside(Lower(b), n) <=> n = b \/ Inside(b, n)
                       /\ Inside(Upper(b), n) <=> n = b \/ Inside(b, n)
  BY <1>1, InsideHalves
<1>4. \A n \in Nodes : (\E c \in E : Inside(c, n)) <=> n = b \/ (\E c \in D : Inside(c, n))
  <2>. TAKE n \in Nodes
  <2>1. ASSUME \E c \in E : Inside(c, n) PROVE n = b \/ (\E c \in D : Inside(c, n))
    BY <1>3, <2>1
  <2>2. ASSUME n = b PROVE \E c \in E : Inside(c, n)
    BY <1>3, <2>2
  <2>3. ASSUME NEW c \in D, Inside(c, n) PROVE \E d \in E : Inside(d, n)
    BY <1>3, <2>3
  <2>. QED BY <2>1, <2>2, <2>3
<1>. QED BY <1>2, <1>4 DEF SplitExact

\* Merging two buddies resets the bit of their parent.
LEMMA SplitExactMerge ==
    ASSUME NEW D, Tiles(D), NEW p \in Nodes, p.level < MaxLevel, Lower(p) \in D, Upper(p) \in D,
           NEW B, SplitExact(B, D)
    PROVE  SplitExact(B \ {Bit(p)}, (D \ {Lower(p), Upper(p)}) \cup {p})
<1> DEFINE E == (D \ {Lower(p), Upper(p)}) \cup {p}
<1>1. \A n \in Nodes : n.level < MaxLevel => (Bit(n) = Bit(p) <=> n = p)
  BY BitFacts
<1>2. \A n \in Nodes : /\ Inside(Lower(p), n) <=> n = p \/ Inside(p, n)
                       /\ Inside(Upper(p), n) <=> n = p \/ Inside(p, n)
  BY InsideHalves
<1>3. Tiles(E) /\ p \in E
  BY TileMerge
<1>4. \A n \in Nodes : (\E c \in E : Inside(c, n)) <=> n # p /\ (\E c \in D : Inside(c, n))
  <2>. TAKE n \in Nodes
  <2>1. ASSUME NEW c \in E, Inside(c, n) PROVE n # p /\ (\E d \in D : Inside(d, n))
    <3>1. n # p
      BY <1>3, <2>1, TileAlone
    <3>. QED BY <1>2, <2>1, <3>1
  <2>2. ASSUME n # p, NEW c \in D, Inside(c, n) PROVE \E d \in E : Inside(d, n)
    BY <1>2, <2>2
  <2>. QED BY <2>1, <2>2
<1>. QED BY <1>1, <1>4 DEF SplitExact

\* Flipping the bit of a block for a block that leaves or joins V.
LEMMA PairsFlip ==
    ASSUME NEW B, NEW V, PairsExact(B, V), NEW b \in Nodes, b.level > 0
    PROVE  PairsExact(SymDiff(B, {Bit(Parent(b))}), SymDiff(V, {b}))
<1> DEFINE p == Parent(b)
<1>1. p \in Nodes /\ p.level < MaxLevel /\ (b = Lower(p) \/ b = Upper(p))
  BY ParentFacts
<1>2. Lower(p) # Upper(p)
  BY <1>1, Halves
<1>3. \A n \in Nodes : n.level < MaxLevel => (Bit(n) = Bit(p) <=> n = p)
  BY <1>1, BitFacts
<1>4. \A n \in Nodes : n.level < MaxLevel /\ n # p => Lower(n) # b /\ Upper(n) # b
  BY ParentOfHalves
<1> DEFINE C == SymDiff(B, {Bit(p)})
           W == SymDiff(V, {b})
<1>5. ASSUME NEW n \in Nodes, n.level < MaxLevel, n # p
      PROVE  Bit(n) \in C <=> \/ Lower(n) \in W /\ Upper(n) \notin W
                              \/ Lower(n) \notin W /\ Upper(n) \in W
  <2>1. Bit(n) \in C <=> Bit(n) \in B
    BY <1>3, <1>5 DEF SymDiff
  <2>2. (Lower(n) \in W <=> Lower(n) \in V) /\ (Upper(n) \in W <=> Upper(n) \in V)
    BY <1>4, <1>5 DEF SymDiff
  <2>. QED BY <2>1, <2>2, <1>5 DEF PairsExact
<1>6. Bit(p) \in C <=> \/ Lower(p) \in W /\ Upper(p) \notin W
                       \/ Lower(p) \notin W /\ Upper(p) \in W
  <2>1. Bit(p) \in C <=> Bit(p) \notin B
    BY DEF SymDiff
  <2>2. \A x : x \in W <=> IF x = b THEN x \notin V ELSE x \in V
    BY DEF SymDiff
  <2>3. Bit(p) \in B <=> \/ Lower(p) \in V /\ Upper(p) \notin V
                         \/ Lower(p) \notin V /\ Upper(p) \in V
    BY <1>1 DEF PairsExact
  <2>. HIDE DEF C, W, p
  <2>. QED BY <1>1, <1>2, <2>1, <2>2, <2>3
<1>. QED BY <1>5, <1>6 DEF PairsExact

LEMMA PairsRoot ==
    ASSUME NEW B, NEW V, PairsExact(B, V), NEW b \in Nodes, b.level = 0
    PROVE  PairsExact(B, SymDiff(V, {b}))
<1>1. \A n \in Nodes : n.level < MaxLevel => Lower(n) # b /\ Upper(n) # b
  BY ParentOfHalves
<1> DEFINE W == SymDiff(V, {b})
<1>2. \A n \in Nodes : n.level < MaxLevel => /\ Lower(n) \in W <=> Lower(n) \in V
                                             /\ Upper(n) \in W <=> Upper(n) \in V
  BY <1>1 DEF SymDiff
<1>. QED BY <1>2 DEF PairsExact

\* Two buddies that join or leave V together leave the bits alone.
LEMMA PairsBoth ==
    ASSUME NEW B, NEW V, NEW W, PairsExact(B, V), NEW p \in Nodes, p.level < MaxLevel,
           Lower(p) \in V <=> Upper(p) \in V, Lower(p) \in W <=> Upper(p) \in W,
           \A x : x \notin {Lower(p), Upper(p)} => (x \in V <=> x \in W)
    PROVE  PairsExact(B, W)
<1>1. \A n \in Nodes : n.level < MaxLevel /\ n # p =>
          Lower(n) \notin {Lower(p), Upper(p)} /\ Upper(n) \notin {Lower(p), Upper(p)}
  BY ParentOfHalves
<1>2. ASSUME NEW n \in Nodes, n.level < MaxLevel, n # p
      PROVE  (Lower(n) \in W <=> Lower(n) \in V) /\ (Upper(n) \in W <=> Upper(n) \in V)
  BY <1>1, <1>2
<1>. QED BY <1>2 DEF PairsExact

\* What the bit says to a block that has just joined V.
LEMMA PairsRead ==
    ASSUME NEW B, NEW V, PairsExact(B, V), NEW b \in Nodes, b.level > 0, b \in V
    PROVE  Bit(Parent(b)) \in B <=> Buddy(b) \notin V
<1>1. Parent(b) \in Nodes /\ Parent(b).level < MaxLevel
  BY ParentFacts
<1>2. \/ b = Lower(Parent(b)) /\ Buddy(b) = Upper(Parent(b))
      \/ b = Upper(Parent(b)) /\ Buddy(b) = Lower(Parent(b))
  BY BuddyFacts
<1>. QED BY <1>1, <1>2 DEF PairsExact

\* The level that allocation_level() reads from the split bits.
LEMMA LevelFound ==
    ASSUME NEW D, Tiles(D), NEW B, SplitExact(B, D), NEW b \in D
    PROVE  Max({0} \cup {l \in 1 .. MaxLevel : get_bit(B, split_bit_index(b.addr, l - 1))}) = b.level
<1> DEFINE S == {0} \cup {l \in 1 .. MaxLevel : get_bit(B, split_bit_index(b.addr, l - 1))}
           Above(l) == [addr |-> index_in_level(b.addr, l) * size_from_level(l), level |-> l]
<1>1. b \in Nodes /\ b.level \in 0 .. MaxLevel /\ b.addr \in Addresses /\ MaxLevel \in Nat
  BY NodeFacts, LevelAssumption DEF Tiles, Levels
<1>2. ASSUME NEW l \in 0 .. (MaxLevel - 1)
      PROVE  /\ Above(l) \in Nodes /\ Above(l).level = l /\ l < MaxLevel
             /\ index_in_level(Above(l).addr, l) = index_in_level(b.addr, l)
             /\ split_bit_index(b.addr, l) = Bit(Above(l))
  <2>1. l \in Levels /\ l < MaxLevel
    BY <1>1 DEF Levels
  <2>2. index_in_level(b.addr, l) \in 0 .. (2 ^ l - 1)
    BY <1>1, <2>1, IndexFacts
  <2>3. Above(l) \in Nodes /\ index_in_level(Above(l).addr, l) = index_in_level(b.addr, l)
    BY <2>1, <2>2, PositionFacts
  <2>. QED BY <2>1, <2>3 DEF Bit, split_bit_index
<1> HIDE DEF Above
<1>3. ASSUME NEW l \in 1 .. MaxLevel PROVE l \in S <=> l <= b.level
  <2>1. l - 1 \in 0 .. (MaxLevel - 1)
    BY <1>1
  <2> DEFINE n == Above(l - 1)
  <2>2. n \in Nodes /\ n.level = l - 1 /\ n.level < MaxLevel
        /\ index_in_level(n.addr, l - 1) = index_in_level(b.addr, l - 1)
        /\ split_bit_index(b.addr, l - 1) = Bit(n)
    BY <2>1, <1>2
  <2>3. l \in S <=> \E c \in D : Inside(c, n)
    <3>1. l \in S <=> Bit(n) \in B
      BY <2>2 DEF get_bit
    <3>. QED BY <2>2, <3>1 DEF SplitExact
  <2>. HIDE DEF n
  <2>4. ASSUME l <= b.level PROVE Inside(b, n)
    BY <1>1, <2>2, <2>4, InsideIndex
  <2>5. ASSUME l > b.level, NEW c \in D, Inside(c, n) PROVE FALSE
    <3>1. b.level <= n.level
      BY <1>1, <2>2, <2>5
    <3>2. index_in_level(b.addr, b.level) = index_in_level(n.addr, b.level)
      BY <1>1, <2>1, <2>2, <3>1, IndexAbove, NodeFacts
    <3>3. Units(n) \subseteq Units(b)
      BY <1>1, <2>2, <3>1, <3>2, Nesting
    <3>4. Inside(c, b)
      <4>1. c.level \in Int
        BY NodeFacts DEF Tiles, Levels
      <4>. QED BY <1>1, <2>2, <2>5, <3>1, <3>3, <4>1 DEF Inside
    <3>. QED BY <3>4, TileAlone
  <2>. QED BY <1>1, <2>3, <2>4, <2>5
<1>4. S \in SUBSET (0 .. MaxLevel) /\ S # {} /\ b.level \in S /\ \A l \in S : l <= b.level
  <2>1. \A l \in S : l = 0 \/ l \in 1 .. MaxLevel
    OBVIOUS
  <2>. HIDE DEF S
  <2>2. 0 \in S
    BY DEF S
  <2>. QED BY <1>1, <1>3, <2>1, <2>2
<1> HIDE DEF S
<1>5. Max(S) \in S /\ \A l \in S : Max(S) >= l
  BY <1>1, <1>4, GreatestNatural
<1>6. Max(S) = b.level
  <2> DEFINE m == Max(S)
  <2>1. m \in 0 .. MaxLevel /\ m <= b.level /\ m >= b.level
    BY <1>4, <1>5
  <2>. HIDE DEF m
  <2>. QED BY <1>1, <2>1 DEF m
<1>. QED BY <1>6 DEF S
-----------------------------------------------------------------------------
(***************************************************************************)
(* Logarithms and sizes                                                    *)
(***************************************************************************)
LEMMA IntBitsFacts ==
    /\ IntBits \in Nat /\ IntBits >= 2 /\ MaxLevel \in Nat /\ LeafBits \in Nat
    /\ MaxLevel + LeafBits <= IntBits - 2
BY LevelAssumption

\* The remainders of a power of two.
LEMMA PowerRemainder ==
    ASSUME NEW m \in Nat, NEW k \in Nat
    PROVE  2 ^ m % 2 ^ (k + 1) = IF k < m THEN 0 ELSE 2 ^ m
<1>1. 2 ^ m \in Nat /\ 2 ^ (k + 1) \in Nat /\ 2 ^ (k + 1) >= 1
  BY PowerType
<1>2. CASE k < m
  <2>1. m = (m - k - 1) + (k + 1) /\ m - k - 1 \in Nat /\ k + 1 \in Nat
    BY <1>2
  <2>2. 2 ^ m = 2 ^ (m - k - 1) * 2 ^ (k + 1) /\ 2 ^ (m - k - 1) \in Nat
    BY <2>1, PowerSum, PowerType
  <2>3. 2 ^ m % 2 ^ (k + 1) = 0
    <3>1. \A a, s \in Nat : s >= 1 => (a * s) % s = 0
      BY ProductOrder
    <3>. QED BY <1>1, <2>2, <3>1
  <2>. QED BY <1>2, <2>3
<1>3. CASE ~ (k < m)
  <2>1. m < k + 1 /\ k + 1 \in Nat
    BY <1>3
  <2>2. 2 ^ m < 2 ^ (k + 1)
    BY <2>1, PowerOrder
  <2>3. \A x, y \in Nat : x < y => x % y = x
    OBVIOUS
  <2>. QED BY <1>1, <1>3, <2>2, <2>3
<1>. QED BY <1>2, <1>3

LEMMA LogOfPower ==
    ASSUME NEW m \in 0 .. IntBits
    PROVE  log2(2 ^ m) = m
<1>1. m \in Nat
  BY IntBitsFacts
<1>2. 2 ^ m % 2 ^ (m + 1) = 2 ^ m
  BY <1>1, PowerRemainder
<1>3. ASSUME NEW k \in 0 .. IntBits, 2 ^ m % 2 ^ (k + 1) = 2 ^ k PROVE k = m
  <2>1. k \in Nat /\ 2 ^ k >= 1 /\ 2 ^ k \in Nat
    BY PowerType, IntBitsFacts
  <2>2. ~ (k < m)
    BY <1>1, <1>3, <2>1, PowerRemainder
  <2>3. 2 ^ m = 2 ^ k
    BY <1>1, <1>3, <2>1, <2>2, PowerRemainder
  <2>. QED BY <1>1, <2>1, <2>3, PowerOrder
<1>. QED BY <1>2, <1>3 DEF log2

LEMMA LogFacts ==
    ASSUME NEW n \in 1 .. 2 ^ IntBits
    PROVE  log2(n) \in 0 .. IntBits /\ n % 2 ^ (log2(n) + 1) = 2 ^ log2(n)
<1> DEFINE T == {k \in Nat : n % 2 ^ (k + 1) # 0}
<1>1. n \in Nat /\ n >= 1 /\ IntBits \in Nat /\ 2 ^ IntBits \in Nat /\ n <= 2 ^ IntBits
  BY IntBitsFacts, PowerType
<1>2. IntBits \in T
  <2>1. n < 2 ^ (IntBits + 1)
    BY <1>1, PowerNext
  <2>2. \A x, y \in Nat : x < y => x % y = x
    OBVIOUS
  <2>3. n % 2 ^ (IntBits + 1) = n
    BY <1>1, <2>1, <2>2, PowerType
  <2>. QED BY <1>1, <2>3
<1>3. PICK k \in T : \A j \in T : k <= j
  <2>1. T \in SUBSET Nat /\ T # {}
    BY <1>2
  <2>. HIDE DEF T
  <2>. QED BY <2>1, LeastNatural
<1>4. k \in 0 .. IntBits
  BY <1>1, <1>2, <1>3
<1>5. n % 2 ^ (k + 1) = 2 ^ k
  <2> DEFINE p == 2 ^ k
  <2>1. p \in Nat /\ p >= 1 /\ 2 ^ (k + 1) = 2 * p
    BY PowerType, PowerNext
  <2>2. n % p = 0
    <3>1. CASE k = 0
      <4>1. p = 1
        BY <3>1, PowerZero
      <4>. QED BY <1>1, <4>1
    <3>2. CASE k # 0
      <4>1. k - 1 \in Nat /\ k - 1 \notin T /\ (k - 1) + 1 = k
        <5>1. k \in Nat
          OBVIOUS
        <5>. HIDE DEF T
        <5>. QED BY <1>3, <3>2, <5>1
      <4>. QED BY <4>1
    <3>. QED BY <3>1, <3>2
  <2>3. n % (2 * p) # 0
    BY <1>3, <2>1
  <2>. HIDE DEF p
  <2>4. n % (2 * p) = p
    <3> DEFINE a == n \div p
               b == n \div (2 * p)
    <3>1. a \in Nat /\ n = a * p
      <4>1. a \in Nat /\ n % p = n - a * p
        BY <1>1, <2>1, DivisionBounds
      <4>2. a * p \in Nat
        <5>. HIDE DEF a
        <5>. QED BY <2>1, <4>1, ProductOrder
      <4>. HIDE DEF a
      <4>. QED BY <1>1, <2>2, <4>1, <4>2
    <3>2. 2 * p \in Nat /\ 2 * p >= 1
      BY <2>1
    <3>3. b \in Nat /\ b * (2 * p) <= n /\ n < b * (2 * p) + 2 * p /\ n % (2 * p) = n - b * (2 * p)
      BY <1>1, <3>2, DivisionBounds
    <3>. HIDE DEF a, b
    <3>4. b * (2 * p) = (2 * b) * p /\ (2 * b) * p \in Nat /\ (2 * b + 1) * p = (2 * b) * p + p
          /\ (2 * b + 2) * p = (2 * b) * p + 2 * p
      BY <2>1, <3>3
    <3>5. (2 * b) * p < a * p /\ a * p < (2 * b + 2) * p
      BY <1>1, <2>1, <2>3, <3>1, <3>3, <3>4
    <3>6. 2 * b < a /\ a < 2 * b + 2
      <4>1. 2 * b \in Nat /\ 2 * b + 2 \in Nat
        BY <3>3
      <4>. QED BY <2>1, <3>1, <3>5, <4>1, ProductOrder
    <3>7. a = 2 * b + 1
      BY <3>1, <3>3, <3>6
    <3>. QED BY <2>1, <3>1, <3>3, <3>4, <3>7
  <2>. QED BY <2>1, <2>4 DEF p
<1>. QED BY <1>4, <1>5 DEF log2

LEMMA FloorFacts ==
    ASSUME NEW n \in 1 .. 2 ^ IntBits
    PROVE  /\ FloorLog(n) \in 0 .. IntBits
           /\ 2 ^ FloorLog(n) <= n /\ n < 2 * 2 ^ FloorLog(n)
<1> DEFINE T == {k \in Nat : n < 2 ^ (k + 1)}
<1>1. n \in Nat /\ n >= 1 /\ IntBits \in Nat /\ 2 ^ IntBits \in Nat /\ n <= 2 ^ IntBits
  BY IntBitsFacts, PowerType
<1>2. IntBits \in T
  <2>1. 2 ^ IntBits < 2 ^ (IntBits + 1)
    BY <1>1, PowerNext, PowerType
  <2>. QED BY <1>1, <2>1, PowerType
<1>3. PICK k \in T : \A j \in T : k <= j
  <2>1. T \in SUBSET Nat /\ T # {}
    BY <1>2
  <2>. HIDE DEF T
  <2>. QED BY <2>1, LeastNatural
<1>4. k \in 0 .. IntBits
  BY <1>1, <1>2, <1>3
<1>5. 2 ^ k <= n
  <2>1. CASE k = 0
    BY <1>1, <2>1, PowerZero
  <2>2. CASE k # 0
    <3>1. k - 1 \in Nat /\ k - 1 \notin T /\ (k - 1) + 1 = k
      BY <1>3, <2>2
    <3>. QED BY <1>1, <3>1, PowerType
  <2>. QED BY <2>1, <2>2
<1>6. n \in 2 ^ k .. (2 ^ (k + 1) - 1)
  <2>1. n < 2 ^ (k + 1) /\ 2 ^ (k + 1) \in Nat /\ 2 ^ k \in Nat
    BY <1>3, PowerType
  <2>. QED BY <1>1, <1>5, <2>1
<1>7. FloorLog(n) \in 0 .. IntBits /\ n \in 2 ^ FloorLog(n) .. (2 ^ (FloorLog(n) + 1) - 1)
  BY <1>4, <1>6 DEF FloorLog
<1> DEFINE f == FloorLog(n)
<1>8. f \in Nat /\ 2 ^ (f + 1) = 2 * 2 ^ f /\ 2 ^ f \in Nat
  BY <1>1, <1>7, PowerNext, PowerType
<1>. HIDE DEF f
<1>9. 2 ^ f <= n /\ n < 2 * 2 ^ f
  <2>1. n \in 2 ^ f .. (2 ^ (f + 1) - 1)
    BY <1>7 DEF f
  <2>. QED BY <1>1, <1>8, <2>1
<1>. QED BY <1>7, <1>9 DEF f

\* The exponent of the smallest power of two that is not below the size.
CeilLog(size) == IF log2(size) = FloorLog(size) THEN FloorLog(size) ELSE FloorLog(size) + 1

\* The sizes a caller can ask for.
Requests == 1 .. 2 ^ (IntBits - 1)

LEMMA CeilLogFacts ==
    ASSUME NEW size \in Requests
    PROVE  /\ CeilLog(size) \in 0 .. (IntBits - 1)
           /\ \A e \in Nat : size <= 2 ^ e <=> CeilLog(size) <= e
           /\ ceil_to_power_of_two(size) =
                 IF CeilLog(size) = IntBits - 1 THEN -(2 ^ CeilLog(size)) ELSE 2 ^ CeilLog(size)
<1> DEFINE f == FloorLog(size)
           b == CeilLog(size)
<1>1. /\ IntBits \in Nat /\ IntBits - 1 \in Nat /\ 2 ^ (IntBits - 1) \in Nat
      /\ 2 ^ IntBits = 2 * 2 ^ (IntBits - 1)
  <2>1. IntBits \in Nat /\ IntBits - 1 \in Nat /\ (IntBits - 1) + 1 = IntBits
    BY IntBitsFacts
  <2>. QED BY <2>1, PowerType, PowerNext
<1>2. size \in Nat /\ size >= 1 /\ size <= 2 ^ (IntBits - 1) /\ size \in 1 .. 2 ^ IntBits
  BY <1>1 DEF Requests
<1>3. f \in Nat /\ 2 ^ f <= size /\ size < 2 * 2 ^ f /\ 2 ^ f \in Nat /\ 2 ^ (f + 1) = 2 * 2 ^ f
  BY <1>2, FloorFacts, PowerType, PowerNext, IntBitsFacts
<1>4. log2(size) = f <=> size = 2 ^ f
  <2>1. ASSUME log2(size) = f PROVE size = 2 ^ f
    <3>1. size % 2 ^ (f + 1) = 2 ^ f
      BY <1>2, <2>1, LogFacts
    <3>2. \A x, y \in Nat : x < y => x % y = x
      OBVIOUS
    <3>3. 2 ^ (f + 1) \in Nat
      BY <1>3, PowerType
    <3>. QED BY <1>2, <1>3, <3>1, <3>2, <3>3
  <2>2. ASSUME size = 2 ^ f PROVE log2(size) = f
    <3>1. f \in 0 .. IntBits
      BY <1>2, FloorFacts
    <3>. HIDE DEF f
    <3>. QED BY <2>2, <3>1, LogOfPower
  <2>. QED BY <2>1, <2>2
<1>5. b = IF size = 2 ^ f THEN f ELSE f + 1
  BY <1>4 DEF CeilLog
<1> HIDE DEF f, b
<1>6. b \in Nat /\ size <= 2 ^ b
  BY <1>2, <1>3, <1>5
<1>7. ASSUME NEW e \in Nat, e < b PROVE 2 ^ e < size
  <2>1. CASE size = 2 ^ f
    BY <1>3, <1>5, <1>7, <2>1, PowerOrder
  <2>2. CASE size # 2 ^ f
    <3>1. e <= f
      BY <1>3, <1>5, <1>7, <2>2
    <3>2. 2 ^ e <= 2 ^ f /\ 2 ^ e \in Nat
      BY <1>3, <3>1, PowerOrder, PowerType
    <3>. QED BY <1>2, <1>3, <2>2, <3>2
  <2>. QED BY <2>1, <2>2
<1>8. \A e \in Nat : size <= 2 ^ e <=> b <= e
  <2>. TAKE e \in Nat
  <2>1. 2 ^ e \in Nat
    BY PowerType
  <2>2. CASE e < b
    BY <1>2, <1>6, <1>7, <2>1, <2>2
  <2>3. CASE b <= e
    <3>1. 2 ^ b <= 2 ^ e /\ 2 ^ b \in Nat
      BY <1>6, <2>3, PowerOrder, PowerType
    <3>. QED BY <1>2, <1>6, <2>1, <2>3, <3>1
  <2>. QED BY <1>6, <2>2, <2>3
<1>9. b \in 0 .. (IntBits - 1)
  BY <1>1, <1>2, <1>6, <1>8
<1>10. ceil_to_power_of_two(size) = IF b = IntBits - 1 THEN -(2 ^ b) ELSE 2 ^ b
  <2>1. ~ (size < 0)
    BY <1>2
  <2>. QED BY <2>1 DEF ceil_to_power_of_two, CeilLog, b
<1>. QED BY <1>8, <1>9, <1>10 DEF b

\* A power of two stays as it is, a negative number becomes 1.
LEMMA CeilOfPower ==
    ASSUME NEW e \in 0 .. (IntBits - 2)
    PROVE  /\ ceil_to_power_of_two(2 ^ e) = 2 ^ e
           /\ level_from_size(2 ^ e) = MaxLevel + LeafBits - e
<1>1. e \in Nat /\ IntBits - 1 \in Nat /\ e <= IntBits - 1 /\ e \in 0 .. IntBits /\ e # IntBits - 1
  BY IntBitsFacts
<1>2. 2 ^ e \in Requests
  <2>1. 2 ^ e <= 2 ^ (IntBits - 1) /\ 2 ^ e \in Nat /\ 2 ^ e >= 1 /\ 2 ^ (IntBits - 1) \in Nat
    BY <1>1, PowerOrder, PowerType
  <2>. QED BY <2>1 DEF Requests
<1>3. CeilLog(2 ^ e) = e
  <2> DEFINE b == CeilLog(2 ^ e)
  <2>1. b \in Nat /\ \A d \in Nat : 2 ^ e <= 2 ^ d <=> b <= d
    BY <1>1, <1>2, CeilLogFacts
  <2>. HIDE DEF b
  <2>2. b <= e /\ 2 ^ e <= 2 ^ b
    BY <1>1, <2>1, PowerType
  <2>3. e <= b
    BY <1>1, <2>1, <2>2, PowerOrder
  <2>4. b = e
    BY <1>1, <2>1, <2>2, <2>3
  <2>. QED BY <2>4 DEF b
<1>4. ceil_to_power_of_two(2 ^ e) = 2 ^ e
  BY <1>1, <1>2, <1>3, CeilLogFacts
<1>5. level_from_size(2 ^ e) = MaxLevel + LeafBits - e
  BY <1>1, LogOfPower DEF level_from_size
<1>. QED BY <1>4, <1>5

\* The bytes of a block.
LEMMA BytesFacts ==
    ASSUME NEW l \in Levels
    PROVE  /\ MaxLevel + LeafBits - l \in 0 .. (IntBits - 2)
           /\ Bytes(size_from_level(l)) = 2 ^ (MaxLevel + LeafBits - l)
           /\ ceil_to_power_of_two(Bytes(size_from_level(l))) = Bytes(size_from_level(l))
           /\ level_from_size(Bytes(size_from_level(l))) = l
<1>1. /\ MaxLevel - l \in Nat /\ LeafBits \in Nat /\ l \in Nat /\ MaxLevel \in Nat
      /\ (MaxLevel - l) + LeafBits = MaxLevel + LeafBits - l
      /\ MaxLevel + LeafBits - l \in 0 .. (IntBits - 2)
      /\ MaxLevel + LeafBits - (MaxLevel + LeafBits - l) = l
  BY IntBitsFacts DEF Levels
<1>2. Bytes(size_from_level(l)) = 2 ^ (MaxLevel + LeafBits - l)
  BY <1>1, PowerSum DEF Bytes, size_from_level
<1>. QED BY <1>1, <1>2, CeilOfPower

LEMMA MaxIs ==
    ASSUME NEW S \in SUBSET Int, NEW m \in S, \A y \in S : m >= y
    PROVE  Max(S) = m
<1>1. \A x \in S : (\A y \in S : x >= y) => x = m
  BY DEF Max
<1>2. \E x \in S : \A y \in S : x >= y
  OBVIOUS
<1>. QED BY <1>1, <1>2 DEF Max

\* The level a size calls for is given by its exponent.
LEMMA FittingFacts ==
    ASSUME NEW size \in Requests
    PROVE  LET e == CeilLog(size)
               n == MaxLevel + LeafBits
           IN  Fitting(size) = IF e > n THEN -1 ELSE IF e < LeafBits THEN MaxLevel ELSE n - e
<1> DEFINE e == CeilLog(size)
           n == MaxLevel + LeafBits
           S == {-1} \cup {l \in Levels : Bytes(size_from_level(l)) >= size}
           m == IF e > n THEN -1 ELSE IF e < LeafBits THEN MaxLevel ELSE n - e
<1>1. e \in Nat /\ n \in Nat /\ MaxLevel \in Nat /\ LeafBits \in Nat /\ size \in Nat
  <2>1. IntBits - 1 \in Nat
    BY IntBitsFacts
  <2>. QED BY <2>1, CeilLogFacts, IntBitsFacts, PowerType DEF Requests
<1>2. ASSUME NEW l \in Levels PROVE l \in S <=> e <= n - l
  <2>1. n - l \in Nat /\ l # -1
    BY IntBitsFacts DEF Levels
  <2>2. Bytes(size_from_level(l)) = 2 ^ (n - l) /\ 2 ^ (n - l) \in Nat
    <3>1. Bytes(size_from_level(l)) = 2 ^ (n - l)
      BY BytesFacts, IntBitsFacts DEF Levels
    <3>. HIDE DEF n
    <3>. QED BY <2>1, <3>1, PowerType
  <2>3. size <= 2 ^ (n - l) <=> e <= n - l
    BY <2>1, CeilLogFacts
  <2>4. l \in S <=> Bytes(size_from_level(l)) >= size
    BY <2>1
  <2>. HIDE DEF S, e, n
  <2>. QED BY <1>1, <2>1, <2>2, <2>3, <2>4
<1>3. S \in SUBSET Int /\ -1 \in S /\ \A l \in S : l = -1 \/ l \in Levels
  BY DEF Levels
<1> HIDE DEF S, e, n
<1>4. m \in S /\ \A l \in S : m >= l
  <2>1. \A l \in Levels : l \in 0 .. MaxLevel
    BY DEF Levels
  <2>2. CASE e > n
    <3>1. \A l \in S : l = -1
      BY <1>1, <1>2, <1>3, <2>1, <2>2
    <3>. QED BY <1>3, <2>2, <3>1
  <2>3. CASE ~ (e > n) /\ e < LeafBits
    <3>1. MaxLevel \in Levels /\ e <= n - MaxLevel
      BY <1>1, <2>3 DEF n, Levels
    <3>2. m = MaxLevel
      BY <2>3
    <3>. QED BY <1>1, <1>2, <1>3, <2>1, <3>1, <3>2
  <2>4. CASE ~ (e > n) /\ ~ (e < LeafBits)
    <3>1. n - e \in Levels /\ e <= n - (n - e)
      BY <1>1, <2>4 DEF n, Levels
    <3>2. m = n - e
      BY <2>4
    <3>3. m \in S
      BY <1>2, <3>1, <3>2
    <3>4. \A l \in S : m >= l
      BY <1>1, <1>2, <1>3, <2>1, <2>4, <3>2
    <3>. QED BY <3>3, <3>4
  <2>. QED BY <2>2, <2>3, <2>4
<1>5. Max(S) = m
  BY <1>3, <1>4, MaxIs
<1>. QED BY <1>5 DEF Fitting, S, e, n

\* A request that is affordable is for a level, or for less than a leaf.
LEMMA AffordableFacts ==
    ASSUME NEW size \in Requests, NEW f \in Nat, f <= 2 ^ MaxLevel,
           0 < ceil_to_power_of_two(size), ceil_to_power_of_two(size) <= Bytes(f),
           LevelFor(size) <= MaxLevel
    PROVE  /\ LevelFor(size) \in Levels /\ Fitting(size) = LevelFor(size)
           /\ ceil_to_power_of_two(size) = Bytes(size_from_level(LevelFor(size)))
<1> DEFINE e == CeilLog(size)
           n == MaxLevel + LeafBits
<1>1. e \in 0 .. (IntBits - 1) /\ n \in Nat /\ n <= IntBits - 2 /\ IntBits \in Nat
      /\ MaxLevel \in Nat /\ LeafBits \in Nat
  BY CeilLogFacts, IntBitsFacts
<1>2. 2 ^ e \in Nat /\ 2 ^ e >= 1
  BY <1>1, PowerType
<1>3. ceil_to_power_of_two(size) = 2 ^ e /\ e \in 0 .. (IntBits - 2)
  <2>1. e # IntBits - 1
    <3>1. ASSUME e = IntBits - 1 PROVE FALSE
      <4>1. ceil_to_power_of_two(size) = -(2 ^ e)
        BY <3>1, CeilLogFacts
      <4>. QED BY <1>2, <4>1
    <3>. QED BY <3>1
  <2>. QED BY <1>1, <2>1, CeilLogFacts
<1>4. Bytes(f) <= 2 ^ n
  <2>1. 2 ^ n = 2 ^ MaxLevel * 2 ^ LeafBits /\ 2 ^ MaxLevel \in Nat /\ 2 ^ LeafBits \in Nat
        /\ 2 ^ LeafBits >= 1
    BY <1>1, PowerSum, PowerType
  <2>2. f * 2 ^ LeafBits <= 2 ^ MaxLevel * 2 ^ LeafBits
    BY <2>1, ProductOrder
  <2>. QED BY <2>1, <2>2 DEF Bytes
<1>5. e <= n
  <2>1. 2 ^ e <= 2 ^ n
    <3>1. Bytes(f) \in Nat /\ 2 ^ n \in Nat
      <4>1. 2 ^ LeafBits \in Nat /\ 2 ^ LeafBits >= 1 /\ 2 ^ n \in Nat
        BY <1>1, PowerType
      <4>. QED BY <4>1, ProductOrder DEF Bytes
    <3>. QED BY <1>2, <1>3, <1>4, <3>1
  <2>. HIDE DEF e, n
  <2>. QED BY <1>1, <2>1, PowerOrder
<1>6. LevelFor(size) = n - e
  <2>1. level_from_size(2 ^ e) = n - e
    <3>. HIDE DEF e
    <3>. QED BY <1>3, CeilOfPower, IntBitsFacts
  <2>. HIDE DEF e, n
  <2>. QED BY <1>3, <2>1 DEF LevelFor
<1>7. ~ (e < LeafBits) /\ n - e \in Levels
  <2>1. n - e <= MaxLevel
    BY <1>6
  <2>2. n = MaxLevel + LeafBits
    OBVIOUS
  <2>. HIDE DEF e, n
  <2>. QED BY <1>1, <1>5, <2>1, <2>2 DEF Levels
<1>8. Fitting(size) = n - e
  <2>1. ~ (e > n)
    <3>. HIDE DEF e, n
    <3>. QED BY <1>1, <1>5
  <2>. QED BY <1>7, <2>1, FittingFacts
<1>9. Bytes(size_from_level(n - e)) = 2 ^ e
  <2>1. n - (n - e) = e
    <3>. HIDE DEF e, n
    <3>. QED BY <1>1
  <2>2. Bytes(size_from_level(n - e)) = 2 ^ (n - (n - e))
    <3>. HIDE DEF e
    <3>. QED BY <1>1, <1>7, BytesFacts DEF Levels
  <2>. HIDE DEF e, n
  <2>. QED BY <2>1, <2>2
<1>. QED BY <1>3, <1>6, <1>7, <1>8, <1>9

LEMMA FittingType ==
    ASSUME NEW size \in Requests
    PROVE  /\ Fitting(size) \in Levels \cup {-1}
           /\ Fitting(size) # -1 => CeilLog(size) <= MaxLevel + LeafBits - Fitting(size)
<1> DEFINE e == CeilLog(size)
<1>1. e \in Nat
  <2>1. IntBits - 1 \in Nat
    BY IntBitsFacts
  <2>. QED BY <2>1, CeilLogFacts
<1>2. Fitting(size) = IF e > MaxLevel + LeafBits THEN -1
                      ELSE IF e < LeafBits THEN MaxLevel ELSE MaxLevel + LeafBits - e
  BY <1>1, FittingFacts, IntBitsFacts
<1>. HIDE DEF e
<1>3. /\ Fitting(size) \in Levels \cup {-1}
      /\ Fitting(size) # -1 => e <= MaxLevel + LeafBits - Fitting(size)
  BY <1>1, <1>2, IntBitsFacts DEF Levels
<1>. QED BY <1>3 DEF e

LEMMA PositiveCeil ==
    ASSUME NEW size \in Requests, ceil_to_power_of_two(size) > 0
    PROVE  /\ CeilLog(size) \in 0 .. (IntBits - 2)
           /\ ceil_to_power_of_two(size) = 2 ^ CeilLog(size)
           /\ ceil_to_power_of_two(ceil_to_power_of_two(size)) = ceil_to_power_of_two(size)
<1> DEFINE e == CeilLog(size)
<1>1. e \in 0 .. (IntBits - 1) /\ IntBits \in Nat
      /\ ceil_to_power_of_two(size) = IF e = IntBits - 1 THEN -(2 ^ e) ELSE 2 ^ e
  BY CeilLogFacts, IntBitsFacts
<1> HIDE DEF e
<1>2. 2 ^ e \in Nat /\ 2 ^ e >= 1
  BY <1>1, PowerType
<1>3. e # IntBits - 1
  BY <1>1, <1>2
<1>4. e \in 0 .. (IntBits - 2) /\ ceil_to_power_of_two(size) = 2 ^ e
  BY <1>1, <1>3
<1>5. ceil_to_power_of_two(2 ^ e) = 2 ^ e
  BY <1>4, CeilOfPower
<1>. QED BY <1>4, <1>5 DEF e

\* krealloc() to the size the block has.
LEMMA SameSizeFacts ==
    ASSUME NEW size \in Requests, NEW l \in Levels,
           ceil_to_power_of_two(size) = Bytes(size_from_level(l))
    PROVE  Fitting(size) = l
<1> DEFINE e == CeilLog(size)
           d == MaxLevel + LeafBits - l
<1>1. d \in 0 .. (IntBits - 2) /\ ceil_to_power_of_two(size) = 2 ^ d
  BY BytesFacts
<1>2. d \in Nat /\ 2 ^ d \in Nat /\ 2 ^ d >= 1
  <2>1. d \in Nat
    BY <1>1, IntBitsFacts
  <2>. HIDE DEF d
  <2>. QED BY <2>1, PowerType
<1>3. e \in Nat /\ ceil_to_power_of_two(size) = 2 ^ e
  <2>1. ceil_to_power_of_two(size) > 0
    BY <1>1, <1>2
  <2>2. CeilLog(size) \in 0 .. (IntBits - 2) /\ ceil_to_power_of_two(size) = 2 ^ CeilLog(size)
    BY <2>1, PositiveCeil
  <2>. QED BY <2>2, IntBitsFacts
<1>4. e = d
  <2>. HIDE DEF d, e
  <2>. QED BY <1>1, <1>2, <1>3, PowerOrder
<1>5. l \in Nat /\ l <= MaxLevel
  BY DEF Levels
<1>6. Fitting(size) = IF e > MaxLevel + LeafBits THEN -1
                      ELSE IF e < LeafBits THEN MaxLevel ELSE MaxLevel + LeafBits - e
  BY <1>3, FittingFacts, IntBitsFacts
<1>7. e = MaxLevel + LeafBits - l
  BY <1>4
<1>. HIDE DEF e, d
<1>. QED BY <1>3, <1>5, <1>6, <1>7, IntBitsFacts

\* Too little is free for a block of the level that the size calls for.
LEMMA ExhaustedFacts ==
    ASSUME NEW size \in Requests, NEW f \in Nat,
           ~ (0 < ceil_to_power_of_two(size) /\ ceil_to_power_of_two(size) <= Bytes(f)),
           Fitting(size) # -1
    PROVE  Fitting(size) \in Levels /\ f < size_from_level(Fitting(size))
<1> DEFINE e == CeilLog(size)
           l == Fitting(size)
           p == 2 ^ LeafBits
           c == ceil_to_power_of_two(size)
           s == size_from_level(l)
<1>1. l \in Levels /\ e <= MaxLevel + LeafBits - l /\ l \in Nat /\ l <= MaxLevel
  BY FittingType DEF Levels
<1>2. e \in Nat /\ MaxLevel + LeafBits - l \in Nat /\ e # IntBits - 1
  <2>1. e \in 0 .. (IntBits - 1)
    BY CeilLogFacts
  <2>. HIDE DEF e, l
  <2>. QED BY <1>1, <2>1, IntBitsFacts
<1>3. c = 2 ^ e /\ 2 ^ e \in Nat /\ 2 ^ e >= 1
  BY <1>2, CeilLogFacts, PowerType
<1>4. c <= Bytes(s)
  <2> DEFINE d == MaxLevel + LeafBits - l
  <2>1. Bytes(s) = 2 ^ d
    <3>. HIDE DEF l
    <3>. QED BY <1>1, BytesFacts
  <2>2. e <= d /\ d \in Nat
    BY <1>1, <1>2
  <2>. HIDE DEF d, e
  <2>. QED BY <1>2, <1>3, <2>1, <2>2, PowerOrder
<1>5. p \in Nat /\ p >= 1 /\ s \in Nat
  BY <1>1, PowerType, SizeFacts, IntBitsFacts
<1>6. c > Bytes(f)
  <2>1. Bytes(f) \in Nat
    BY <1>5, ProductOrder DEF Bytes
  <2>. HIDE DEF c, e
  <2>. QED BY <1>3, <2>1 DEF c
<1>7. f * p < s * p
  <2>1. f * p \in Nat /\ s * p \in Nat
    BY <1>5, ProductOrder
  <2>2. Bytes(f) = f * p /\ Bytes(s) = s * p
    BY DEF Bytes
  <2>. HIDE DEF c, s, p, e
  <2>. QED BY <1>3, <1>4, <1>6, <2>1, <2>2
<1>8. f < s
  <2>. HIDE DEF s, p
  <2>. QED BY <1>5, <1>7, ProductOrder
<1>. QED BY <1>1, <1>8
-----------------------------------------------------------------------------

HeapType ==
    [free_blocks : [Levels -> AddrOrNull], free_count : [Levels -> Nat],
     free_size : Nat, node : [Addresses -> [prev : Words, next : Words]],
     allocation : SUBSET Bits, split : SUBSET Bits]

\* The parts of the heap, by name.
First(h, l)  == h.free_blocks[l]
Count(h, l)  == h.free_count[l]
NextOf(h, a) == h.node[a].next
PrevOf(h, a) == h.node[a].prev

\* Blocks of one level, and the addresses of a set of blocks.
AtLevel(V, l) == {b \in V : b.level = l}
Cover(V)      == UNION {Units(b) : b \in V}

\* s lists the blocks of V of a level in the order of the free list.  Nothing
\* is said of the prev of the first block.
Linked(h, V, l, s) ==
    LET n == Count(h, l) IN
    /\ \A i \in 0 .. (n - 1) : s[i] \in Addresses /\ [addr |-> s[i], level |-> l] \in V
    /\ \A b \in V : b.level = l => \E i \in 0 .. (n - 1) : s[i] = b.addr
    /\ \A i, j \in 0 .. (n - 1) : s[i] = s[j] => i = j
    /\ First(h, l) = IF n = 0 THEN NULL ELSE s[0]
    /\ \A i \in 0 .. (n - 1) : NextOf(h, s[i]) = IF i = n - 1 THEN NULL ELSE s[i + 1]
    /\ \A i \in 1 .. (n - 1) : PrevOf(h, s[i]) = s[i - 1]

Links(h, V) == \A l \in Levels : \E s : Linked(h, V, l, s)

\* What holds of the free blocks V and the other blocks W at any moment, even
\* after the removal of a first block with a stale prev.
Core(h, V, W) ==
    /\ h \in HeapType
    /\ IsFiniteSet(V)
    /\ V \cap W = {}
    /\ Tiles(V \cup W)
    /\ SplitExact(h.split, V \cup W)
    /\ Merged(V)
    /\ \A l \in Levels : Count(h, l) = Cardinality(AtLevel(V, l))
    /\ \A b \in V : NextOf(h, b.addr) \in AddrOrNull /\ PrevOf(h, b.addr) \in AddrOrNull

\* Between two operations.
Good(h, V, W) ==
    /\ Core(h, V, W)
    /\ Links(h, V)
    /\ PairsExact(h.allocation, V)
    /\ h.free_size = Cardinality(Cover(V))

\* While the block c is taken: it has left its list, its bit has not been
\* flipped.
Taken(h, V, W, c) ==
    /\ c \notin V /\ c \notin W
    /\ Core(h, V, W \cup {c})
    /\ Links(h, V)
    /\ PairsExact(h.allocation, V \cup {c})
    /\ h.free_size = Cardinality(Cover(V \cup {c}))
-----------------------------------------------------------------------------
(***************************************************************************)
(* The operations on one list                                              *)
(***************************************************************************)
LEMMA TypeFacts ==
    ASSUME NEW h \in HeapType
    PROVE  /\ h.split \in SUBSET Bits /\ h.allocation \in SUBSET Bits /\ h.free_size \in Nat
           /\ \A l \in Levels : First(h, l) \in AddrOrNull /\ Count(h, l) \in Nat
           /\ \A a \in Addresses : NextOf(h, a) \in Words /\ PrevOf(h, a) \in Words
BY DEF HeapType, First, Count, NextOf, PrevOf

LEMMA NullFacts == NULL \notin Addresses /\ Junk \notin AddrOrNull /\ Addresses \subseteq Int
<1>1. Addresses \subseteq Int
  BY SizeEnds DEF Addresses
<1>. QED BY <1>1, LevelAssumption DEF AddrOrNull

NodeMap == [Addresses -> [prev : Words, next : Words]]

LEMMA SetPrevFacts ==
    ASSUME NEW node \in NodeMap, NEW b \in AddrOrNull, NEW p \in Words
    PROVE  /\ SetPrev(node, b, p) \in NodeMap
           /\ \A a \in Addresses : /\ SetPrev(node, b, p)[a].next = node[a].next
                                   /\ SetPrev(node, b, p)[a].prev = IF a = b THEN p ELSE node[a].prev
<1>1. CASE b = NULL
  BY <1>1, NullFacts DEF SetPrev, NodeMap
<1>2. CASE b # NULL
  <2>1. b \in Addresses
    BY <1>2 DEF AddrOrNull
  <2>2. SetPrev(node, b, p) = [node EXCEPT ![b].prev = p]
    BY <1>2 DEF SetPrev
  <2>. QED BY <2>1, <2>2 DEF NodeMap
<1>. QED BY <1>1, <1>2

LEMMA UpdateType ==
    ASSUME NEW h \in HeapType
    PROVE  /\ \A x \in [Levels -> AddrOrNull] : [h EXCEPT !.free_blocks = x] \in HeapType
           /\ \A x \in [Levels -> Nat] : [h EXCEPT !.free_count = x] \in HeapType
           /\ \A x \in Nat : [h EXCEPT !.free_size = x] \in HeapType
           /\ \A x \in [Addresses -> [prev : Words, next : Words]] : [h EXCEPT !.node = x] \in HeapType
           /\ \A x \in SUBSET Bits : [h EXCEPT !.allocation = x] \in HeapType
           /\ \A x \in SUBSET Bits : [h EXCEPT !.split = x] \in HeapType
BY DEF HeapType

\* AddFirst() changes one list only.
LEMMA AddFirstFacts ==
    ASSUME NEW h \in HeapType, NEW b \in Addresses, NEW l \in Levels
    PROVE  LET g == AddFirst(h, b, l)
           IN  /\ g \in HeapType
               /\ g.split = h.split /\ g.allocation = h.allocation /\ g.free_size = h.free_size
               /\ \A k \in Levels : First(g, k) = IF k = l THEN b ELSE First(h, k)
               /\ \A k \in Levels : Count(g, k) = IF k = l THEN Count(h, k) + 1 ELSE Count(h, k)
               /\ \A a \in Addresses : NextOf(g, a) = IF a = b THEN First(h, l) ELSE NextOf(h, a)
               /\ \A a \in Addresses : PrevOf(g, a) = IF a = First(h, l) THEN b
                                                      ELSE IF a = b THEN NULL ELSE PrevOf(h, a)
<1> DEFINE g == AddFirst(h, b, l)
           first == h.free_blocks[l]
           node == [h.node EXCEPT ![b] = [prev |-> NULL, next |-> first]]
<1>1. first \in AddrOrNull /\ h.node \in [Addresses -> [prev : Words, next : Words]]
      /\ h.free_blocks \in [Levels -> AddrOrNull] /\ h.free_count \in [Levels -> Nat]
      /\ h.free_size \in Nat /\ h.allocation \in SUBSET Bits /\ h.split \in SUBSET Bits
  BY DEF HeapType
<1>2. node \in [Addresses -> [prev : Words, next : Words]]
      /\ \A a \in Addresses : /\ node[a].next = IF a = b THEN first ELSE h.node[a].next
                              /\ node[a].prev = IF a = b THEN NULL ELSE h.node[a].prev
  <2>1. [prev |-> NULL, next |-> first] \in [prev : Words, next : Words]
    BY <1>1 DEF Words, AddrOrNull
  <2>. HIDE DEF first
  <2>. QED BY <1>1, <2>1
<1> HIDE DEF node
<1>3. g = [[[h EXCEPT !.node = SetPrev(node, first, b)]
                EXCEPT !.free_blocks = [h.free_blocks EXCEPT ![l] = b]]
                EXCEPT !.free_count = [h.free_count EXCEPT ![l] = h.free_count[l] + 1]]
  BY DEF AddFirst, HeapType, node
<1>4. b \in Words /\ b \in AddrOrNull
  BY DEF Words, AddrOrNull
<1>5. /\ SetPrev(node, first, b) \in [Addresses -> [prev : Words, next : Words]]
      /\ \A a \in Addresses : /\ SetPrev(node, first, b)[a].next = node[a].next
                              /\ SetPrev(node, first, b)[a].prev = IF a = first THEN b ELSE node[a].prev
  <2>. HIDE DEF first
  <2>1. node \in NodeMap
    BY <1>2 DEF NodeMap
  <2>2. /\ SetPrev(node, first, b) \in NodeMap
        /\ \A a \in Addresses : /\ SetPrev(node, first, b)[a].next = node[a].next
                                /\ SetPrev(node, first, b)[a].prev = IF a = first THEN b ELSE node[a].prev
    BY <1>1, <1>4, <2>1, SetPrevFacts
  <2>. QED BY <2>2 DEF NodeMap
<1> HIDE DEF g
<1>6. g \in HeapType
  <2>1. [h.free_blocks EXCEPT ![l] = b] \in [Levels -> AddrOrNull]
        /\ [h.free_count EXCEPT ![l] = h.free_count[l] + 1] \in [Levels -> Nat]
    BY <1>1, <1>4
  <2>. QED BY <1>3, <1>5, <2>1, UpdateType
<1>7. /\ \A k \in Levels : First(g, k) = IF k = l THEN b ELSE First(h, k)
      /\ \A k \in Levels : Count(g, k) = IF k = l THEN Count(h, k) + 1 ELSE Count(h, k)
  BY <1>1, <1>3 DEF First, Count
<1>8. \A a \in Addresses : NextOf(g, a) = IF a = b THEN First(h, l) ELSE NextOf(h, a)
  BY <1>2, <1>3, <1>5 DEF NextOf, First
<1>9. \A a \in Addresses : PrevOf(g, a) = IF a = First(h, l) THEN b
                                          ELSE IF a = b THEN NULL ELSE PrevOf(h, a)
  BY <1>2, <1>3, <1>5 DEF PrevOf, First
<1>. QED BY <1>3, <1>6, <1>7, <1>8, <1>9 DEF g

LEMMA TakeFirstFacts ==
    ASSUME NEW h \in HeapType, NEW l \in Levels, Count(h, l) > 0, First(h, l) \in Addresses,
           NextOf(h, First(h, l)) \in AddrOrNull
    PROVE  LET g == TakeFirst(h, l)
           IN  /\ g \in HeapType
               /\ g.split = h.split /\ g.allocation = h.allocation /\ g.free_size = h.free_size
               /\ \A k \in Levels : First(g, k) = IF k = l THEN NextOf(h, First(h, l)) ELSE First(h, k)
               /\ \A k \in Levels : Count(g, k) = IF k = l THEN Count(h, k) - 1 ELSE Count(h, k)
               /\ \A a \in Addresses : NextOf(g, a) = NextOf(h, a) /\ PrevOf(g, a) = PrevOf(h, a)
<1> DEFINE g == TakeFirst(h, l)
           n == NextOf(h, First(h, l))
<1>1. h.free_blocks \in [Levels -> AddrOrNull] /\ h.free_count \in [Levels -> Nat]
      /\ n \in AddrOrNull /\ h.free_count[l] > 0
  BY DEF HeapType, Count
<1>2. g = [[h EXCEPT !.free_blocks = [h.free_blocks EXCEPT ![l] = n]]
              EXCEPT !.free_count = [h.free_count EXCEPT ![l] = h.free_count[l] - 1]]
  BY DEF TakeFirst, HeapType, NextOf, First
<1> HIDE DEF g, n
<1>3. [h.free_blocks EXCEPT ![l] = n] \in [Levels -> AddrOrNull]
      /\ [h.free_count EXCEPT ![l] = h.free_count[l] - 1] \in [Levels -> Nat]
  <2>1. h.free_count[l] - 1 \in Nat
    BY <1>1
  <2>. QED BY <1>1, <2>1
<1>4. g \in HeapType
  BY <1>2, <1>3, UpdateType
<1>5. /\ g.free_blocks = [h.free_blocks EXCEPT ![l] = n]
      /\ g.free_count = [h.free_count EXCEPT ![l] = h.free_count[l] - 1]
      /\ g.node = h.node /\ g.split = h.split /\ g.allocation = h.allocation
      /\ g.free_size = h.free_size
  BY <1>2 DEF HeapType
<1>6. \A k \in Levels : First(g, k) = IF k = l THEN n ELSE First(h, k)
  BY <1>1, <1>5 DEF First
<1>7. \A k \in Levels : Count(g, k) = IF k = l THEN Count(h, k) - 1 ELSE Count(h, k)
  BY <1>1, <1>5 DEF Count
<1>8. \A a \in Addresses : NextOf(g, a) = NextOf(h, a) /\ PrevOf(g, a) = PrevOf(h, a)
  BY <1>5 DEF NextOf, PrevOf
<1>. QED BY <1>4, <1>5, <1>6, <1>7, <1>8 DEF g, n

LEMMA UnlinkFacts ==
    ASSUME NEW h \in HeapType, NEW l \in Levels, First(h, l) \in Addresses,
           NextOf(h, First(h, l)) \in AddrOrNull
    PROVE  LET g == Unlink(h, l)
           IN  /\ g \in HeapType
               /\ g.split = h.split /\ g.allocation = h.allocation /\ g.free_size = h.free_size
               /\ \A k \in Levels : First(g, k) = First(h, k) /\ Count(g, k) = Count(h, k)
               /\ \A a \in Addresses : NextOf(g, a) = NextOf(h, a)
               /\ \A a \in Addresses : PrevOf(g, a) = IF a = NextOf(h, First(h, l)) THEN NULL
                                                      ELSE PrevOf(h, a)
<1> DEFINE g == Unlink(h, l)
           n == NextOf(h, First(h, l))
           node == SetPrev(h.node, n, NULL)
<1>1. h.node \in [Addresses -> [prev : Words, next : Words]] /\ n \in AddrOrNull /\ NULL \in Words
  BY DEF HeapType, Words, AddrOrNull
<1>2. g = [h EXCEPT !.node = node]
  BY DEF Unlink, NextOf, First
<1>3. /\ node \in [Addresses -> [prev : Words, next : Words]]
      /\ \A a \in Addresses : /\ node[a].next = h.node[a].next
                              /\ node[a].prev = IF a = n THEN NULL ELSE h.node[a].prev
  <2> DEFINE nd == h.node
  <2>. HIDE DEF n
  <2>1. nd \in NodeMap
    BY <1>1 DEF NodeMap
  <2>. HIDE DEF nd
  <2>2. /\ SetPrev(nd, n, NULL) \in NodeMap
        /\ \A a \in Addresses : /\ SetPrev(nd, n, NULL)[a].next = nd[a].next
                                /\ SetPrev(nd, n, NULL)[a].prev = IF a = n THEN NULL ELSE nd[a].prev
    BY <1>1, <2>1, SetPrevFacts
  <2>. QED BY <2>2 DEF NodeMap, nd
<1> HIDE DEF g, n, node
<1>4. g \in HeapType
  BY <1>2, <1>3, UpdateType
<1>5. /\ g.free_blocks = h.free_blocks /\ g.free_count = h.free_count
      /\ g.node = node /\ g.split = h.split /\ g.allocation = h.allocation
      /\ g.free_size = h.free_size
  BY <1>2 DEF HeapType
<1>6. \A k \in Levels : First(g, k) = First(h, k) /\ Count(g, k) = Count(h, k)
  BY <1>5 DEF First, Count
<1>7. \A a \in Addresses : /\ NextOf(g, a) = NextOf(h, a)
                           /\ PrevOf(g, a) = IF a = n THEN NULL ELSE PrevOf(h, a)
  BY <1>3, <1>5 DEF NextOf, PrevOf
<1>. QED BY <1>4, <1>5, <1>6, <1>7 DEF g, n

LEMMA RemoveFacts ==
    ASSUME NEW h \in HeapType, NEW b \in Addresses, NEW l \in Levels, Count(h, l) > 0,
           NextOf(h, b) \in AddrOrNull, PrevOf(h, b) \in AddrOrNull
    PROVE  LET g == remove_from_list(h, b, l)
               n == NextOf(h, b)
               p == PrevOf(h, b)
           IN  /\ g \in HeapType
               /\ g.split = h.split /\ g.allocation = h.allocation /\ g.free_size = h.free_size
               /\ \A k \in Levels : First(g, k) = IF k = l /\ p = NULL THEN n ELSE First(h, k)
               /\ \A k \in Levels : Count(g, k) = IF k = l THEN Count(h, k) - 1 ELSE Count(h, k)
               /\ \A a \in Addresses : NextOf(g, a) = IF a = p THEN n ELSE NextOf(h, a)
               /\ \A a \in Addresses : PrevOf(g, a) = IF a = n THEN p ELSE PrevOf(h, a)
<1> DEFINE g == remove_from_list(h, b, l)
           n == NextOf(h, b)
           p == PrevOf(h, b)
           linked == SetPrev(h.node, n, p)
           node == IF p = NULL THEN linked ELSE [linked EXCEPT ![p].next = n]
           first == IF p = NULL THEN n ELSE h.free_blocks[l]
<1>1. /\ h.node \in [Addresses -> [prev : Words, next : Words]]
      /\ n \in AddrOrNull /\ p \in AddrOrNull /\ p \in Words /\ n \in Words
      /\ h.free_blocks \in [Levels -> AddrOrNull] /\ h.free_count \in [Levels -> Nat]
      /\ h.free_count[l] > 0
  BY DEF HeapType, Words, Count
<1>2. g = [[[h EXCEPT !.node = node]
                EXCEPT !.free_blocks = [h.free_blocks EXCEPT ![l] = first]]
                EXCEPT !.free_count = [h.free_count EXCEPT ![l] = h.free_count[l] - 1]]
  BY DEF remove_from_list, HeapType, NextOf, PrevOf
<1> HIDE DEF n, p
<1>3. /\ linked \in [Addresses -> [prev : Words, next : Words]]
      /\ \A a \in Addresses : /\ linked[a].next = h.node[a].next
                              /\ linked[a].prev = IF a = n THEN p ELSE h.node[a].prev
  <2> DEFINE nd == h.node
  <2>1. nd \in NodeMap
    BY <1>1 DEF NodeMap
  <2>. HIDE DEF nd
  <2>2. /\ SetPrev(nd, n, p) \in NodeMap
        /\ \A a \in Addresses : /\ SetPrev(nd, n, p)[a].next = nd[a].next
                                /\ SetPrev(nd, n, p)[a].prev = IF a = n THEN p ELSE nd[a].prev
    BY <1>1, <2>1, SetPrevFacts
  <2>. QED BY <2>2 DEF NodeMap, nd
<1> HIDE DEF linked
<1>4. /\ node \in [Addresses -> [prev : Words, next : Words]]
      /\ \A a \in Addresses : /\ node[a].next = IF a = p THEN n ELSE linked[a].next
                              /\ node[a].prev = linked[a].prev
  <2>1. CASE p = NULL
    BY <1>3, <2>1, NullFacts
  <2>2. CASE p # NULL
    <3>1. p \in Addresses
      BY <1>1, <2>2 DEF AddrOrNull
    <3>2. node = [linked EXCEPT ![p].next = n]
      BY <2>2
    <3>. HIDE DEF node
    <3>. QED BY <1>1, <1>3, <3>1, <3>2
  <2>. QED BY <2>1, <2>2
<1>5. first \in AddrOrNull
  BY <1>1
<1> HIDE DEF g, node, first
<1>6. [h.free_blocks EXCEPT ![l] = first] \in [Levels -> AddrOrNull]
      /\ [h.free_count EXCEPT ![l] = h.free_count[l] - 1] \in [Levels -> Nat]
  <2>1. h.free_count[l] - 1 \in Nat
    BY <1>1
  <2>. QED BY <1>1, <1>5, <2>1
<1>7. g \in HeapType
  BY <1>2, <1>4, <1>6, UpdateType
<1>8. /\ g.free_blocks = [h.free_blocks EXCEPT ![l] = first]
      /\ g.free_count = [h.free_count EXCEPT ![l] = h.free_count[l] - 1]
      /\ g.node = node /\ g.split = h.split /\ g.allocation = h.allocation
      /\ g.free_size = h.free_size
  BY <1>2 DEF HeapType
<1>9. \A k \in Levels : First(g, k) = IF k = l /\ p = NULL THEN n ELSE First(h, k)
  BY <1>1, <1>8 DEF First, first
<1>10. \A k \in Levels : Count(g, k) = IF k = l THEN Count(h, k) - 1 ELSE Count(h, k)
  BY <1>1, <1>8 DEF Count
<1>11. \A a \in Addresses : NextOf(g, a) = IF a = p THEN n ELSE NextOf(h, a)
  BY <1>3, <1>4, <1>8 DEF NextOf
<1>12. \A a \in Addresses : PrevOf(g, a) = IF a = n THEN p ELSE PrevOf(h, a)
  BY <1>3, <1>4, <1>8 DEF PrevOf
<1>. QED BY <1>7, <1>8, <1>9, <1>10, <1>11, <1>12 DEF g, n, p
-----------------------------------------------------------------------------
(***************************************************************************)
(* What the operations mean for a list                                     *)
(***************************************************************************)
\* A list none of whose parts changed.
LEMMA LinkSame ==
    ASSUME NEW h, NEW g, NEW V, NEW U, NEW l, NEW s, Linked(h, V, l, s),
           Count(g, l) = Count(h, l), First(g, l) = First(h, l),
           \A b : b.level = l => (b \in U <=> b \in V),
           \A b \in V : b.level = l => /\ NextOf(g, b.addr) = NextOf(h, b.addr)
                                       /\ PrevOf(g, b.addr) = PrevOf(h, b.addr)
    PROVE  Linked(g, U, l, s)
<1> DEFINE n == Count(h, l)
<1>1. \A i \in 0 .. (n - 1) : s[i] \in Addresses /\ [addr |-> s[i], level |-> l] \in V
  BY DEF Linked
<1>2. \A i \in 0 .. (n - 1) : NextOf(g, s[i]) = NextOf(h, s[i]) /\ PrevOf(g, s[i]) = PrevOf(h, s[i])
  BY <1>1
<1>3. \A i \in 0 .. (n - 1) : [addr |-> s[i], level |-> l] \in U
  BY <1>1
<1>4. \A b \in U : b.level = l => \E i \in 0 .. (n - 1) : s[i] = b.addr
  BY DEF Linked
<1>5. \A i, j \in 0 .. (n - 1) : s[i] = s[j] => i = j
  BY DEF Linked
<1>6. First(g, l) = IF n = 0 THEN NULL ELSE s[0]
  BY DEF Linked
<1>7. \A i \in 0 .. (n - 1) : NextOf(g, s[i]) = IF i = n - 1 THEN NULL ELSE s[i + 1]
  BY <1>2 DEF Linked
<1>8. \A i \in 1 .. (n - 1) : PrevOf(g, s[i]) = s[i - 1]
  <2>1. \A i \in 1 .. (n - 1) : i \in 0 .. (n - 1)
    OBVIOUS
  <2>. QED BY <1>2, <2>1 DEF Linked
<1>9. Count(g, l) = n
  OBVIOUS
<1>. HIDE DEF n
<1>. QED BY <1>1, <1>3, <1>4, <1>5, <1>6, <1>7, <1>8, <1>9 DEF Linked

\* A block that becomes the first one.
LEMMA LinkAdd ==
    ASSUME NEW h, NEW g, NEW V, NEW l, NEW s, Linked(h, V, l, s), Count(h, l) \in Nat,
           NEW b, b.level = l, b.addr \in Addresses, b = [addr |-> b.addr, level |-> l],
           \A c \in V : c.level = l => c.addr # b.addr,
           Count(g, l) = Count(h, l) + 1, First(g, l) = b.addr,
           NextOf(g, b.addr) = First(h, l),
           \A c \in V : c.level = l => NextOf(g, c.addr) = NextOf(h, c.addr),
           \A c \in V : c.level = l => PrevOf(g, c.addr) = IF c.addr = First(h, l) THEN b.addr
                                                           ELSE PrevOf(h, c.addr)
    PROVE  \E t : Linked(g, V \cup {b}, l, t)
<1> DEFINE n == Count(h, l)
           t == [i \in 0 .. n |-> IF i = 0 THEN b.addr ELSE s[i - 1]]
<1>1. /\ \A i \in 0 .. (n - 1) : s[i] \in Addresses /\ [addr |-> s[i], level |-> l] \in V
      /\ \A c \in V : c.level = l => \E i \in 0 .. (n - 1) : s[i] = c.addr
      /\ \A i, j \in 0 .. (n - 1) : s[i] = s[j] => i = j
      /\ First(h, l) = IF n = 0 THEN NULL ELSE s[0]
      /\ \A i \in 0 .. (n - 1) : NextOf(h, s[i]) = IF i = n - 1 THEN NULL ELSE s[i + 1]
      /\ \A i \in 1 .. (n - 1) : PrevOf(h, s[i]) = s[i - 1]
  BY DEF Linked
<1>2. /\ \A i \in 0 .. (n - 1) : /\ NextOf(g, s[i]) = NextOf(h, s[i])
                                 /\ PrevOf(g, s[i]) = IF s[i] = First(h, l) THEN b.addr
                                                      ELSE PrevOf(h, s[i])
                                 /\ s[i] # b.addr
  BY <1>1
<1>3. t[0] = b.addr /\ \A i \in 1 .. n : i - 1 \in 0 .. (n - 1) /\ t[i] = s[i - 1]
  OBVIOUS
<1>4. Count(g, l) = n + 1 /\ n \in Nat /\ n + 1 - 1 = n
  OBVIOUS
<1> HIDE DEF n, t
<1>5. \A i \in 0 .. n : i = 0 \/ i \in 1 .. n
  BY <1>4
<1>6. \A i \in 0 .. n : t[i] \in Addresses /\ [addr |-> t[i], level |-> l] \in V \cup {b}
  BY <1>1, <1>3, <1>5
<1>7. \A c \in V \cup {b} : c.level = l => \E i \in 0 .. n : t[i] = c.addr
  <2>1. \E i \in 0 .. n : t[i] = b.addr
    BY <1>3, <1>4
  <2>2. ASSUME NEW c \in V, c.level = l PROVE \E i \in 0 .. n : t[i] = c.addr
    <3>1. PICK i \in 0 .. (n - 1) : s[i] = c.addr
      BY <1>1, <2>2
    <3>2. i + 1 \in 1 .. n /\ i + 1 \in 0 .. n /\ (i + 1) - 1 = i
      BY <1>4
    <3>. QED BY <1>3, <3>1, <3>2
  <2>. QED BY <2>1, <2>2
<1>8. \A i, j \in 0 .. n : t[i] = t[j] => i = j
  <2>. TAKE i, j \in 0 .. n
  <2>. HAVE t[i] = t[j]
  <2>1. CASE i = 0 /\ j = 0
    BY <2>1
  <2>2. CASE i = 0 /\ j # 0
    BY <1>2, <1>3, <1>5, <2>2
  <2>3. CASE i # 0 /\ j = 0
    BY <1>2, <1>3, <1>5, <2>3
  <2>4. CASE i # 0 /\ j # 0
    <3>1. i - 1 \in 0 .. (n - 1) /\ j - 1 \in 0 .. (n - 1) /\ s[i - 1] = s[j - 1]
      BY <1>3, <1>5, <2>4
    <3>2. i - 1 = j - 1
      BY <1>1, <3>1
    <3>. QED BY <1>4, <3>2
  <2>. QED BY <2>1, <2>2, <2>3, <2>4
<1>9. \A i \in 0 .. n : NextOf(g, t[i]) = IF i = n THEN NULL ELSE t[i + 1]
  <2>. TAKE i \in 0 .. n
  <2>1. CASE i = 0
    <3>1. CASE n = 0
      BY <1>1, <1>3, <2>1, <3>1
    <3>2. CASE n # 0
      <4>1. 1 \in 1 .. n
        BY <1>4, <3>2
      <4>2. t[1] = s[0] /\ 0 + 1 = 1
        BY <1>3, <4>1
      <4>. QED BY <1>1, <1>3, <2>1, <3>2, <4>2
    <3>. QED BY <3>1, <3>2
  <2>2. CASE i # 0
    <3>1. i - 1 \in 0 .. (n - 1) /\ t[i] = s[i - 1] /\ (i - 1 = n - 1 <=> i = n) /\ (i - 1) + 1 = i
      BY <1>3, <1>4, <1>5, <2>2
    <3>2. NextOf(g, t[i]) = IF i = n THEN NULL ELSE s[i]
      BY <1>1, <1>2, <3>1
    <3>3. i # n => i + 1 \in 1 .. n /\ (i + 1) - 1 = i
      BY <1>4, <2>2
    <3>. QED BY <1>3, <3>2, <3>3
  <2>. QED BY <2>1, <2>2
<1>10. \A i \in 1 .. n : PrevOf(g, t[i]) = t[i - 1]
  <2>. TAKE i \in 1 .. n
  <2>1. i - 1 \in 0 .. (n - 1) /\ t[i] = s[i - 1] /\ n # 0 /\ 0 \in 0 .. (n - 1)
    BY <1>3, <1>4
  <2>2. First(h, l) = s[0]
    BY <1>1, <2>1
  <2>3. CASE i = 1
    BY <1>2, <1>3, <2>1, <2>2, <2>3
  <2>4. CASE i # 1
    <3>1. i - 1 \in 1 .. (n - 1) /\ i - 1 # 0 /\ i - 1 \in 1 .. n /\ t[i - 1] = s[(i - 1) - 1]
      BY <1>3, <1>4, <2>4
    <3>2. s[i - 1] # First(h, l)
      BY <1>1, <2>1, <2>2, <3>1
    <3>. QED BY <1>1, <1>2, <2>1, <3>1, <3>2
  <2>. QED BY <2>3, <2>4
<1>11. First(g, l) = t[0] /\ Count(g, l) - 1 = n /\ Count(g, l) # 0
  BY <1>3, <1>4
<1>12. Linked(g, V \cup {b}, l, t)
  BY <1>6, <1>7, <1>8, <1>9, <1>10, <1>11 DEF Linked
<1>. QED BY <1>12

\* A block that leaves its list.
LEMMA LinkDelete ==
    ASSUME NEW h, NEW g, NEW V, NEW l, NEW s, Linked(h, V, l, s), Count(h, l) \in Nat,
           \A c \in V : c.level = l => c = [addr |-> c.addr, level |-> l],
           NEW k \in 0 .. (Count(h, l) - 1), NEW b, b = [addr |-> s[k], level |-> l],
           Count(g, l) = Count(h, l) - 1,
           First(g, l) = IF k = 0 THEN NextOf(h, s[k]) ELSE First(h, l),
           \A c \in V : c.level = l /\ c # b =>
               NextOf(g, c.addr) = IF k # 0 /\ c.addr = s[k - 1] THEN NextOf(h, s[k]) ELSE NextOf(h, c.addr),
           \A c \in V : c.level = l /\ c # b /\ c.addr # First(g, l) =>
               PrevOf(g, c.addr) = IF k # 0 /\ c.addr = NextOf(h, s[k]) THEN s[k - 1]
                                   ELSE PrevOf(h, c.addr)
    PROVE  \E t : Linked(g, V \ {b}, l, t)
<1> DEFINE n == Count(h, l)
           t == [i \in 0 .. (n - 2) |-> IF i < k THEN s[i] ELSE s[i + 1]]
<1>1. /\ \A i \in 0 .. (n - 1) : s[i] \in Addresses /\ [addr |-> s[i], level |-> l] \in V
      /\ \A c \in V : c.level = l => \E i \in 0 .. (n - 1) : s[i] = c.addr
      /\ \A i, j \in 0 .. (n - 1) : s[i] = s[j] => i = j
      /\ First(h, l) = IF n = 0 THEN NULL ELSE s[0]
      /\ \A i \in 0 .. (n - 1) : NextOf(h, s[i]) = IF i = n - 1 THEN NULL ELSE s[i + 1]
      /\ \A i \in 1 .. (n - 1) : PrevOf(h, s[i]) = s[i - 1]
  BY DEF Linked
<1>2. \A i \in 0 .. (n - 1) : i # k =>
          /\ NextOf(g, s[i]) = IF k # 0 /\ s[i] = s[k - 1] THEN NextOf(h, s[k]) ELSE NextOf(h, s[i])
          /\ s[i] # First(g, l) =>
                PrevOf(g, s[i]) = IF k # 0 /\ s[i] = NextOf(h, s[k]) THEN s[k - 1] ELSE PrevOf(h, s[i])
  <2>. TAKE i \in 0 .. (n - 1)
  <2>. HAVE i # k
  <2> DEFINE c == [addr |-> s[i], level |-> l]
  <2>1. c \in V /\ c.level = l /\ c.addr = s[i] /\ c # b
    BY <1>1
  <2>. HIDE DEF c
  <2>. QED BY <2>1
<1>3. n \in Nat /\ k \in 0 .. (n - 1) /\ n >= 1 /\ k \in Int
  OBVIOUS
<1>4. Count(g, l) - 1 = n - 2 /\ (Count(g, l) = 0 <=> n = 1)
  BY <1>3
<1>5. First(g, l) = IF k = 0 THEN (IF n = 1 THEN NULL ELSE s[1]) ELSE s[0]
  <2>1. CASE k = 0
    <3>1. NextOf(h, s[k]) = IF k = n - 1 THEN NULL ELSE s[k + 1]
      BY <1>1
    <3>2. k + 1 = 1 /\ (k = n - 1 <=> n = 1)
      BY <1>3, <2>1
    <3>. QED BY <2>1, <3>1, <3>2
  <2>2. CASE k # 0
    BY <1>1, <1>3, <2>2
  <2>. QED BY <2>1, <2>2
<1> DEFINE at(i) == IF i < k THEN i ELSE i + 1
<1>6. \A i \in 0 .. (n - 2) : t[i] = s[at(i)] /\ at(i) \in 0 .. (n - 1) /\ at(i) # k
  BY <1>3
<1>7. \A i, j \in 0 .. (n - 2) : at(i) = at(j) => i = j
  BY <1>3
<1>8. \A j \in 0 .. (n - 1) : j # k => \E i \in 0 .. (n - 2) : at(i) = j
  <2>. TAKE j \in 0 .. (n - 1)
  <2>. HAVE j # k
  <2>1. CASE j < k
    <3>1. j \in 0 .. (n - 2)
      BY <1>3, <2>1
    <3>. QED BY <2>1, <3>1
  <2>2. CASE ~ (j < k)
    <3>1. j - 1 \in 0 .. (n - 2) /\ ~ (j - 1 < k) /\ (j - 1) + 1 = j
      BY <1>3, <2>2
    <3>. QED BY <3>1
  <2>. QED BY <2>1, <2>2
<1> HIDE DEF t
<1>9. \A i \in 0 .. (n - 2) : t[i] \in Addresses /\ [addr |-> t[i], level |-> l] \in V \ {b}
  <2>. TAKE i \in 0 .. (n - 2)
  <2>1. t[i] = s[at(i)] /\ at(i) \in 0 .. (n - 1) /\ at(i) # k
    BY <1>6
  <2>. HIDE DEF at
  <2>2. s[at(i)] # s[k]
    BY <1>1, <1>3, <2>1
  <2>. QED BY <1>1, <2>1, <2>2
<1>10. \A c \in V \ {b} : c.level = l => \E i \in 0 .. (n - 2) : t[i] = c.addr
  <2>. TAKE c \in V \ {b}
  <2>. HAVE c.level = l
  <2>1. PICK j \in 0 .. (n - 1) : s[j] = c.addr
    BY <1>1
  <2>2. j # k
    BY <2>1
  <2>3. PICK i \in 0 .. (n - 2) : at(i) = j
    BY <1>8, <2>2
  <2>4. t[i] = c.addr
    BY <1>6, <2>1, <2>3
  <2>. QED BY <2>4
<1>11. \A i, j \in 0 .. (n - 2) : t[i] = t[j] => i = j
  <2>. TAKE i, j \in 0 .. (n - 2)
  <2>. HAVE t[i] = t[j]
  <2>1. s[at(i)] = s[at(j)] /\ at(i) \in 0 .. (n - 1) /\ at(j) \in 0 .. (n - 1)
    BY <1>6
  <2>2. at(i) = at(j)
    <3>. HIDE DEF at
    <3>. QED BY <1>1, <2>1
  <2>. QED BY <1>7, <2>2
<1>12. First(g, l) = IF n = 1 THEN NULL ELSE t[0]
  <2>1. CASE n = 1
    BY <1>3, <1>5, <2>1
  <2>2. CASE n # 1
    <3>1. 0 \in 0 .. (n - 2) /\ at(0) = IF k = 0 THEN 1 ELSE 0
      BY <1>3, <2>2
    <3>. HIDE DEF at
    <3>. QED BY <1>5, <1>6, <2>2, <3>1
  <2>. QED BY <2>1, <2>2
<1>13. \A i \in 0 .. (n - 2) : NextOf(g, t[i]) = IF i = n - 2 THEN NULL ELSE t[i + 1]
  <2>. TAKE i \in 0 .. (n - 2)
  <2>1. CASE k # 0 /\ i = k - 1
    <3>1. at(i) = k - 1 /\ k - 1 \in 0 .. (n - 1) /\ k - 1 # k /\ (i = n - 2 <=> k = n - 1)
          /\ (i # n - 2 => i + 1 \in 0 .. (n - 2) /\ at(i + 1) = k + 1)
      BY <1>3, <2>1
    <3>. HIDE DEF at
    <3>2. NextOf(g, t[i]) = NextOf(h, s[k])
      BY <1>2, <1>6, <2>1, <3>1
    <3>. QED BY <1>1, <1>6, <3>1, <3>2
  <2>2. CASE ~ (k # 0 /\ i = k - 1)
    <3>1. at(i) \in 0 .. (n - 1) /\ at(i) # k /\ (at(i) = n - 1 <=> i = n - 2)
          /\ (i # n - 2 => i + 1 \in 0 .. (n - 2) /\ at(i + 1) = at(i) + 1)
          /\ (k # 0 => k - 1 \in 0 .. (n - 1) /\ at(i) # k - 1)
      BY <1>3, <2>2
    <3>. HIDE DEF at
    <3>2. NextOf(g, s[at(i)]) = NextOf(h, s[at(i)])
      <4>1. k # 0 => s[at(i)] # s[k - 1]
        BY <1>1, <3>1
      <4>. QED BY <1>2, <3>1, <4>1
    <3>3. NextOf(h, s[at(i)]) = IF at(i) = n - 1 THEN NULL ELSE s[at(i) + 1]
      BY <1>1, <3>1
    <3>. QED BY <1>6, <3>1, <3>2, <3>3
  <2>. QED BY <2>1, <2>2
<1>14. \A i \in 1 .. (n - 2) : PrevOf(g, t[i]) = t[i - 1]
  <2>. TAKE i \in 1 .. (n - 2)
  <2>1. i \in 0 .. (n - 2) /\ i - 1 \in 0 .. (n - 2) /\ 0 \in 0 .. (n - 2) /\ i # 0 /\ n # 1
    BY <1>3
  <2>2. t[i] # First(g, l)
    BY <1>11, <1>12, <2>1
  <2>3. CASE k # 0 /\ i = k
    <3>1. at(i) = k + 1 /\ at(i - 1) = k - 1 /\ k + 1 \in 0 .. (n - 1) /\ k # n - 1 /\ k + 1 # k
      BY <1>3, <2>3
    <3>. HIDE DEF at
    <3>2. t[i] = s[k + 1] /\ t[i - 1] = s[k - 1] /\ NextOf(h, s[k]) = s[k + 1]
      BY <1>1, <1>3, <1>6, <2>1, <3>1
    <3>. QED BY <1>2, <2>2, <2>3, <3>1, <3>2
  <2>4. CASE ~ (k # 0 /\ i = k)
    <3>1. at(i) \in 1 .. (n - 1) /\ at(i) \in 0 .. (n - 1) /\ at(i) # k
          /\ (k # 0 => at(i) # k + 1 /\ at(i) - 1 = at(i - 1))
          /\ (k = 0 => at(i) - 1 = at(i - 1))
          /\ (k # n - 1 => k + 1 \in 0 .. (n - 1))
      BY <1>3, <2>4
    <3>. HIDE DEF at
    <3>2. t[i] = s[at(i)] /\ t[i - 1] = s[at(i) - 1]
      BY <1>6, <2>1, <3>1
    <3>3. k # 0 => s[at(i)] # NextOf(h, s[k])
      <4>1. CASE k = n - 1
        <5>1. NextOf(h, s[k]) = NULL
          BY <1>1, <4>1
        <5>. QED BY <1>1, <3>1, <5>1, NullFacts
      <4>2. CASE k # n - 1
        <5>1. NextOf(h, s[k]) = s[k + 1]
          BY <1>1, <4>2
        <5>. QED BY <1>1, <3>1, <4>2, <5>1
      <4>. QED BY <4>1, <4>2
    <3>4. PrevOf(g, s[at(i)]) = PrevOf(h, s[at(i)])
      BY <1>2, <2>2, <3>1, <3>2, <3>3
    <3>. QED BY <1>1, <3>1, <3>2, <3>4
  <2>. QED BY <2>3, <2>4
<1> HIDE DEF n, at
<1>15. Linked(g, V \ {b}, l, t)
  BY <1>4, <1>9, <1>10, <1>11, <1>12, <1>13, <1>14 DEF Linked
<1>. QED BY <1>15
-----------------------------------------------------------------------------
(***************************************************************************)
(* Blocks that leave and join the free blocks                              *)
(***************************************************************************)
LEMMA CountLeave ==
    ASSUME NEW V, IsFiniteSet(V), NEW b \in V
    PROVE  /\ IsFiniteSet(V \ {b})
           /\ Cardinality(AtLevel(V, b.level)) \in Nat /\ Cardinality(AtLevel(V, b.level)) > 0
           /\ \A l : Cardinality(AtLevel(V \ {b}, l)) =
                        IF l = b.level THEN Cardinality(AtLevel(V, l)) - 1
                        ELSE Cardinality(AtLevel(V, l))
<1>1. IsFiniteSet(AtLevel(V, b.level))
  <2>1. AtLevel(V, b.level) \in SUBSET V
    BY DEF AtLevel
  <2>. QED BY <2>1, FS_Subset
<1>2. AtLevel(V \ {b}, b.level) = AtLevel(V, b.level) \ {b} /\ b \in AtLevel(V, b.level)
  BY DEF AtLevel
<1>3. \A l : l # b.level => AtLevel(V \ {b}, l) = AtLevel(V, l)
  BY DEF AtLevel
<1>4. Cardinality(AtLevel(V, b.level)) \in Nat /\ Cardinality(AtLevel(V, b.level)) # 0
  BY <1>1, <1>2, FS_CardinalityType, FS_EmptySet
<1>5. Cardinality(AtLevel(V, b.level) \ {b}) = Cardinality(AtLevel(V, b.level)) - 1
  BY <1>1, <1>2, FS_RemoveElement
<1>6. IsFiniteSet(V \ {b})
  BY FS_RemoveElement
<1>7. Cardinality(AtLevel(V, b.level)) > 0
  BY <1>4
<1>. HIDE DEF AtLevel
<1>8. \A l : Cardinality(AtLevel(V \ {b}, l)) =
                IF l = b.level THEN Cardinality(AtLevel(V, l)) - 1 ELSE Cardinality(AtLevel(V, l))
  BY <1>2, <1>3, <1>5
<1>. QED BY <1>4, <1>6, <1>7, <1>8

LEMMA CountJoin ==
    ASSUME NEW V, IsFiniteSet(V), NEW b, b \notin V
    PROVE  /\ IsFiniteSet(V \cup {b})
           /\ \A l : Cardinality(AtLevel(V \cup {b}, l)) =
                        IF l = b.level THEN Cardinality(AtLevel(V, l)) + 1
                        ELSE Cardinality(AtLevel(V, l))
<1>1. IsFiniteSet(AtLevel(V, b.level))
  <2>1. AtLevel(V, b.level) \in SUBSET V
    BY DEF AtLevel
  <2>. QED BY <2>1, FS_Subset
<1>2. AtLevel(V \cup {b}, b.level) = AtLevel(V, b.level) \cup {b} /\ b \notin AtLevel(V, b.level)
  BY DEF AtLevel
<1>3. \A l : l # b.level => AtLevel(V \cup {b}, l) = AtLevel(V, l)
  BY DEF AtLevel
<1>4. Cardinality(AtLevel(V, b.level) \cup {b}) = Cardinality(AtLevel(V, b.level)) + 1
  BY <1>1, <1>2, FS_AddElement
<1>. QED BY <1>2, <1>3, <1>4, FS_AddElement

\* The free leaves, with one more block.
LEMMA CoverJoin ==
    ASSUME NEW V, V \subseteq Nodes, NEW b \in Nodes, \A c \in V : Units(c) \cap Units(b) = {}
    PROVE  /\ Cardinality(Cover(V)) \in Nat
           /\ Cardinality(Cover(V \cup {b})) = Cardinality(Cover(V)) + size_from_level(b.level)
           /\ Cardinality(Cover(V \cup {b})) <= 2 ^ MaxLevel
<1>1. \A c \in Nodes : Units(c) \subseteq Addresses
  BY UnitsFacts
<1>2. IsFiniteSet(Addresses) /\ Cardinality(Addresses) = 2 ^ MaxLevel
  BY SizeEnds, FS_Interval DEF Addresses
<1>3. Cover(V) \in SUBSET Addresses /\ Cover(V \cup {b}) \in SUBSET Addresses
  BY <1>1 DEF Cover
<1>4. IsFiniteSet(Cover(V)) /\ Cardinality(Cover(V)) \in Nat
  BY <1>2, <1>3, FS_Subset, FS_CardinalityType
<1>5. IsFiniteSet(Units(b)) /\ Cardinality(Units(b)) = size_from_level(b.level)
  <2> DEFINE s == size_from_level(b.level)
             a == b.addr
  <2>1. s \in Nat /\ s >= 1 /\ a \in Int /\ Units(b) = a .. (a + s - 1)
    BY NodeFacts, SizeFacts, UnitsFacts, NullFacts
  <2>. HIDE DEF s, a
  <2>2. a + s - 1 \in Int /\ ~ (a > a + s - 1) /\ (a + s - 1) - a + 1 = s
    BY <2>1
  <2>3. IsFiniteSet(a .. (a + s - 1)) /\ Cardinality(a .. (a + s - 1)) = s
    BY <2>1, <2>2, FS_Interval
  <2>. QED BY <2>1, <2>3 DEF s
<1>6. Cover(V \cup {b}) = Cover(V) \cup Units(b) /\ Cover(V) \cap Units(b) = {}
  BY DEF Cover
<1>7. Cardinality(Cover(V \cup {b})) = Cardinality(Cover(V)) + size_from_level(b.level)
  <2>1. Cardinality(Cover(V) \cup Units(b)) = Cardinality(Cover(V)) + Cardinality(Units(b)) - Cardinality({})
    BY <1>4, <1>5, <1>6, FS_Union
  <2>2. size_from_level(b.level) \in Nat
    BY NodeFacts, SizeFacts
  <2>3. \A x, y \in Nat : x + y - 0 = x + y
    OBVIOUS
  <2>4. Cardinality({}) = 0
    BY FS_EmptySet
  <2>5. Cardinality(Cover(V) \cup Units(b)) = Cardinality(Cover(V)) + size_from_level(b.level) - 0
    BY <1>5, <2>1, <2>4
  <2>. QED BY <1>4, <1>6, <2>2, <2>3, <2>5
<1>8. Cardinality(Cover(V \cup {b})) <= 2 ^ MaxLevel
  BY <1>2, <1>3, FS_Subset
<1>. QED BY <1>4, <1>7, <1>8

\* Blocks of a tiling, by their address.
LEMMA CoreFacts ==
    ASSUME NEW h, NEW V, NEW W, Core(h, V, W)
    PROVE  /\ h \in HeapType
           /\ \A b \in V \cup W : /\ b \in Nodes /\ b.addr \in Addresses /\ b.level \in Levels
                                  /\ b = [addr |-> b.addr, level |-> b.level]
           /\ \A b, c \in V \cup W : b.addr = c.addr => b = c
           /\ \A b, c \in V \cup W : Units(b) \cap Units(c) # {} => b = c
<1>1. Tiles(V \cup W) /\ h \in HeapType
  BY DEF Core
<1>2. \A b \in V \cup W : b \in Nodes
  BY <1>1 DEF Tiles
<1>. QED BY <1>1, <1>2, NodeFacts, TileAlone

\* A block that leaves the free blocks; the tiling stays.
LEMMA CoreLeave ==
    ASSUME NEW h, NEW g \in HeapType, NEW V, NEW W, Core(h, V, W), NEW b \in V,
           g.split = h.split,
           \A l \in Levels : Count(g, l) = IF l = b.level THEN Count(h, l) - 1 ELSE Count(h, l),
           \A c \in V \ {b} : NextOf(g, c.addr) \in AddrOrNull /\ PrevOf(g, c.addr) \in AddrOrNull
    PROVE  Core(g, V \ {b}, W \cup {b}) /\ b \notin W
<1>1. b \notin W /\ (V \ {b}) \cup (W \cup {b}) = V \cup W /\ (V \ {b}) \cap (W \cup {b}) = {}
  BY DEF Core
<1>2. Merged(V \ {b})
  BY DEF Core, Merged
<1>3. IsFiniteSet(V \ {b}) /\ \A l \in Levels : Count(g, l) = Cardinality(AtLevel(V \ {b}, l))
  BY CountLeave DEF Core
<1>. QED BY <1>1, <1>2, <1>3 DEF Core

\* A block that becomes free.
LEMMA CoreJoin ==
    ASSUME NEW h, NEW g \in HeapType, NEW V, NEW W, NEW b, Core(h, V, W \cup {b}), b \notin W,
           g.split = h.split, Merged(V \cup {b}),
           \A l \in Levels : Count(g, l) = IF l = b.level THEN Count(h, l) + 1 ELSE Count(h, l),
           \A c \in V \cup {b} : NextOf(g, c.addr) \in AddrOrNull /\ PrevOf(g, c.addr) \in AddrOrNull
    PROVE  Core(g, V \cup {b}, W)
<1>1. b \notin V /\ (V \cup {b}) \cup W = V \cup (W \cup {b}) /\ (V \cup {b}) \cap W = {}
  BY DEF Core
<1>2. IsFiniteSet(V \cup {b}) /\ \A l \in Levels : Count(g, l) = Cardinality(AtLevel(V \cup {b}, l))
  BY <1>1, CountJoin DEF Core
<1>. QED BY <1>1, <1>2 DEF Core
-----------------------------------------------------------------------------
(***************************************************************************)
(* The lists of all levels                                                 *)
(***************************************************************************)
\* A list is empty exactly when no block of its level is free.
LEMMA HeadFacts ==
    ASSUME NEW h, NEW V, NEW W, Core(h, V, W), Links(h, V), NEW l \in Levels
    PROVE  /\ First(h, l) # NULL => /\ [addr |-> First(h, l), level |-> l] \in V
                                    /\ First(h, l) \in Addresses /\ Count(h, l) > 0
           /\ (\E b \in V : b.level = l) => First(h, l) # NULL
<1>1. PICK s : Linked(h, V, l, s)
  BY DEF Links
<1>2. Count(h, l) \in Nat
  BY CoreFacts, TypeFacts
<1>3. First(h, l) = IF Count(h, l) = 0 THEN NULL ELSE s[0]
  BY <1>1 DEF Linked
<1>4. \A i \in 0 .. (Count(h, l) - 1) : s[i] \in Addresses /\ [addr |-> s[i], level |-> l] \in V
  BY <1>1 DEF Linked
<1>5. \A b \in V : b.level = l => \E i \in 0 .. (Count(h, l) - 1) : s[i] = b.addr
  BY <1>1 DEF Linked
<1>6. CASE Count(h, l) = 0
  BY <1>3, <1>5, <1>6
<1>7. CASE Count(h, l) # 0
  <2>1. 0 \in 0 .. (Count(h, l) - 1) /\ Count(h, l) > 0
    BY <1>2, <1>7
  <2>. QED BY <1>3, <1>4, <1>7, <2>1, NullFacts
<1>. QED BY <1>6, <1>7

\* The neighbours of a block in its list.
LEMMA NeighbourFacts ==
    ASSUME NEW h, NEW V, NEW W, Core(h, V, W), Links(h, V), NEW b \in V
    PROVE  /\ NextOf(h, b.addr) # NULL => [addr |-> NextOf(h, b.addr), level |-> b.level] \in V
           /\ NextOf(h, b.addr) # b.addr
           /\ First(h, b.level) # b.addr =>
                 /\ [addr |-> PrevOf(h, b.addr), level |-> b.level] \in V
                 /\ PrevOf(h, b.addr) \in Addresses /\ PrevOf(h, b.addr) # b.addr
<1>1. b.level \in Levels /\ b.addr \in Addresses
  BY CoreFacts
<1>2. PICK s : Linked(h, V, b.level, s)
  BY <1>1 DEF Links
<1> DEFINE n == Count(h, b.level)
           l == b.level
<1>3. n \in Nat
  BY <1>1, CoreFacts, TypeFacts
<1>4. /\ \A i \in 0 .. (n - 1) : s[i] \in Addresses /\ [addr |-> s[i], level |-> l] \in V
      /\ \A c \in V : c.level = l => \E i \in 0 .. (n - 1) : s[i] = c.addr
      /\ \A i, j \in 0 .. (n - 1) : s[i] = s[j] => i = j
      /\ First(h, l) = IF n = 0 THEN NULL ELSE s[0]
      /\ \A i \in 0 .. (n - 1) : NextOf(h, s[i]) = IF i = n - 1 THEN NULL ELSE s[i + 1]
      /\ \A i \in 1 .. (n - 1) : PrevOf(h, s[i]) = s[i - 1]
  BY <1>2 DEF Linked
<1>5. PICK k \in 0 .. (n - 1) : s[k] = b.addr
  BY <1>4
<1>6. NextOf(h, s[k]) = IF k = n - 1 THEN NULL ELSE s[k + 1]
  BY <1>4
<1>7. k # n - 1 => k + 1 \in 0 .. (n - 1) /\ k + 1 # k
  BY <1>3, <1>5
<1> HIDE DEF n, l
<1>8. /\ NextOf(h, s[k]) # NULL => [addr |-> NextOf(h, s[k]), level |-> l] \in V
      /\ NextOf(h, s[k]) # s[k]
  BY <1>4, <1>5, <1>6, <1>7, NullFacts
<1>9. ASSUME First(h, l) # s[k]
      PROVE  [addr |-> PrevOf(h, s[k]), level |-> l] \in V /\ PrevOf(h, s[k]) \in Addresses
             /\ PrevOf(h, s[k]) # s[k]
  <2>1. k # 0 /\ n # 0
    BY <1>3, <1>4, <1>5, <1>9
  <2>2. k \in 1 .. (n - 1) /\ k - 1 \in 0 .. (n - 1) /\ k - 1 # k
    BY <1>3, <1>5, <2>1
  <2>. QED BY <1>4, <2>2
<1>. QED BY <1>5, <1>8, <1>9 DEF l

\* A block that leaves its list.
LEMMA LinksLeave ==
    ASSUME NEW h, NEW g, NEW V, NEW W, Core(h, V, W), Links(h, V), NEW b \in V,
           \A l \in Levels : Count(g, l) = IF l = b.level THEN Count(h, l) - 1 ELSE Count(h, l),
           \A l \in Levels : l # b.level => First(g, l) = First(h, l),
           First(g, b.level) = IF First(h, b.level) = b.addr THEN NextOf(h, b.addr)
                               ELSE First(h, b.level),
           \A c \in V : c # b => NextOf(g, c.addr) =
               IF First(h, b.level) # b.addr /\ c.addr = PrevOf(h, b.addr) THEN NextOf(h, b.addr)
               ELSE NextOf(h, c.addr),
           \A c \in V : c # b /\ c.addr # First(g, b.level) => PrevOf(g, c.addr) =
               IF First(h, b.level) # b.addr /\ c.addr = NextOf(h, b.addr) THEN PrevOf(h, b.addr)
               ELSE PrevOf(h, c.addr)
    PROVE  Links(g, V \ {b})
<1>1. /\ b.level \in Levels /\ b.addr \in Addresses /\ b = [addr |-> b.addr, level |-> b.level]
      /\ \A c \in V : c = [addr |-> c.addr, level |-> c.level]
      /\ \A c, d \in V : c.addr = d.addr => c = d
  BY CoreFacts
<1>2. \A l \in Levels : Count(h, l) \in Nat
  BY CoreFacts, TypeFacts
<1>3. \E t : Linked(g, V \ {b}, b.level, t)
  <2> DEFINE l == b.level
             n == Count(h, l)
  <2>1. PICK s : Linked(h, V, l, s)
    BY <1>1 DEF Links
  <2>2. n \in Nat
    BY <1>1, <1>2
  <2>3. /\ \A c \in V : c.level = l => \E i \in 0 .. (n - 1) : s[i] = c.addr
        /\ \A i, j \in 0 .. (n - 1) : s[i] = s[j] => i = j
        /\ First(h, l) = IF n = 0 THEN NULL ELSE s[0]
        /\ \A i \in 1 .. (n - 1) : PrevOf(h, s[i]) = s[i - 1]
    BY <2>1 DEF Linked
  <2>4. PICK k \in 0 .. (n - 1) : s[k] = b.addr
    BY <2>3
  <2>5. n # 0 /\ 0 \in 0 .. (n - 1)
    BY <2>2, <2>4
  <2>6. First(h, l) = b.addr <=> k = 0
    BY <2>3, <2>4, <2>5
  <2>7. k # 0 => PrevOf(h, b.addr) = s[k - 1]
    <3>1. k # 0 => k \in 1 .. (n - 1)
      BY <2>2, <2>4
    <3>. QED BY <2>3, <2>4, <3>1
  <2>8. Count(g, l) = n - 1 /\ First(g, l) = IF k = 0 THEN NextOf(h, s[k]) ELSE First(h, l)
    BY <1>1, <2>4, <2>6
  <2>9. \A c \in V : c.level = l /\ c # b =>
            NextOf(g, c.addr) = IF k # 0 /\ c.addr = s[k - 1] THEN NextOf(h, s[k]) ELSE NextOf(h, c.addr)
    BY <2>4, <2>6, <2>7
  <2>10. \A c \in V : c.level = l /\ c # b /\ c.addr # First(g, l) =>
            PrevOf(g, c.addr) = IF k # 0 /\ c.addr = NextOf(h, s[k]) THEN s[k - 1]
                                ELSE PrevOf(h, c.addr)
    BY <2>4, <2>6, <2>7
  <2>11. b = [addr |-> s[k], level |-> l] /\ \A c \in V : c.level = l => c = [addr |-> c.addr, level |-> l]
    BY <1>1, <2>4
  <2>12. k \in 0 .. (Count(h, l) - 1) /\ Count(h, l) \in Nat
    BY <2>2, <2>4
  <2>13. Count(g, l) = Count(h, l) - 1
    BY <2>8
  <2>. HIDE DEF l, n
  <2>14. \E t : Linked(g, V \ {b}, l, t)
    BY <2>1, <2>8, <2>9, <2>10, <2>11, <2>12, <2>13, LinkDelete
  <2>. QED BY <2>14 DEF l
<1>4. ASSUME NEW l \in Levels, l # b.level PROVE \E t : Linked(g, V \ {b}, l, t)
  <2>1. PICK s : Linked(h, V, l, s)
    BY DEF Links
  <2>2. Count(g, l) = Count(h, l) /\ First(g, l) = First(h, l)
    BY <1>4
  <2>3. \A c : c.level = l => (c \in V \ {b} <=> c \in V)
    BY <1>4
  <2>4. ASSUME NEW c \in V, c.level = l
        PROVE  NextOf(g, c.addr) = NextOf(h, c.addr) /\ PrevOf(g, c.addr) = PrevOf(h, c.addr)
    <3>1. c # b
      BY <1>4, <2>4
    <3>2. First(h, b.level) # b.addr => c.addr # PrevOf(h, b.addr)
      <4>1. First(h, b.level) # b.addr => [addr |-> PrevOf(h, b.addr), level |-> b.level] \in V
        BY NeighbourFacts
      <4>. QED BY <1>1, <1>4, <2>4, <4>1
    <3>3. c.addr # NextOf(h, b.addr)
      <4>1. NextOf(h, b.addr) # NULL => [addr |-> NextOf(h, b.addr), level |-> b.level] \in V
        BY NeighbourFacts
      <4>2. c.addr # NULL
        BY CoreFacts, NullFacts
      <4>. QED BY <1>1, <1>4, <2>4, <4>1, <4>2
    <3>4. c.addr # First(h, b.level)
      <4>1. First(h, b.level) # NULL => [addr |-> First(h, b.level), level |-> b.level] \in V
        BY <1>1, HeadFacts
      <4>2. c.addr # NULL
        BY CoreFacts, NullFacts
      <4>. QED BY <1>1, <1>4, <2>4, <4>1, <4>2
    <3>5. c.addr # First(g, b.level)
      BY <3>3, <3>4
    <3>. QED BY <3>1, <3>2, <3>3, <3>5
  <2>. QED BY <2>1, <2>2, <2>3, <2>4, LinkSame
<1>. QED BY <1>3, <1>4 DEF Links

\* A block that becomes the first of its list.
LEMMA LinksJoin ==
    ASSUME NEW h, NEW V, NEW W, NEW b, Core(h, V, W \cup {b}), Links(h, V), b \notin V
    PROVE  /\ Links(AddFirst(h, b.addr, b.level), V \cup {b})
           /\ \A c \in V \cup {b} : /\ NextOf(AddFirst(h, b.addr, b.level), c.addr) \in AddrOrNull
                                    /\ PrevOf(AddFirst(h, b.addr, b.level), c.addr) \in AddrOrNull
<1> DEFINE g == AddFirst(h, b.addr, b.level)
<1>1. /\ h \in HeapType /\ b.level \in Levels /\ b.addr \in Addresses
      /\ b = [addr |-> b.addr, level |-> b.level]
      /\ \A c \in V : c = [addr |-> c.addr, level |-> c.level] /\ c.addr \in Addresses
      /\ \A c \in V : c.addr # b.addr
      /\ \A c, d \in V : c.addr = d.addr => c = d
  BY CoreFacts
<1>2. /\ \A k \in Levels : First(g, k) = IF k = b.level THEN b.addr ELSE First(h, k)
      /\ \A k \in Levels : Count(g, k) = IF k = b.level THEN Count(h, k) + 1 ELSE Count(h, k)
      /\ \A a \in Addresses : NextOf(g, a) = IF a = b.addr THEN First(h, b.level) ELSE NextOf(h, a)
      /\ \A a \in Addresses : PrevOf(g, a) = IF a = First(h, b.level) THEN b.addr
                                             ELSE IF a = b.addr THEN NULL ELSE PrevOf(h, a)
  BY <1>1, AddFirstFacts
<1> HIDE DEF g
<1>3. First(h, b.level) \in AddrOrNull /\ NULL \in AddrOrNull /\ b.addr \in AddrOrNull
  BY <1>1, TypeFacts DEF AddrOrNull
<1>4. \A c \in V : NextOf(h, c.addr) \in AddrOrNull /\ PrevOf(h, c.addr) \in AddrOrNull
  BY DEF Core
<1>5. \A c \in V \cup {b} : NextOf(g, c.addr) \in AddrOrNull /\ PrevOf(g, c.addr) \in AddrOrNull
  BY <1>1, <1>2, <1>3, <1>4
<1>6. \A l \in Levels : Count(h, l) \in Nat
  BY <1>1, TypeFacts
<1>7. \E t : Linked(g, V \cup {b}, b.level, t)
  <2> DEFINE l == b.level
  <2>1. PICK s : Linked(h, V, l, s)
    BY <1>1 DEF Links
  <2>2. Count(g, l) = Count(h, l) + 1 /\ First(g, l) = b.addr /\ NextOf(g, b.addr) = First(h, l)
    BY <1>1, <1>2
  <2>3. \A c \in V : c.level = l => NextOf(g, c.addr) = NextOf(h, c.addr)
    BY <1>1, <1>2
  <2>4. \A c \in V : c.level = l =>
            PrevOf(g, c.addr) = IF c.addr = First(h, l) THEN b.addr ELSE PrevOf(h, c.addr)
    BY <1>1, <1>2
  <2>5. b.level = l /\ b = [addr |-> b.addr, level |-> l] /\ Count(h, l) \in Nat
        /\ \A c \in V : c.level = l => c.addr # b.addr
    BY <1>1, <1>6
  <2>. HIDE DEF l
  <2>. QED BY <1>1, <2>1, <2>2, <2>3, <2>4, <2>5, LinkAdd DEF l
<1>8. ASSUME NEW l \in Levels, l # b.level PROVE \E t : Linked(g, V \cup {b}, l, t)
  <2>1. PICK s : Linked(h, V, l, s)
    BY DEF Links
  <2>2. Count(g, l) = Count(h, l) /\ First(g, l) = First(h, l)
    BY <1>2, <1>8
  <2>3. \A c : c.level = l => (c \in V \cup {b} <=> c \in V)
    BY <1>8
  <2>4. ASSUME NEW c \in V, c.level = l
        PROVE  NextOf(g, c.addr) = NextOf(h, c.addr) /\ PrevOf(g, c.addr) = PrevOf(h, c.addr)
    <3>1. c.addr # First(h, b.level)
      <4>1. First(h, b.level) # NULL => [addr |-> First(h, b.level), level |-> b.level] \in V
        BY <1>1, HeadFacts
      <4>2. c.addr # NULL
        BY <1>1, NullFacts
      <4>. QED BY <1>1, <1>8, <2>4, <4>1, <4>2
    <3>. QED BY <1>1, <1>2, <3>1
  <2>. QED BY <2>1, <2>2, <2>3, <2>4, LinkSame
<1>9. Links(g, V \cup {b})
  BY <1>7, <1>8 DEF Links
<1>. QED BY <1>5, <1>9 DEF g
-----------------------------------------------------------------------------
(***************************************************************************)
(* Allocation                                                              *)
(***************************************************************************)
\* Flipping the bit of a block changes the allocation bits only.
LEMMA FlipFacts ==
    ASSUME NEW h \in HeapType, NEW b \in Nodes
    PROVE  LET g == flip_allocation_bit(h, b.addr, b.level)
           IN  /\ g \in HeapType /\ g.split = h.split /\ g.free_size = h.free_size
               /\ g.node = h.node /\ g.free_blocks = h.free_blocks /\ g.free_count = h.free_count
               /\ \A V : PairsExact(h.allocation, V) => PairsExact(g.allocation, SymDiff(V, {b}))
               /\ b.level > 0 => g.allocation = SymDiff(h.allocation, {Bit(Parent(b))})
<1> DEFINE g == flip_allocation_bit(h, b.addr, b.level)
<1>1. b.level \in Levels /\ b.level \in Nat
  BY NodeFacts DEF Levels
<1>2. CASE b.level = 0
  <2>1. g = h
    BY <1>2 DEF flip_allocation_bit
  <2>2. \A V : PairsExact(h.allocation, V) => PairsExact(h.allocation, SymDiff(V, {b}))
    BY <1>2, PairsRoot
  <2>. QED BY <1>2, <2>1, <2>2
<1>3. CASE b.level > 0
  <2> DEFINE bit == Bit(Parent(b))
             x == SymDiff(h.allocation, {bit})
  <2>1. allocation_bit_index(b.addr, b.level) = bit
    BY <1>3, BuddyFacts
  <2>2. bit \in Bits
    BY <1>3, ParentFacts, BitFacts
  <2>. HIDE DEF bit
  <2>3. g = [h EXCEPT !.allocation = x]
    BY <1>3, <2>1 DEF flip_allocation_bit, flip_bit
  <2>4. x \in SUBSET Bits
    BY <2>2, TypeFacts DEF SymDiff
  <2>. HIDE DEF x, g
  <2>5. g \in HeapType
    BY <2>3, <2>4, UpdateType
  <2>6. /\ g.split = h.split /\ g.free_size = h.free_size /\ g.allocation = x
        /\ g.node = h.node /\ g.free_blocks = h.free_blocks /\ g.free_count = h.free_count
    BY <2>3 DEF HeapType
  <2>7. \A V : PairsExact(h.allocation, V) => PairsExact(x, SymDiff(V, {b}))
    BY <1>3, PairsFlip DEF x, bit
  <2>. QED BY <2>5, <2>6, <2>7 DEF g, x, bit
<1>4. b.level = 0 \/ b.level > 0
  BY <1>1
<1>. QED BY <1>2, <1>3, <1>4

\* A step that leaves the free blocks and their lists alone.
LEMMA LinksSame ==
    ASSUME NEW h, NEW g, NEW V, Links(h, V),
           \A l \in Levels : First(g, l) = First(h, l) /\ Count(g, l) = Count(h, l),
           \A c \in V : NextOf(g, c.addr) = NextOf(h, c.addr) /\ PrevOf(g, c.addr) = PrevOf(h, c.addr)
    PROVE  Links(g, V)
<1>. SUFFICES ASSUME NEW l \in Levels PROVE \E t : Linked(g, V, l, t)
  BY DEF Links
<1>1. PICK s : Linked(h, V, l, s)
  BY DEF Links
<1>2. Linked(g, V, l, s)
  BY <1>1, LinkSame
<1>. QED BY <1>2

\* The other blocks may be cut in another way.
LEMMA CoreSame ==
    ASSUME NEW h, NEW g \in HeapType, NEW V, NEW W, NEW X, Core(h, V, W),
           V \cap X = {}, Tiles(V \cup X), SplitExact(g.split, V \cup X),
           \A l \in Levels : Count(g, l) = Count(h, l),
           \A c \in V : NextOf(g, c.addr) = NextOf(h, c.addr) /\ PrevOf(g, c.addr) = PrevOf(h, c.addr)
    PROVE  Core(g, V, X)
<1>1. \A l \in Levels : Count(g, l) = Cardinality(AtLevel(V, l))
  BY DEF Core
<1>2. \A c \in V : NextOf(g, c.addr) \in AddrOrNull /\ PrevOf(g, c.addr) \in AddrOrNull
  BY DEF Core
<1>. QED BY <1>1, <1>2 DEF Core

\* No buddies meet when a block becomes free whose buddy is not.
LEMMA MergedJoin ==
    ASSUME NEW V, Merged(V), NEW b \in Nodes, b.level > 0 => Buddy(b) \notin V
    PROVE  Merged(V \cup {b})
<1>. SUFFICES ASSUME NEW n \in Nodes, n.level < MaxLevel,
                     Lower(n) \in V \cup {b}, Upper(n) \in V \cup {b}
              PROVE  FALSE
  BY DEF Merged
<1>1. /\ Lower(n).level > 0 /\ Upper(n).level > 0
      /\ Buddy(Lower(n)) = Upper(n) /\ Buddy(Upper(n)) = Lower(n) /\ Lower(n) # Upper(n)
  BY ParentOfHalves, Halves
<1>2. CASE Lower(n) = b
  BY <1>1, <1>2
<1>3. CASE Upper(n) = b
  BY <1>1, <1>3
<1>4. CASE Lower(n) # b /\ Upper(n) # b
  BY <1>4 DEF Merged
<1>. QED BY <1>2, <1>3, <1>4

\* The first block of a list leaves it.
LEMMA TakeGood ==
    ASSUME NEW h, NEW V, NEW W, Good(h, V, W), NEW l \in Levels, First(h, l) # NULL,
           NEW g \in {TakeFirst(h, l), TakeFirst(Unlink(h, l), l)}
    PROVE  LET c == [addr |-> First(h, l), level |-> l]
           IN  c \in V /\ Taken(g, V \ {c}, W, c)
<1> DEFINE c == [addr |-> First(h, l), level |-> l]
           n == NextOf(h, First(h, l))
<1>1. Core(h, V, W) /\ Links(h, V) /\ h \in HeapType
  BY DEF Good, Core
<1>2. c \in V /\ First(h, l) \in Addresses /\ Count(h, l) > 0
  BY <1>1, HeadFacts
<1>3. c.addr = First(h, l) /\ c.level = l
  OBVIOUS
<1> HIDE DEF c
<1>4. n \in AddrOrNull
  BY <1>1, <1>2, <1>3 DEF Core
<1>5. /\ \A d \in V : d.addr \in Addresses
      /\ \A d, e \in V : d.addr = e.addr => d = e
  BY <1>1, CoreFacts
<1> DEFINE Effect(x) ==
      /\ x \in HeapType
      /\ x.split = h.split /\ x.allocation = h.allocation /\ x.free_size = h.free_size
      /\ \A k \in Levels : First(x, k) = IF k = l THEN n ELSE First(h, k)
      /\ \A k \in Levels : Count(x, k) = IF k = l THEN Count(h, k) - 1 ELSE Count(h, k)
      /\ \A a \in Addresses : /\ NextOf(x, a) = NextOf(h, a)
                              /\ PrevOf(x, a) = IF a = n THEN PrevOf(x, a) ELSE PrevOf(h, a)
                              /\ PrevOf(x, a) \in {PrevOf(h, a), NULL}
<1>6. Effect(TakeFirst(h, l))
  <2>. HIDE DEF n
  <2>1. n = NextOf(h, First(h, l))
    BY DEF n
  <2>. QED BY <1>1, <1>2, <1>4, <2>1, TakeFirstFacts
<1>7. Effect(TakeFirst(Unlink(h, l), l))
  <2> DEFINE u == Unlink(h, l)
  <2>1. /\ u \in HeapType
        /\ u.split = h.split /\ u.allocation = h.allocation /\ u.free_size = h.free_size
        /\ \A k \in Levels : First(u, k) = First(h, k) /\ Count(u, k) = Count(h, k)
        /\ \A a \in Addresses : NextOf(u, a) = NextOf(h, a)
        /\ \A a \in Addresses : PrevOf(u, a) = IF a = n THEN NULL ELSE PrevOf(h, a)
    BY <1>1, <1>2, <1>4, UnlinkFacts
  <2>. HIDE DEF u, n
  <2>2. n = NextOf(h, First(h, l))
    BY DEF n
  <2>3. Count(u, l) > 0 /\ First(u, l) \in Addresses /\ NextOf(u, First(u, l)) \in AddrOrNull
        /\ NextOf(u, First(u, l)) = n
    BY <1>2, <1>4, <2>1, <2>2
  <2> DEFINE x == TakeFirst(u, l)
  <2>4. /\ x \in HeapType
        /\ x.split = u.split /\ x.allocation = u.allocation /\ x.free_size = u.free_size
        /\ \A k \in Levels : First(x, k) = IF k = l THEN n ELSE First(u, k)
        /\ \A k \in Levels : Count(x, k) = IF k = l THEN Count(u, k) - 1 ELSE Count(u, k)
        /\ \A a \in Addresses : NextOf(x, a) = NextOf(u, a) /\ PrevOf(x, a) = PrevOf(u, a)
    BY <2>1, <2>3, TakeFirstFacts
  <2>. HIDE DEF x
  <2>5. Effect(x)
    BY <2>1, <2>4
  <2>. QED BY <2>5 DEF x, u
<1>8. Effect(g)
  BY <1>6, <1>7
<1>9. /\ \A d \in V : NextOf(g, d.addr) \in AddrOrNull /\ PrevOf(g, d.addr) \in AddrOrNull
  <2>. HIDE DEF n
  <2>1. NULL \in AddrOrNull
    BY DEF AddrOrNull
  <2>. QED BY <1>1, <1>5, <1>8, <2>1 DEF Core
<1>10. Core(g, V \ {c}, W \cup {c}) /\ c \notin W
  BY <1>1, <1>2, <1>3, <1>8, <1>9, CoreLeave
<1>11. Links(g, V \ {c})
  <2>1. \A d \in V : d # c => NextOf(g, d.addr) = NextOf(h, d.addr)
    BY <1>5, <1>8
  <2>2. \A d \in V : d # c /\ d.addr # First(g, l) => PrevOf(g, d.addr) = PrevOf(h, d.addr)
    BY <1>5, <1>8
  <2>3. First(g, l) = NextOf(h, c.addr) /\ First(h, l) = c.addr
    BY <1>3, <1>8
  <2>4. /\ \A k \in Levels : Count(g, k) = IF k = c.level THEN Count(h, k) - 1 ELSE Count(h, k)
        /\ \A k \in Levels : k # c.level => First(g, k) = First(h, k)
    BY <1>3, <1>8
  <2>. HIDE DEF Effect, n
  <2>. QED BY <1>1, <1>2, <1>3, <2>1, <2>2, <2>3, <2>4, LinksLeave
<1>12. (V \ {c}) \cup {c} = V
  BY <1>2
<1>13. PairsExact(g.allocation, V) /\ g.free_size = Cardinality(Cover(V))
  BY <1>8 DEF Good
<1>14. Taken(g, V \ {c}, W, c)
  BY <1>10, <1>11, <1>12, <1>13 DEF Taken
<1>. QED BY <1>2, <1>14 DEF c

\* split(): the upper half becomes free, the lower half is taken.
LEMMA SplitTaken ==
    ASSUME NEW h, NEW V, NEW W, NEW c, Taken(h, V, W, c), c.level < MaxLevel
    PROVE  Taken(split(h, c.addr, c.level), V \cup {Upper(c)}, W, Lower(c))
<1> DEFINE marked == [h EXCEPT !.split = set_bit(@, split_bit_index(c.addr, c.level))]
           f == flip_allocation_bit(marked, c.addr, c.level)
           up == Upper(c)
           low == Lower(c)
           X == W \cup {up, low}
           g == AddFirst(f, up.addr, up.level)
<1>1. Core(h, V, W \cup {c}) /\ Links(h, V) /\ c \notin V /\ c \notin W /\ h \in HeapType
      /\ PairsExact(h.allocation, V \cup {c}) /\ h.free_size = Cardinality(Cover(V \cup {c}))
  BY DEF Taken, Core
<1>2. c \in Nodes /\ Tiles(V \cup (W \cup {c})) /\ SplitExact(h.split, V \cup (W \cup {c}))
      /\ \A d \in V : d.addr \in Addresses
  <2>1. c \in Nodes /\ \A d \in V : d.addr \in Addresses
    BY <1>1, CoreFacts
  <2>2. Tiles(V \cup (W \cup {c})) /\ SplitExact(h.split, V \cup (W \cup {c}))
    BY <1>1 DEF Core
  <2>. QED BY <2>1, <2>2
<1>3. up \in Nodes /\ low \in Nodes /\ low # up /\ Units(c) = Units(low) \cup Units(up)
  BY <1>2, Halves
<1>4. /\ up \notin V \cup (W \cup {c}) /\ low \notin V \cup (W \cup {c})
      /\ Tiles(((V \cup (W \cup {c})) \ {c}) \cup {low, up})
      /\ SplitExact(h.split \cup {Bit(c)}, ((V \cup (W \cup {c})) \ {c}) \cup {low, up})
  <2>1. c \in V \cup (W \cup {c})
    OBVIOUS
  <2>. QED BY <1>2, <2>1, TileSplit, SplitExactSplit
<1>5. split(h, c.addr, c.level) = g
  BY DEF split, Upper
<1> HIDE DEF up, low, g
<1>6. ((V \cup (W \cup {c})) \ {c}) \cup {low, up} = V \cup X
  BY <1>1
<1>7. V \cap X = {} /\ up \notin V /\ low \notin V /\ up \notin W /\ low \notin W
  BY <1>1, <1>4 DEF Core
<1>8. /\ marked \in HeapType /\ marked.split = h.split \cup {Bit(c)}
      /\ marked.allocation = h.allocation /\ marked.free_size = h.free_size
      /\ marked.node = h.node /\ marked.free_blocks = h.free_blocks
      /\ marked.free_count = h.free_count
  <2>1. Bit(c) \in Bits
    BY <1>2, BitFacts
  <2>2. h.split \cup {Bit(c)} \in SUBSET Bits
    BY <1>1, <2>1, TypeFacts
  <2>3. marked = [h EXCEPT !.split = h.split \cup {Bit(c)}]
    BY DEF set_bit, Bit
  <2>. HIDE DEF marked
  <2>4. marked \in HeapType
    BY <1>1, <2>2, <2>3, UpdateType
  <2>. QED BY <1>1, <2>3, <2>4 DEF HeapType
<1> HIDE DEF marked
<1>9. /\ f \in HeapType /\ f.split = h.split \cup {Bit(c)} /\ f.free_size = h.free_size
      /\ f.node = h.node /\ f.free_blocks = h.free_blocks /\ f.free_count = h.free_count
      /\ PairsExact(f.allocation, SymDiff(V \cup {c}, {c}))
  BY <1>1, <1>2, <1>8, FlipFacts
<1> HIDE DEF f
<1>10. /\ \A l \in Levels : First(f, l) = First(h, l) /\ Count(f, l) = Count(h, l)
       /\ \A a : NextOf(f, a) = NextOf(h, a) /\ PrevOf(f, a) = PrevOf(h, a)
  BY <1>9 DEF First, Count, NextOf, PrevOf
<1>11. Core(f, V, X)
  <2>1. Tiles(V \cup X) /\ SplitExact(f.split, V \cup X)
    BY <1>4, <1>6, <1>9
  <2>. HIDE DEF X
  <2>. QED BY <1>1, <1>7, <1>9, <1>10, <2>1, CoreSame
<1>12. Links(f, V)
  BY <1>1, <1>10, LinksSame
<1>13. X = (W \cup {low}) \cup {up} /\ up \notin W \cup {low}
  BY <1>3, <1>7
<1> HIDE DEF X
<1>14. /\ Links(g, V \cup {up})
       /\ \A d \in V \cup {up} : NextOf(g, d.addr) \in AddrOrNull /\ PrevOf(g, d.addr) \in AddrOrNull
  BY <1>7, <1>11, <1>12, <1>13, LinksJoin DEF g
<1>15. /\ g \in HeapType
       /\ g.split = f.split /\ g.allocation = f.allocation /\ g.free_size = f.free_size
       /\ \A l \in Levels : Count(g, l) = IF l = up.level THEN Count(f, l) + 1 ELSE Count(f, l)
  <2>1. up.addr \in Addresses /\ up.level \in Levels
    BY <1>3, NodeFacts
  <2>. QED BY <1>9, <2>1, AddFirstFacts DEF g
<1>16. Merged(V \cup {up})
  <2>1. Buddy(up) = low
    BY <1>2, ParentOfHalves DEF up, low
  <2>. QED BY <1>1, <1>3, <1>7, <2>1, MergedJoin DEF Core
<1>17. Core(g, V \cup {up}, W \cup {low})
  BY <1>11, <1>13, <1>14, <1>15, <1>16, CoreJoin
<1>18. PairsExact(g.allocation, (V \cup {up}) \cup {low})
  <2>1. SymDiff(V \cup {c}, {c}) = V
    BY <1>1 DEF SymDiff
  <2> DEFINE V2 == (V \cup {up}) \cup {low}
  <2>2. PairsExact(g.allocation, V)
    BY <1>9, <1>15, <2>1
  <2>3. /\ low \in V <=> up \in V
        /\ low \in V2 <=> up \in V2
        /\ \A x : x \notin {low, up} => (x \in V <=> x \in V2)
    BY <1>7
  <2>. HIDE DEF V2
  <2>4. PairsExact(g.allocation, V2)
    BY <1>2, <2>2, <2>3, PairsBoth DEF up, low
  <2>. QED BY <2>4 DEF V2
<1>19. g.free_size = Cardinality(Cover((V \cup {up}) \cup {low}))
  <2>1. Cover((V \cup {up}) \cup {low}) = Cover(V \cup {c})
    BY <1>3 DEF Cover
  <2>. QED BY <1>1, <1>9, <1>15, <2>1
<1>20. low \notin V \cup {up} /\ low \notin W
  BY <1>3, <1>7
<1>21. Taken(g, V \cup {up}, W, low)
  BY <1>14, <1>17, <1>18, <1>19, <1>20 DEF Taken
<1>. QED BY <1>5, <1>21 DEF up, low

\* What allocator_allocate() does to the block that has left its list.
Handed(h, b, l) ==
    [flip_allocation_bit(h, b, l)
        EXCEPT !.free_size = @ - size_from_level(l),
               !.node = [a \in Addresses |-> IF a \in b .. (b + size_from_level(l) - 1)
                                             THEN JunkNode ELSE @[a]]]

LEMMA HandedGood ==
    ASSUME NEW h, NEW V, NEW W, NEW c, Taken(h, V, W, c)
    PROVE  Good(Handed(h, c.addr, c.level), V, W \cup {c})
<1> DEFINE f == flip_allocation_bit(h, c.addr, c.level)
           s == size_from_level(c.level)
           node == [a \in Addresses |-> IF a \in Units(c) THEN JunkNode ELSE h.node[a]]
           size == h.free_size - s
           g == Handed(h, c.addr, c.level)
<1>1. Core(h, V, W \cup {c}) /\ Links(h, V) /\ c \notin V /\ c \notin W /\ h \in HeapType
      /\ PairsExact(h.allocation, V \cup {c}) /\ h.free_size = Cardinality(Cover(V \cup {c}))
  BY DEF Taken, Core
<1>2. /\ c \in Nodes /\ \A d \in V : d.addr \in Addresses /\ d \in Nodes
      /\ \A d \in V : Units(d) \cap Units(c) = {}
  BY <1>1, CoreFacts
<1>3. /\ f \in HeapType /\ f.split = h.split /\ f.free_size = h.free_size
      /\ f.node = h.node /\ f.free_blocks = h.free_blocks /\ f.free_count = h.free_count
      /\ PairsExact(f.allocation, SymDiff(V \cup {c}, {c}))
  BY <1>1, <1>2, FlipFacts
<1>4. size = Cardinality(Cover(V)) /\ size \in Nat
  <2>1. Cardinality(Cover(V)) \in Nat /\ h.free_size = Cardinality(Cover(V)) + s
    BY <1>1, <1>2, CoverJoin
  <2>2. s \in Nat
    BY <1>2, NodeFacts, SizeFacts
  <2>. HIDE DEF s
  <2>. QED BY <2>1, <2>2
<1>5. node \in [Addresses -> [prev : Words, next : Words]]
  <2>1. JunkNode \in [prev : Words, next : Words]
    BY DEF JunkNode, Words
  <2>2. \A a \in Addresses : h.node[a] \in [prev : Words, next : Words]
    BY <1>1 DEF HeapType
  <2>. QED BY <2>1, <2>2
<1>6. g = [[f EXCEPT !.free_size = size] EXCEPT !.node = node]
  <2>1. Units(c) = c.addr .. (c.addr + s - 1)
    BY DEF Units
  <2>2. g = [f EXCEPT !.free_size = f.free_size - s,
                      !.node = [a \in Addresses |-> IF a \in c.addr .. (c.addr + s - 1)
                                                    THEN JunkNode ELSE f.node[a]]]
    BY DEF Handed
  <2>. HIDE DEF f, g, s
  <2>. QED BY <1>3, <2>1, <2>2
<1> HIDE DEF f, g, size, s, node
<1>7. g \in HeapType
  BY <1>3, <1>4, <1>5, <1>6, UpdateType
<1>8. /\ g.split = h.split /\ g.allocation = f.allocation /\ g.free_size = size
      /\ g.node = node /\ g.free_blocks = h.free_blocks /\ g.free_count = h.free_count
  BY <1>3, <1>6 DEF HeapType
<1>9. /\ \A l \in Levels : First(g, l) = First(h, l) /\ Count(g, l) = Count(h, l)
      /\ \A d \in V : NextOf(g, d.addr) = NextOf(h, d.addr) /\ PrevOf(g, d.addr) = PrevOf(h, d.addr)
  <2>1. \A d \in V : d.addr \notin Units(c)
    BY <1>2, UnitsFacts
  <2>2. \A d \in V : node[d.addr] = h.node[d.addr]
    BY <1>2, <2>1 DEF node
  <2>. QED BY <1>8, <2>2 DEF First, Count, NextOf, PrevOf
<1>10. Core(g, V, W \cup {c})
  <2>1. V \cap (W \cup {c}) = {} /\ Tiles(V \cup (W \cup {c})) /\ SplitExact(g.split, V \cup (W \cup {c}))
    BY <1>1, <1>8 DEF Core
  <2>. QED BY <1>1, <1>7, <1>9, <2>1, CoreSame
<1>11. Links(g, V)
  BY <1>1, <1>9, LinksSame
<1>12. PairsExact(g.allocation, V)
  <2>1. SymDiff(V \cup {c}, {c}) = V
    BY <1>1 DEF SymDiff
  <2>. QED BY <1>3, <1>8, <2>1
<1>13. Good(g, V, W \cup {c})
  BY <1>4, <1>8, <1>10, <1>11, <1>12 DEF Good
<1>. QED BY <1>13 DEF g

\* The loop of create_block(), and of the other recursive functions: such a
\* function exists, because it does up to every bound.
LEMMA CutFacts ==
    ASSUME NEW h, NEW level \in Nat, NEW source \in Nat, source <= level,
           source = Max(Sources(h, level))
    PROVE  \E f : /\ create_block(h, level) = f[level - source]
                  /\ f[0] = TakeFirst(h, source)
                  /\ \A i \in 0 .. (level - source) : i # 0 =>
                        f[i] = split(f[i - 1], h.free_blocks[source], source + i - 1)
<1> DEFINE block == h.free_blocks[source]
           n == level - source
           start == TakeFirst(h, source)
           IsCut(f, m) == f = [i \in 0 .. m |-> IF i = 0 THEN start
                                                ELSE split(f[i - 1], block, source + i - 1)]
           f == CHOOSE x : IsCut(x, n)
           T == {m \in Nat : \E x : IsCut(x, m)}
<1>1. 0 \in T
  <2> DEFINE x == [i \in 0 .. 0 |-> start]
  <2>1. \A i \in 0 .. 0 : i = 0
    OBVIOUS
  <2>2. IsCut(x, 0)
    <3>. HIDE DEF start, block
    <3>. QED BY <2>1
  <2>. QED BY <2>2
<1>2. ASSUME NEW m \in Nat, m \in T PROVE m + 1 \in T
  <2>1. PICK x : IsCut(x, m)
    BY <1>2
  <2> DEFINE y == [i \in 0 .. (m + 1) |-> IF i = m + 1 THEN split(x[m], block, source + m) ELSE x[i]]
  <2>. HIDE DEF start, block
  <2>2. \A i \in 0 .. (m + 1) : i # 0 => i - 1 \in 0 .. m
    OBVIOUS
  <2>3. \A i \in 0 .. (m + 1) : i # 0 => y[i - 1] = x[i - 1]
    BY <2>2
  <2>4. \A i \in 0 .. (m + 1) : y[i] = IF i = 0 THEN start ELSE split(y[i - 1], block, source + i - 1)
    <3>1. \A i \in 0 .. m : x[i] = IF i = 0 THEN start ELSE split(x[i - 1], block, source + i - 1)
      BY <2>1
    <3>. TAKE i \in 0 .. (m + 1)
    <3>2. CASE i = m + 1
      <4>1. i # 0 /\ i - 1 = m /\ source + i - 1 = source + m
        BY <3>2
      <4>2. y[i - 1] = x[m] /\ y[i] = split(x[m], block, source + m)
        BY <2>3, <3>2, <4>1
      <4>. QED BY <4>1, <4>2
    <3>3. CASE i # m + 1
      <4>1. i \in 0 .. m /\ y[i] = x[i]
        BY <3>3
      <4>. QED BY <2>3, <3>1, <4>1
    <3>. QED BY <3>2, <3>3
  <2>5. IsCut(y, m + 1)
    BY <2>4
  <2>6. m + 1 \in Nat
    OBVIOUS
  <2>. HIDE DEF IsCut
  <2>. QED BY <2>5, <2>6
<1>3. n \in Nat
  OBVIOUS
<1>4. IsCut(f, n)
  <2>1. \A m \in Nat : m \in T
    <3>. HIDE DEF T
    <3>. QED BY <1>1, <1>2, NatSetInduction
  <2>2. \E x : IsCut(x, n)
    BY <1>3, <2>1
  <2>. HIDE DEF IsCut
  <2>. QED BY <2>2
<1>5. create_block(h, level) = f[n]
  BY DEF create_block
<1>6. 0 \in 0 .. n
  BY <1>3
<1>7. f[0] = start /\ \A i \in 0 .. n : i # 0 => f[i] = split(f[i - 1], block, source + i - 1)
  <2>. HIDE DEF f, n, start, block
  <2>. QED BY <1>4, <1>6
<1>. QED BY <1>5, <1>7

\* create_block() takes a block of the wanted level.
LEMMA CreateTaken ==
    ASSUME NEW h, NEW V, NEW W, Good(h, V, W), NEW level \in Levels, Sources(h, level) # {}
    PROVE  LET block == h.free_blocks[Max(Sources(h, level))]
           IN  \E U : Taken(create_block(h, level), U, W, [addr |-> block, level |-> level])
<1> DEFINE source == Max(Sources(h, level))
           block == h.free_blocks[source]
           n == level - source
<1>1. source \in Sources(h, level)
  <2>1. Sources(h, level) \in SUBSET (0 .. level) /\ level \in Nat
    BY DEF Sources, Levels
  <2>. QED BY <2>1, GreatestNatural
<1>2. /\ source \in Levels /\ source \in Nat /\ level \in Nat /\ source <= level
      /\ n \in Nat /\ source + n = level /\ level <= MaxLevel /\ MaxLevel \in Nat
      /\ First(h, source) # NULL
  BY <1>1, LevelAssumption DEF Sources, Levels, First
<1>3. PICK f : /\ create_block(h, level) = f[n]
               /\ f[0] = TakeFirst(h, source)
               /\ \A i \in 0 .. n : i # 0 => f[i] = split(f[i - 1], block, source + i - 1)
  <2>1. source = Max(Sources(h, level))
    OBVIOUS
  <2>. HIDE DEF source
  <2>. QED BY <1>2, <2>1, CutFacts
<1> HIDE DEF source, n, block
<1> DEFINE At(i) == [addr |-> block, level |-> source + i]
           T == {i \in Nat : i <= n => \E U : Taken(f[i], U, W, At(i))}
<1>4. 0 \in T
  <2>1. First(h, source) = block /\ source + 0 = source
    BY <1>2 DEF First, block
  <2>2. \E U : Taken(TakeFirst(h, source), U, W, [addr |-> First(h, source), level |-> source])
    BY <1>2, TakeGood
  <2>. QED BY <1>3, <2>1, <2>2
<1>5. ASSUME NEW i \in Nat, i \in T PROVE i + 1 \in T
  <2>. SUFFICES ASSUME i + 1 <= n PROVE \E U : Taken(f[i + 1], U, W, At(i + 1))
    OBVIOUS
  <2>1. i <= n /\ source + i < MaxLevel /\ source + (i + 1) = (source + i) + 1
        /\ i + 1 \in 0 .. n /\ i + 1 # 0 /\ (i + 1) - 1 = i /\ source + (i + 1) - 1 = source + i
    BY <1>2
  <2>2. PICK U : Taken(f[i], U, W, At(i))
    BY <1>5, <2>1
  <2>3. f[i + 1] = split(f[i], block, source + i)
    BY <1>3, <2>1
  <2>4. At(i).addr = block /\ At(i).level = source + i
    OBVIOUS
  <2>5. Lower(At(i)) = At(i + 1)
    BY <2>1 DEF Lower
  <2>. HIDE DEF At, T
  <2>6. Taken(split(f[i], block, source + i), U \cup {Upper(At(i))}, W, At(i + 1))
    BY <2>1, <2>2, <2>4, <2>5, SplitTaken
  <2>. QED BY <2>3, <2>6
<1>6. n \in T
  <2>. HIDE DEF T
  <2>. QED BY <1>2, <1>4, <1>5, NatSetInduction
<1>7. \E U : Taken(f[n], U, W, [addr |-> block, level |-> level])
  BY <1>2, <1>6
<1>. QED BY <1>3, <1>7 DEF source, block

\* allocator_allocate(): the block is handed out and everything else stays in
\* order.
LEMMA AllocateGood ==
    ASSUME NEW h, NEW V, NEW W, Good(h, V, W), NEW level \in Levels, HasBlock(h, level)
    PROVE  LET c == [addr |-> BlockOf(h, level), level |-> level]
           IN  /\ \E U : Good(allocator_allocate(h, level), U, W \cup {c})
               /\ c \in Nodes /\ c \notin W /\ BlockOf(h, level) \in Addresses
<1> DEFINE block == BlockOf(h, level)
           c == [addr |-> block, level |-> level]
           taken == IF h.free_blocks[level] # NULL
                    THEN TakeFirst(Unlink(h, level), level)
                    ELSE create_block(h, level)
<1>1. \E U : Taken(taken, U, W, c)
  <2>1. CASE h.free_blocks[level] # NULL
    <3>1. block = First(h, level) /\ taken = TakeFirst(Unlink(h, level), level)
      BY <2>1 DEF BlockOf, First
    <3>2. First(h, level) # NULL
      BY <2>1 DEF First
    <3>. HIDE DEF block, taken
    <3>. QED BY <3>1, <3>2, TakeGood
  <2>2. CASE h.free_blocks[level] = NULL
    <3>1. Sources(h, level) # {} /\ taken = create_block(h, level)
          /\ block = h.free_blocks[Max(Sources(h, level))]
      BY <2>2 DEF HasBlock, BlockOf
    <3>. HIDE DEF block, taken
    <3>. QED BY <3>1, CreateTaken
  <2>. QED BY <2>1, <2>2
<1>2. allocator_allocate(h, level) = Handed(taken, c.addr, c.level)
  BY DEF allocator_allocate, Handed
<1> HIDE DEF block, taken
<1>3. PICK U : Taken(taken, U, W, c)
  BY <1>1
<1>4. Good(Handed(taken, c.addr, c.level), U, W \cup {c})
  <2>. HIDE DEF c
  <2>. QED BY <1>3, HandedGood
<1>5. c \in Nodes /\ c.addr \in Addresses /\ c \notin W
  <2>1. Core(taken, U, W \cup {c}) /\ c \notin W
    BY <1>3 DEF Taken
  <2>. HIDE DEF c
  <2>. QED BY <2>1, CoreFacts
<1>. QED BY <1>2, <1>4, <1>5 DEF block
-----------------------------------------------------------------------------
(***************************************************************************)
(* Deallocation                                                            *)
(***************************************************************************)
\* The block the loop has reached.
Reached(m) == [addr |-> m.block, level |-> m.level]

\* What holds between two turns of the loop: the block reached is neither free
\* nor in use.  Until the loop ends the bit of the block has not been flipped;
\* when it ends the buddy is not free.  After a stray removal the lists mean
\* nothing any more, the rest still does.
Loop(m, V, W) ==
    LET c == Reached(m) IN
    /\ c \notin V /\ c \notin W
    /\ Core(m.heap, V, W \cup {c})
    /\ ~ m.stray => Links(m.heap, V)
    /\ m.heap.free_size = Cardinality(Cover(V \cup {c}))
    /\ IF m.end THEN PairsExact(m.heap.allocation, V \cup {c}) /\ (c.level > 0 => Buddy(c) \notin V)
       ELSE PairsExact(m.heap.allocation, V)

\* The loop finds the buddy in use.
LEMMA LoopEnds ==
    ASSUME NEW m, NEW V, NEW W, Loop(m, V, W), ~ m.end, m.level > 0,
           NEW h, h = flip_allocation_bit(m.heap, m.block, m.level)
    PROVE  /\ h \in HeapType /\ Reached(m) \in Nodes
           /\ Core(h, V, W \cup {Reached(m)}) /\ (~ m.stray => Links(h, V))
           /\ h.free_size = Cardinality(Cover(V \cup {Reached(m)}))
           /\ PairsExact(h.allocation, V \cup {Reached(m)})
           /\ get_allocation_bit(h, m.block, m.level) <=> Buddy(Reached(m)) \notin V
<1> DEFINE c == Reached(m)
           a == m.heap
<1>1. /\ c.addr = m.block /\ c.level = m.level
      /\ c \notin V /\ c \notin W /\ Core(a, V, W \cup {c}) /\ (~ m.stray => Links(a, V))
      /\ a.free_size = Cardinality(Cover(V \cup {c})) /\ PairsExact(a.allocation, V)
  BY DEF Loop, Reached
<1> HIDE DEF c, a
<1>2. c \in Nodes /\ a \in HeapType
  BY <1>1, CoreFacts
<1>3. /\ h \in HeapType /\ h.split = a.split /\ h.free_size = a.free_size
      /\ h.node = a.node /\ h.free_blocks = a.free_blocks /\ h.free_count = a.free_count
      /\ PairsExact(h.allocation, SymDiff(V, {c}))
  <2>1. h = flip_allocation_bit(a, c.addr, c.level)
    BY <1>1 DEF a
  <2>2. PairsExact(a.allocation, V)
    BY <1>1
  <2> DEFINE g == flip_allocation_bit(a, c.addr, c.level)
  <2>3. /\ g \in HeapType /\ g.split = a.split /\ g.free_size = a.free_size
        /\ g.node = a.node /\ g.free_blocks = a.free_blocks /\ g.free_count = a.free_count
        /\ \A X : PairsExact(a.allocation, X) => PairsExact(g.allocation, SymDiff(X, {c}))
    BY <1>2, FlipFacts
  <2>. HIDE DEF g
  <2>4. h = g
    BY <2>1 DEF g
  <2>. QED BY <2>2, <2>3, <2>4
<1>4. SymDiff(V, {c}) = V \cup {c}
  BY <1>1 DEF SymDiff
<1>5. /\ \A l \in Levels : First(h, l) = First(a, l) /\ Count(h, l) = Count(a, l)
      /\ \A d : NextOf(h, d) = NextOf(a, d) /\ PrevOf(h, d) = PrevOf(a, d)
  BY <1>3 DEF First, Count, NextOf, PrevOf
<1>6. Core(h, V, W \cup {c})
  <2>1. V \cap (W \cup {c}) = {} /\ Tiles(V \cup (W \cup {c})) /\ SplitExact(h.split, V \cup (W \cup {c}))
    BY <1>1, <1>3 DEF Core
  <2>. QED BY <1>1, <1>3, <1>5, <2>1, CoreSame
<1>7. ~ m.stray => Links(h, V)
  BY <1>1, <1>5, LinksSame
<1>8. get_allocation_bit(h, m.block, m.level) <=> Buddy(c) \notin V
  <2>1. allocation_bit_index(c.addr, c.level) = Bit(Parent(c)) /\ Buddy(c) # c
    BY <1>1, <1>2, BuddyFacts
  <2>2. Bit(Parent(c)) \in h.allocation <=> Buddy(c) \notin V \cup {c}
    <3>1. c \in V \cup {c} /\ c.level > 0 /\ PairsExact(h.allocation, V \cup {c})
      BY <1>1, <1>3, <1>4
    <3>. QED BY <1>2, <3>1, PairsRead
  <2>. QED BY <1>1, <2>1, <2>2 DEF get_allocation_bit, get_bit
<1>9. h.free_size = Cardinality(Cover(V \cup {c})) /\ PairsExact(h.allocation, V \cup {c})
  BY <1>1, <1>3, <1>4
<1>. QED BY <1>2, <1>3, <1>6, <1>7, <1>8, <1>9 DEF c

\* The loop finds the buddy free: it leaves its list and joins the block.
Joined(h, block, level) ==
    LET buddy == calculate_buddy_address(block, level)
    IN  [remove_from_list(h, buddy, level)
            EXCEPT !.split = reset_bit(@, split_bit_index(block, level - 1)),
                   !.node[Max({block, buddy})] = JunkNode]

LEMMA MaxMin ==
    ASSUME NEW x \in Int, NEW y \in Int, x < y
    PROVE  Max({x, y}) = y /\ Max({y, x}) = y /\ Min({x, y}) = x /\ Min({y, x}) = x
<1>1. {x, y} = {y, x}
  OBVIOUS
<1>2. Max({x, y}) = y
  BY MaxIs
<1>3. Min({x, y}) = x
  BY DEF Min
<1>. QED BY <1>1, <1>2, <1>3

LEMMA JoinedFacts ==
    ASSUME NEW h, NEW V, NEW W, NEW c, Core(h, V, W \cup {c}), c \notin V, c \notin W,
           c.level > 0, Buddy(c) \in V, PairsExact(h.allocation, V \cup {c}),
           h.free_size = Cardinality(Cover(V \cup {c}))
    PROVE  LET g == Joined(h, c.addr, c.level)
               bud == Buddy(c)
               p == Parent(c)
               U == V \ {bud}
           IN  /\ p.addr = Min({c.addr, bud.addr}) /\ p.level = c.level - 1
               /\ bud.addr = calculate_buddy_address(c.addr, c.level)
               /\ p \notin U /\ p \notin W
               /\ Core(g, U, W \cup {p})
               /\ PairsExact(g.allocation, U)
               /\ g.free_size = Cardinality(Cover(U \cup {p}))
               /\ (Links(h, V) /\ ~ (First(h, c.level) = bud.addr /\ PrevOf(h, bud.addr) # NULL))
                     => Links(g, U)
<1> DEFINE bud == Buddy(c)
           p == Parent(c)
           U == V \ {bud}
           r == remove_from_list(h, bud.addr, c.level)
           top == Max({c.addr, bud.addr})
           g == Joined(h, c.addr, c.level)
           D == V \cup (W \cup {c})
           E == (D \ {Lower(p), Upper(p)}) \cup {p}
<1>1. /\ c \in Nodes /\ h \in HeapType /\ bud \in V
      /\ Tiles(D) /\ SplitExact(h.split, D)
      /\ \A d \in V : d.addr \in Addresses /\ d.addr # c.addr
      /\ \A d, e \in V : d.addr = e.addr => d = e
  <2>1. Tiles(D) /\ SplitExact(h.split, D)
    BY DEF Core
  <2>. QED BY <2>1, CoreFacts
<1>2. /\ bud.addr = calculate_buddy_address(c.addr, c.level) /\ bud.level = c.level
      /\ split_bit_index(c.addr, c.level - 1) = Bit(p) /\ bud \in Nodes /\ bud # c
      /\ \/ c = Lower(p) /\ bud = Upper(p)
         \/ c = Upper(p) /\ bud = Lower(p)
  BY <1>1, BuddyFacts
<1>3. p \in Nodes /\ p.level = c.level - 1 /\ p.level < MaxLevel
  BY <1>1, ParentFacts
<1>4. /\ Lower(p).addr = p.addr /\ Upper(p).addr \in Int /\ p.addr \in Int
      /\ p.addr < Upper(p).addr /\ Units(p) = Units(Lower(p)) \cup Units(Upper(p))
  <2> DEFINE s == size_from_level(p.level + 1)
  <2>1. Upper(p).addr = p.addr + s /\ s \in Nat /\ s >= 1 /\ p.addr \in Int
    <3>1. p.level \in Levels /\ p.addr \in Int
      BY <1>3, NodeFacts, NullFacts
    <3>2. p.level + 1 \in Levels
      BY <1>3, <3>1, LevelAssumption DEF Levels
    <3>. QED BY <1>3, <3>1, <3>2, SizeFacts DEF Upper
  <2>. HIDE DEF s
  <2>2. Upper(p).addr \in Int /\ p.addr < Upper(p).addr
    BY <2>1
  <2>3. Lower(p).addr = p.addr
    BY DEF Lower
  <2>. QED BY <1>3, <2>1, <2>2, <2>3, Halves
<1>5. p.addr = Min({c.addr, bud.addr}) /\ top = Upper(p).addr
  <2> DEFINE x == p.addr
             y == Upper(p).addr
  <2>1. x \in Int /\ y \in Int /\ x < y
    BY <1>4
  <2>. HIDE DEF p, bud
  <2>2. (c.addr = x /\ bud.addr = y) \/ (c.addr = y /\ bud.addr = x)
    <3> DEFINE lo == Lower(p)
               up == Upper(p)
    <3>3. lo.addr = x /\ up.addr = y
      BY <1>4
    <3>. HIDE DEF lo, up, x, y
    <3>1. CASE c = lo /\ bud = up
      BY <3>1, <3>3
    <3>2. CASE c = up /\ bud = lo
      BY <3>2, <3>3
    <3>4. (c = lo /\ bud = up) \/ (c = up /\ bud = lo)
      BY <1>2 DEF lo, up
    <3>. QED BY <3>1, <3>2, <3>4
  <2>. HIDE DEF x, y
  <2>3. Max({x, y}) = y /\ Max({y, x}) = y /\ Min({x, y}) = x /\ Min({y, x}) = x
    BY <2>1, MaxMin
  <2>4. x = Min({c.addr, bud.addr}) /\ Max({c.addr, bud.addr}) = y
    BY <2>2, <2>3
  <2>. QED BY <2>4 DEF x, y
<1>6. Lower(p) \in D /\ Upper(p) \in D
  BY <1>1, <1>2
<1> HIDE DEF p, bud, D
<1>7. Tiles(E) /\ SplitExact(h.split \ {Bit(p)}, E) /\ p \notin D
  BY <1>1, <1>3, <1>6, TileMerge, SplitExactMerge
<1>8. /\ E = U \cup (W \cup {p}) /\ U \cap (W \cup {p}) = {} /\ p \notin V /\ p \notin W
      /\ bud \notin W
  <2>1. V \cap (W \cup {c}) = {}
    BY DEF Core
  <2>2. {Lower(p), Upper(p)} = {c, bud}
    BY <1>2
  <2>. QED BY <1>1, <1>7, <2>1, <2>2 DEF D
<1> HIDE DEF E
<1>9. /\ r \in HeapType
      /\ r.split = h.split /\ r.allocation = h.allocation /\ r.free_size = h.free_size
      /\ \A k \in Levels : First(r, k) = IF k = c.level /\ PrevOf(h, bud.addr) = NULL
                                         THEN NextOf(h, bud.addr) ELSE First(h, k)
      /\ \A k \in Levels : Count(r, k) = IF k = c.level THEN Count(h, k) - 1 ELSE Count(h, k)
      /\ \A a \in Addresses : NextOf(r, a) = IF a = PrevOf(h, bud.addr) THEN NextOf(h, bud.addr)
                                             ELSE NextOf(h, a)
      /\ \A a \in Addresses : PrevOf(r, a) = IF a = NextOf(h, bud.addr) THEN PrevOf(h, bud.addr)
                                             ELSE PrevOf(h, a)
      /\ NextOf(h, bud.addr) \in AddrOrNull /\ PrevOf(h, bud.addr) \in AddrOrNull
  <2>1. NextOf(h, bud.addr) \in AddrOrNull /\ PrevOf(h, bud.addr) \in AddrOrNull
    BY <1>1 DEF Core
  <2>2. c.level \in Levels /\ bud.addr \in Addresses
    BY <1>1, NodeFacts
  <2>3. Count(h, c.level) > 0
    <3>1. Count(h, c.level) = Cardinality(AtLevel(V, c.level)) /\ IsFiniteSet(V)
      BY <2>2 DEF Core
    <3>2. Cardinality(AtLevel(V, bud.level)) > 0
      BY <1>1, <3>1, CountLeave
    <3>. QED BY <1>2, <3>1, <3>2
  <2>. QED BY <1>1, <2>1, <2>2, <2>3, RemoveFacts
<1> HIDE DEF r
<1>10. Core(r, U, (W \cup {c}) \cup {bud})
  <2>1. \A l \in Levels : Count(r, l) = IF l = bud.level THEN Count(h, l) - 1 ELSE Count(h, l)
    BY <1>2, <1>9
  <2>2. \A d \in V : NextOf(h, d.addr) \in AddrOrNull /\ PrevOf(h, d.addr) \in AddrOrNull
    BY DEF Core
  <2>3. \A d \in V \ {bud} : NextOf(r, d.addr) \in AddrOrNull /\ PrevOf(r, d.addr) \in AddrOrNull
    BY <1>1, <1>9, <2>2
  <2>. QED BY <1>1, <1>9, <2>1, <2>3, CoreLeave
<1>11. /\ g \in HeapType /\ g.split = h.split \ {Bit(p)}
       /\ g.allocation = h.allocation /\ g.free_size = h.free_size
       /\ \A k \in Levels : First(g, k) = First(r, k) /\ Count(g, k) = Count(r, k)
       /\ \A a \in Addresses : a # top => NextOf(g, a) = NextOf(r, a) /\ PrevOf(g, a) = PrevOf(r, a)
  <2> DEFINE split2 == h.split \ {Bit(p)}
             node == [r.node EXCEPT ![top] = JunkNode]
  <2>1. split2 \in SUBSET Bits
    BY <1>1, TypeFacts
  <2>2. r.node \in [Addresses -> [prev : Words, next : Words]]
    BY <1>9 DEF HeapType
  <2>3. JunkNode \in [prev : Words, next : Words]
    BY DEF JunkNode, Words
  <2>4. node \in [Addresses -> [prev : Words, next : Words]]
        /\ \A a \in Addresses : a # top => node[a] = r.node[a]
    BY <2>2, <2>3
  <2>5. g = [[r EXCEPT !.split = split2] EXCEPT !.node = node]
    BY <1>2, <1>9 DEF Joined, reset_bit, r
  <2>. HIDE DEF split2, node, g
  <2>6. g \in HeapType
    BY <1>9, <2>1, <2>4, <2>5, UpdateType
  <2>7. /\ g.split = split2 /\ g.allocation = r.allocation /\ g.free_size = r.free_size
        /\ g.node = node /\ g.free_blocks = r.free_blocks /\ g.free_count = r.free_count
    BY <1>9, <2>5 DEF HeapType
  <2>8. \A k \in Levels : First(g, k) = First(r, k) /\ Count(g, k) = Count(r, k)
    BY <2>7 DEF First, Count
  <2>9. \A a \in Addresses : a # top => NextOf(g, a) = NextOf(r, a) /\ PrevOf(g, a) = PrevOf(r, a)
    BY <2>4, <2>7 DEF NextOf, PrevOf
  <2>. QED BY <1>9, <2>6, <2>7, <2>8, <2>9 DEF split2
<1> HIDE DEF g
<1>12. \A d \in U : NextOf(g, d.addr) = NextOf(r, d.addr) /\ PrevOf(g, d.addr) = PrevOf(r, d.addr)
  <2>1. top = c.addr \/ top = bud.addr
    BY <1>2, <1>5
  <2>2. \A d \in U : d.addr \in Addresses /\ d.addr # top
    BY <1>1, <2>1
  <2>. QED BY <1>11, <2>2
<1> HIDE DEF top
<1>13. Core(g, U, W \cup {p})
  <2> DEFINE X == W \cup {p}
             Y == (W \cup {c}) \cup {bud}
  <2>1. Tiles(U \cup X) /\ SplitExact(g.split, U \cup X) /\ U \cap X = {}
    BY <1>7, <1>8, <1>11
  <2>2. Core(r, U, Y)
    BY <1>10
  <2>3. \A l \in Levels : Count(g, l) = Count(r, l)
    BY <1>11
  <2>. HIDE DEF U, X, Y
  <2>4. Core(g, U, X)
    BY <1>11, <1>12, <2>1, <2>2, <2>3, CoreSame
  <2>. QED BY <2>4 DEF X
<1>14. PairsExact(g.allocation, U)
  <2> DEFINE Z == V \cup {c}
  <2>1. /\ Lower(p) \in Z <=> Upper(p) \in Z
        /\ Lower(p) \in U <=> Upper(p) \in U
        /\ \A x : x \notin {Lower(p), Upper(p)} => (x \in Z <=> x \in U)
    BY <1>1, <1>2
  <2>2. PairsExact(g.allocation, Z)
    BY <1>11
  <2>. HIDE DEF Z, U
  <2>. QED BY <1>3, <2>1, <2>2, PairsBoth
<1>15. g.free_size = Cardinality(Cover(U \cup {p}))
  <2>1. Units(p) = Units(c) \cup Units(bud)
    BY <1>2, <1>4
  <2>2. Cover(V \cup {c}) = Cover(U \cup {p})
    BY <1>1, <2>1 DEF Cover
  <2>. QED BY <1>11, <2>2
<1>16. ASSUME Links(h, V), ~ (First(h, c.level) = bud.addr /\ PrevOf(h, bud.addr) # NULL)
       PROVE  Links(g, U)
  <2> DEFINE X == W \cup {c}
             n == NextOf(h, bud.addr)
             q == PrevOf(h, bud.addr)
             first == First(h, bud.level)
  <2>1. Core(h, V, X) /\ bud.level \in Levels /\ c.level = bud.level
    BY <1>1, <1>2, CoreFacts
  <2>2. first # bud.addr => q \in Addresses
    BY <1>1, <1>16, <2>1, NeighbourFacts
  <2>. HIDE DEF X
  <2>3. q = NULL <=> first = bud.addr
    BY <1>16, <2>1, <2>2, NullFacts
  <2>4. /\ \A l \in Levels : Count(r, l) = IF l = bud.level THEN Count(h, l) - 1 ELSE Count(h, l)
        /\ \A l \in Levels : l # bud.level => First(r, l) = First(h, l)
        /\ First(r, bud.level) = IF first = bud.addr THEN n ELSE first
    BY <1>9, <2>1, <2>3
  <2>5. \A d \in V : d.addr \in Addresses
    BY <1>1
  <2>6. \A d \in V : d # bud => NextOf(r, d.addr) = IF first # bud.addr /\ d.addr = q
                                                    THEN n ELSE NextOf(h, d.addr)
    <3>1. \A a \in Addresses : NextOf(r, a) = IF a = q THEN n ELSE NextOf(h, a)
      BY <1>9
    <3>2. \A a \in Addresses : a = q => first # bud.addr
      BY <2>3, NullFacts
    <3>. HIDE DEF n, q, first
    <3>. QED BY <3>1, <3>2, <2>5
  <2>7. \A d \in V : d # bud /\ d.addr # First(r, bud.level) =>
            PrevOf(r, d.addr) = IF first # bud.addr /\ d.addr = n THEN q ELSE PrevOf(h, d.addr)
    BY <1>9, <2>4, <2>5
  <2>. HIDE DEF U
  <2>8. U = V \ {bud}
    BY DEF U
  <2>9. Links(r, V \ {bud})
    BY <1>1, <1>16, <2>1, <2>4, <2>6, <2>7, LinksLeave
  <2>10. \A l \in Levels : First(g, l) = First(r, l) /\ Count(g, l) = Count(r, l)
    BY <1>11
  <2>. QED BY <1>12, <2>8, <2>9, <2>10, LinksSame
<1>17. p \notin U
  BY <1>8
<1>. QED BY <1>2, <1>3, <1>5, <1>8, <1>13, <1>14, <1>15, <1>16, <1>17 DEF g, bud, p

\* The state of the loop.
MergeState(m) ==
    /\ m = [heap |-> m.heap, block |-> m.block, level |-> m.level, end |-> m.end, stray |-> m.stray]
    /\ m.end \in BOOLEAN /\ m.stray \in BOOLEAN

\* One turn of the loop.
LEMMA StepLoop ==
    ASSUME NEW m, NEW V, NEW W, MergeState(m), Loop(m, V, W), ~ m.end => m.level > 0
    PROVE  /\ MergeState(MergeStep(m)) /\ \E U : Loop(MergeStep(m), U, W)
           /\ ~ MergeStep(m).end => ~ m.end /\ MergeStep(m).level = m.level - 1
<1> DEFINE h == flip_allocation_bit(m.heap, m.block, m.level)
           c == Reached(m)
           bud == Buddy(c)
           buddy == calculate_buddy_address(m.block, m.level)
           bit == get_allocation_bit(h, m.block, m.level)
           x == MergeStep(m)
<1>1. CASE m.end
  <2>1. x = m
    BY <1>1 DEF MergeStep
  <2>. QED BY <1>1, <2>1
<1>2. CASE ~ m.end
  <2>1. c.addr = m.block /\ c.level = m.level /\ c \notin V /\ c \notin W /\ m.level > 0
    BY <1>2 DEF Loop, Reached
  <2>2. /\ h \in HeapType /\ c \in Nodes
        /\ Core(h, V, W \cup {c}) /\ (~ m.stray => Links(h, V))
        /\ h.free_size = Cardinality(Cover(V \cup {c}))
        /\ PairsExact(h.allocation, V \cup {c})
        /\ bit <=> bud \notin V
    <3>. HIDE DEF h, c, bud
    <3>1. h = flip_allocation_bit(m.heap, m.block, m.level)
      BY DEF h
    <3>2. /\ h \in HeapType /\ Reached(m) \in Nodes
          /\ Core(h, V, W \cup {Reached(m)}) /\ (~ m.stray => Links(h, V))
          /\ h.free_size = Cardinality(Cover(V \cup {Reached(m)}))
          /\ PairsExact(h.allocation, V \cup {Reached(m)})
          /\ get_allocation_bit(h, m.block, m.level) <=> Buddy(Reached(m)) \notin V
      BY <1>2, <2>1, <3>1, LoopEnds
    <3>. QED BY <3>2 DEF c, bud
  <2>3. CASE bit
    <3>1. x = [m EXCEPT !.heap = h, !.end = TRUE]
      BY <1>2, <2>3 DEF MergeStep
    <3>. HIDE DEF h, x, bit, bud
    <3>2. x = [heap |-> h, block |-> m.block, level |-> m.level, end |-> TRUE, stray |-> m.stray]
      BY <3>1 DEF MergeState
    <3>3. MergeState(x) /\ x.end
      BY <3>2 DEF MergeState
    <3>4. Reached(x) = c
      BY <3>2 DEF Reached
    <3>. HIDE DEF c
    <3>5. Buddy(c) \notin V
      BY <2>2, <2>3 DEF bud
    <3>6. x.heap = h /\ x.stray = m.stray
      BY <3>2
    <3>7. Loop(x, V, W)
      BY <2>1, <2>2, <3>3, <3>4, <3>5, <3>6 DEF Loop
    <3>. QED BY <3>3, <3>7 DEF x
  <2>4. CASE ~ bit
    <3> DEFINE g == Joined(h, m.block, m.level)
               p == Parent(c)
               U == V \ {bud}
               low == Min({m.block, buddy})
               stray == m.stray \/ (h.free_blocks[m.level] = buddy /\ h.node[buddy].prev # NULL)
    <3>1. x = [heap |-> g, block |-> low, level |-> m.level - 1, end |-> FALSE, stray |-> stray]
      BY <1>2, <2>4 DEF MergeStep, Joined
    <3>2. stray \in BOOLEAN
      BY DEF MergeState
    <3>3. stray <=> m.stray \/ (First(h, c.level) = buddy /\ PrevOf(h, buddy) # NULL)
      BY <2>1 DEF First, PrevOf
    <3>. HIDE DEF h, x, bit, stray, g
    <3>4. /\ p.addr = Min({c.addr, bud.addr}) /\ p.level = c.level - 1
          /\ bud.addr = calculate_buddy_address(c.addr, c.level)
          /\ p \notin U /\ p \notin W
          /\ Core(Joined(h, c.addr, c.level), U, W \cup {p})
          /\ PairsExact(Joined(h, c.addr, c.level).allocation, U)
          /\ Joined(h, c.addr, c.level).free_size = Cardinality(Cover(U \cup {p}))
          /\ (Links(h, V) /\ ~ (First(h, c.level) = bud.addr /\ PrevOf(h, bud.addr) # NULL))
                => Links(Joined(h, c.addr, c.level), U)
      <4>1. c.level > 0 /\ bud \in V
        BY <2>1, <2>2, <2>4
      <4>. HIDE DEF c
      <4>. QED BY <2>1, <2>2, <4>1, JoinedFacts
    <3>5. g = Joined(h, c.addr, c.level) /\ buddy = bud.addr /\ low = p.addr
      BY <2>1, <3>4 DEF g
    <3>6. MergeState(x) /\ ~ x.end /\ x.level = m.level - 1 /\ x.heap = g /\ x.stray = stray
      BY <3>1, <3>2 DEF MergeState
    <3>7. Reached(x) = p
      <4>1. Reached(x) = [addr |-> low, level |-> m.level - 1]
        BY <3>1 DEF Reached
      <4>2. p.level = m.level - 1 /\ p = [addr |-> p.addr, level |-> p.level]
        BY <2>1, <3>4 DEF Parent
      <4>. HIDE DEF p, low
      <4>. QED BY <3>5, <4>1, <4>2
    <3>. HIDE DEF p, low, U, bud, buddy, c
    <3>8. ~ stray => Links(g, U)
      BY <2>2, <3>3, <3>4, <3>5
    <3>9. /\ Core(g, U, W \cup {p}) /\ PairsExact(g.allocation, U)
          /\ g.free_size = Cardinality(Cover(U \cup {p})) /\ p \notin U /\ p \notin W
      BY <3>4, <3>5
    <3>10. Loop(x, U, W)
      BY <3>6, <3>7, <3>8, <3>9 DEF Loop
    <3>. QED BY <1>2, <3>6, <3>10 DEF x
  <2>. QED BY <2>3, <2>4
<1>. QED BY <1>1, <1>2

\* The loop as a function of its turns.
MergeStart(h, block, level) ==
    [heap |-> [h EXCEPT !.free_size = @ + size_from_level(level)],
     block |-> block, level |-> level, end |-> FALSE, stray |-> FALSE]

LEMMA MergeFacts ==
    ASSUME NEW h, NEW block, NEW level \in Nat
    PROVE  \E f : /\ Merge(h, block, level) = f[level]
                  /\ f[0] = MergeStart(h, block, level)
                  /\ \A i \in 0 .. level : i # 0 => f[i] = MergeStep(f[i - 1])
<1> DEFINE start == MergeStart(h, block, level)
           IsMerge(f, m) == f = [i \in 0 .. m |-> IF i = 0 THEN start ELSE MergeStep(f[i - 1])]
           f == CHOOSE x : IsMerge(x, level)
           T == {m \in Nat : \E x : IsMerge(x, m)}
<1>1. 0 \in T
  <2> DEFINE x == [i \in 0 .. 0 |-> start]
  <2>1. \A i \in 0 .. 0 : i = 0
    OBVIOUS
  <2>2. IsMerge(x, 0)
    <3>. HIDE DEF start
    <3>. QED BY <2>1
  <2>. QED BY <2>2
<1>2. ASSUME NEW m \in Nat, m \in T PROVE m + 1 \in T
  <2>1. PICK x : IsMerge(x, m)
    BY <1>2
  <2> DEFINE y == [i \in 0 .. (m + 1) |-> IF i = m + 1 THEN MergeStep(x[m]) ELSE x[i]]
  <2>. HIDE DEF start
  <2>2. \A i \in 0 .. (m + 1) : i # 0 => i - 1 \in 0 .. m
    OBVIOUS
  <2>3. \A i \in 0 .. (m + 1) : i # 0 => y[i - 1] = x[i - 1]
    BY <2>2
  <2>4. \A i \in 0 .. (m + 1) : y[i] = IF i = 0 THEN start ELSE MergeStep(y[i - 1])
    <3>1. \A i \in 0 .. m : x[i] = IF i = 0 THEN start ELSE MergeStep(x[i - 1])
      BY <2>1
    <3>. TAKE i \in 0 .. (m + 1)
    <3>2. CASE i = m + 1
      <4>1. i # 0 /\ i - 1 = m
        BY <3>2
      <4>2. y[i - 1] = x[m] /\ y[i] = MergeStep(x[m])
        BY <2>3, <3>2, <4>1
      <4>. QED BY <4>1, <4>2
    <3>3. CASE i # m + 1
      <4>1. i \in 0 .. m /\ y[i] = x[i]
        BY <3>3
      <4>. QED BY <2>3, <3>1, <4>1
    <3>. QED BY <3>2, <3>3
  <2>5. IsMerge(y, m + 1)
    BY <2>4
  <2>6. m + 1 \in Nat
    OBVIOUS
  <2>. HIDE DEF IsMerge
  <2>. QED BY <2>5, <2>6
<1>3. IsMerge(f, level)
  <2>1. \A m \in Nat : m \in T
    <3>. HIDE DEF T
    <3>. QED BY <1>1, <1>2, NatSetInduction
  <2>2. \E x : IsMerge(x, level)
    BY <2>1
  <2>. HIDE DEF IsMerge
  <2>. QED BY <2>2
<1>4. Merge(h, block, level) = f[level]
  BY DEF Merge, MergeStart
<1>5. 0 \in 0 .. level
  OBVIOUS
<1>6. f[0] = start /\ \A i \in 0 .. level : i # 0 => f[i] = MergeStep(f[i - 1])
  <2>. HIDE DEF f, start
  <2>. QED BY <1>3, <1>5
<1>. QED BY <1>4, <1>6

\* allocator_deallocate_level() of a block in use: without a stray removal
\* everything is in order afterwards.
LEMMA DeallocateGood ==
    ASSUME NEW h, NEW V, NEW W, NEW b, Good(h, V, W \cup {b}), b \notin W
    PROVE  /\ allocator_deallocate_level(h, b.addr, b.level) \in HeapType
           /\ ~ StrayRemoval(h, b.addr, b.level) =>
                 \E U : Good(allocator_deallocate_level(h, b.addr, b.level), U, W)
<1> DEFINE level == b.level
           start == MergeStart(h, b.addr, level)
           h2 == [h EXCEPT !.free_size = h.free_size + size_from_level(level)]
<1>1. /\ h \in HeapType /\ b \in Nodes /\ b \notin V /\ Core(h, V, W \cup {b}) /\ Links(h, V)
      /\ PairsExact(h.allocation, V) /\ h.free_size = Cardinality(Cover(V))
      /\ \A c \in V : c \in Nodes /\ Units(c) \cap Units(b) = {}
  <2>1. Core(h, V, W \cup {b}) /\ Links(h, V) /\ b \notin V
        /\ PairsExact(h.allocation, V) /\ h.free_size = Cardinality(Cover(V))
    BY DEF Good, Core
  <2>. QED BY <2>1, CoreFacts
<1>2. level \in Levels /\ level \in Nat /\ size_from_level(level) \in Nat
  BY <1>1, NodeFacts, SizeFacts DEF Levels
<1>3. MergeState(start) /\ ~ start.end /\ start.level = level /\ \E U : Loop(start, U, W)
  <2>1. start = [heap |-> h2, block |-> b.addr, level |-> level, end |-> FALSE, stray |-> FALSE]
    BY DEF MergeStart
  <2>2. Reached(start) = b
    <3>1. b = [addr |-> b.addr, level |-> b.level]
      BY <1>1, NodeFacts
    <3>. QED BY <2>1, <3>1 DEF Reached
  <2>3. /\ h2 \in HeapType /\ h2.split = h.split /\ h2.allocation = h.allocation
        /\ h2.free_size = h.free_size + size_from_level(level)
        /\ h2.node = h.node /\ h2.free_blocks = h.free_blocks /\ h2.free_count = h.free_count
    <3> DEFINE size == h.free_size + size_from_level(level)
    <3>1. size \in Nat
      BY <1>1, <1>2, TypeFacts
    <3>2. h2 = [h EXCEPT !.free_size = size]
      OBVIOUS
    <3>. HIDE DEF size, h2
    <3>3. h2 \in HeapType
      BY <1>1, <3>1, <3>2, UpdateType
    <3>4. /\ h2.split = h.split /\ h2.allocation = h.allocation /\ h2.free_size = size
          /\ h2.node = h.node /\ h2.free_blocks = h.free_blocks /\ h2.free_count = h.free_count
      BY <1>1, <3>2 DEF HeapType
    <3>. QED BY <3>3, <3>4 DEF size
  <2>. HIDE DEF h2, start
  <2>4. MergeState(start) /\ ~ start.end /\ start.level = level /\ start.heap = h2 /\ ~ start.stray
    BY <2>1 DEF MergeState
  <2>5. /\ \A l \in Levels : First(h2, l) = First(h, l) /\ Count(h2, l) = Count(h, l)
        /\ \A a : NextOf(h2, a) = NextOf(h, a) /\ PrevOf(h2, a) = PrevOf(h, a)
    BY <2>3 DEF First, Count, NextOf, PrevOf
  <2>6. Core(h2, V, W \cup {b})
    <3>1. V \cap (W \cup {b}) = {} /\ Tiles(V \cup (W \cup {b})) /\ SplitExact(h2.split, V \cup (W \cup {b}))
      BY <1>1, <2>3 DEF Core
    <3>. QED BY <1>1, <2>3, <2>5, <3>1, CoreSame
  <2>7. Links(h2, V)
    BY <1>1, <2>5, LinksSame
  <2>8. h2.free_size = Cardinality(Cover(V \cup {b}))
    BY <1>1, <2>3, CoverJoin
  <2>9. Loop(start, V, W)
    BY <1>1, <2>2, <2>3, <2>4, <2>6, <2>7, <2>8 DEF Loop
  <2>. QED BY <2>4, <2>9
<1>4. PICK f : /\ Merge(h, b.addr, level) = f[level]
               /\ f[0] = start
               /\ \A i \in 0 .. level : i # 0 => f[i] = MergeStep(f[i - 1])
  <2>. HIDE DEF level
  <2>. QED BY <1>2, MergeFacts
<1> HIDE DEF level, start
<1> DEFINE Ok(m, i) == /\ MergeState(m) /\ \E U : Loop(m, U, W)
                       /\ ~ m.end => m.level = level - i
           T == {i \in Nat : i <= level => Ok(f[i], i)}
<1>5. 0 \in T
  <2>1. level - 0 = level
    BY <1>2
  <2>. QED BY <1>3, <1>4, <2>1
<1>6. ASSUME NEW i \in Nat, i \in T PROVE i + 1 \in T
  <2>. SUFFICES ASSUME i + 1 <= level PROVE Ok(f[i + 1], i + 1)
    OBVIOUS
  <2>1. i <= level /\ i + 1 \in 0 .. level /\ i + 1 # 0 /\ (i + 1) - 1 = i
        /\ level - i > 0 /\ (level - i) - 1 = level - (i + 1)
    BY <1>2
  <2> DEFINE m == f[i]
             x == MergeStep(m)
  <2>2. MergeState(m) /\ (\E U : Loop(m, U, W)) /\ (~ m.end => m.level = level - i)
    BY <1>6, <2>1
  <2>3. f[i + 1] = x
    BY <1>4, <2>1
  <2>4. MergeState(x) /\ (\E U : Loop(x, U, W)) /\ (~ x.end => ~ m.end /\ x.level = m.level - 1)
    <3>. HIDE DEF m
    <3>. QED BY <2>1, <2>2, StepLoop
  <2>. HIDE DEF m, x
  <2>5. Ok(x, i + 1)
    BY <2>1, <2>2, <2>4
  <2>. QED BY <2>3, <2>5
<1> DEFINE m == Merge(h, b.addr, level)
<1>7. Ok(m, level)
  <2>1. level \in T
    <3>. HIDE DEF T
    <3>. QED BY <1>2, <1>5, <1>6, NatSetInduction
  <2>. QED BY <1>2, <1>4, <2>1
<1>8. PICK U : Loop(m, U, W)
  BY <1>7
<1> DEFINE c == Reached(m)
           a == m.heap
           g == AddFirst(a, c.addr, c.level)
<1>9. m.level = c.level /\ m.block = c.addr
  BY DEF Reached
<1>10. ~ m.end => c.level = 0
  <2>1. level - level = 0
    BY <1>2
  <2>. HIDE DEF m
  <2>. QED BY <1>7, <1>9, <2>1
<1>11. allocator_deallocate_level(h, b.addr, level) = g /\ (StrayRemoval(h, b.addr, level) <=> m.stray)
  BY <1>9 DEF allocator_deallocate_level, StrayRemoval
<1> HIDE DEF m
<1>12. /\ c \notin U /\ c \notin W /\ Core(a, U, W \cup {c}) /\ (~ m.stray => Links(a, U))
       /\ a.free_size = Cardinality(Cover(U \cup {c}))
       /\ IF m.end THEN PairsExact(a.allocation, U \cup {c}) /\ (c.level > 0 => Buddy(c) \notin U)
          ELSE PairsExact(a.allocation, U)
  BY <1>8 DEF Loop
<1> HIDE DEF a, c
<1>13. c \in Nodes /\ a \in HeapType /\ c.level \in Levels /\ c.addr \in Addresses
  BY <1>12, CoreFacts
<1>14. PairsExact(a.allocation, U \cup {c}) /\ (c.level > 0 => Buddy(c) \notin U)
  <2>1. CASE m.end
    BY <1>12, <2>1
  <2>2. CASE ~ m.end
    <3>1. c.level = 0 /\ ~ (c.level > 0)
      BY <1>10, <2>2
    <3>2. PairsExact(a.allocation, SymDiff(U, {c}))
      BY <1>12, <1>13, <2>2, <3>1, PairsRoot
    <3>3. SymDiff(U, {c}) = U \cup {c}
      BY <1>12 DEF SymDiff
    <3>. QED BY <3>1, <3>2, <3>3
  <2>. QED BY <2>1, <2>2
<1>15. /\ g \in HeapType
       /\ g.split = a.split /\ g.allocation = a.allocation /\ g.free_size = a.free_size
       /\ \A l \in Levels : Count(g, l) = IF l = c.level THEN Count(a, l) + 1 ELSE Count(a, l)
  BY <1>13, AddFirstFacts
<1>16. ASSUME ~ m.stray PROVE Good(g, U \cup {c}, W)
  <2>1. Links(a, U)
    BY <1>12, <1>16
  <2>2. /\ Links(g, U \cup {c})
        /\ \A d \in U \cup {c} : NextOf(g, d.addr) \in AddrOrNull /\ PrevOf(g, d.addr) \in AddrOrNull
    BY <1>12, <2>1, LinksJoin
  <2>3. Merged(U \cup {c})
    BY <1>12, <1>13, <1>14, MergedJoin DEF Core
  <2>. HIDE DEF g
  <2>4. Core(g, U \cup {c}, W)
    BY <1>12, <1>15, <2>2, <2>3, CoreJoin
  <2>. QED BY <1>12, <1>14, <1>15, <2>2, <2>4 DEF Good
<1>17. g \in HeapType
  BY <1>15
<1> HIDE DEF g
<1>. QED BY <1>11, <1>16, <1>17 DEF level
-----------------------------------------------------------------------------
(***************************************************************************)
(* The inductive invariant                                                 *)
(***************************************************************************)
IInv == TypeOK /\ (Intact => \E V : Good(heap, V, live))

\* No more is free than there is.
LEMMA CoverBound ==
    ASSUME NEW V, V \subseteq Nodes
    PROVE  Cardinality(Cover(V)) \in Nat /\ Cardinality(Cover(V)) <= 2 ^ MaxLevel
<1>1. \A c \in V : Units(c) \subseteq Addresses
  BY UnitsFacts
<1>2. IsFiniteSet(Addresses) /\ Cardinality(Addresses) = 2 ^ MaxLevel
  BY SizeEnds, FS_Interval DEF Addresses
<1>3. Cover(V) \in SUBSET Addresses
  BY <1>1 DEF Cover
<1>. QED BY <1>2, <1>3, FS_Subset, FS_CardinalityType

LEMMA GoodFacts ==
    ASSUME NEW h, NEW V, NEW W, Good(h, V, W)
    PROVE  /\ h \in HeapType /\ W \subseteq Nodes /\ V \cap W = {}
           /\ h.free_size \in Nat /\ h.free_size <= 2 ^ MaxLevel
           /\ \A b \in W : allocation_level(h, b.addr) = b.level
<1>1. Core(h, V, W) /\ h.free_size = Cardinality(Cover(V))
  BY DEF Good
<1>2. h \in HeapType /\ W \subseteq Nodes /\ V \subseteq Nodes
  BY <1>1, CoreFacts
<1>3. Tiles(V \cup W) /\ SplitExact(h.split, V \cup W) /\ V \cap W = {}
  BY <1>1 DEF Core
<1>4. \A b \in W : allocation_level(h, b.addr) = b.level
  <2>. TAKE b \in W
  <2> DEFINE B == h.split
             D == V \cup W
  <2>1. Tiles(D) /\ SplitExact(B, D) /\ b \in D
    BY <1>3
  <2>2. allocation_level(h, b.addr) =
            Max({0} \cup {l \in 1 .. MaxLevel : get_bit(B, split_bit_index(b.addr, l - 1))})
    BY DEF allocation_level
  <2>. HIDE DEF B, D
  <2>. QED BY <2>1, <2>2, LevelFound
<1>. QED BY <1>1, <1>2, <1>3, <1>4, CoverBound

\* Nodes are blocks.
LEMMA LiveType ==
    ASSUME NEW W, W \subseteq Nodes
    PROVE  W \in SUBSET Block
BY DEF Nodes

LEMMA SizesType == Sizes \subseteq Requests
BY LevelAssumption DEF Requests

\* What kalloc() finds.
LEMMA FoundFacts ==
    ASSUME NEW V, Good(heap, V, live), NEW size \in Requests, Found(size)
    PROVE  LET c == [addr |-> BlockOf(heap, LevelFor(size)), level |-> Fitting(size)]
           IN  /\ LevelFor(size) \in Levels /\ Fitting(size) = LevelFor(size)
               /\ \E U : Good(allocator_allocate(heap, LevelFor(size)), U, live \cup {c})
               /\ c \in Nodes /\ c \notin live /\ BlockOf(heap, LevelFor(size)) \in Addresses
<1> DEFINE level == LevelFor(size)
<1>1. level \in Levels /\ Fitting(size) = level
  <2>1. /\ 0 < ceil_to_power_of_two(size)
        /\ ceil_to_power_of_two(size) <= Bytes(heap.free_size) /\ level <= MaxLevel
    BY DEF Found, Affordable
  <2>. QED BY <2>1, GoodFacts, AffordableFacts
<1>2. HasBlock(heap, level)
  BY DEF Found
<1> HIDE DEF level
<1>3. LET c == [addr |-> BlockOf(heap, level), level |-> level]
      IN  /\ \E U : Good(allocator_allocate(heap, level), U, live \cup {c})
          /\ c \in Nodes /\ c \notin live /\ BlockOf(heap, level) \in Addresses
  BY <1>1, <1>2, AllocateGood
<1>. QED BY <1>1, <1>3 DEF level

LEMMA TypeParts ==
    TypeOK <=> /\ heap \in HeapType /\ ret \in AddrOrNull /\ asked \in Levels \cup {-1}
               /\ live \in SUBSET Block
               /\ broken \in {"no", "null_flip", "fault", "overrun", "stray", "level"}
BY DEF TypeOK, HeapType

\* The steps.
LEMMA AllocateStep ==
    ASSUME IInv, NEW size \in Sizes, Allocate(size)
    PROVE  IInv'
<1> DEFINE c == [addr |-> BlockOf(heap, LevelFor(size)), level |-> Fitting(size)]
<1>1. PICK V : Good(heap, V, live)
  BY DEF IInv, Intact, Allocate
<1>2. size \in Requests /\ Found(size)
  BY SizesType DEF Allocate
<1>3. /\ LevelFor(size) \in Levels /\ Fitting(size) = LevelFor(size)
      /\ \E U : Good(allocator_allocate(heap, LevelFor(size)), U, live \cup {c})
      /\ c \in Nodes /\ BlockOf(heap, LevelFor(size)) \in Addresses
  BY <1>1, <1>2, FoundFacts
<1>4. /\ heap' = allocator_allocate(heap, LevelFor(size)) /\ ret' = BlockOf(heap, LevelFor(size))
      /\ asked' = Fitting(size) /\ live' = live \cup {c} /\ broken' = "no"
  BY DEF Allocate
<1> HIDE DEF c
<1>5. PICK U : Good(heap', U, live')
  BY <1>3, <1>4
<1>6. heap' \in HeapType /\ live' \in SUBSET Block
  BY <1>5, GoodFacts, LiveType
<1>7. ret' \in AddrOrNull /\ asked' \in Levels \cup {-1}
  BY <1>3, <1>4 DEF AddrOrNull
<1>8. TypeOK'
  BY <1>4, <1>6, <1>7, TypeParts DEF TypeOK, HeapType
<1>. QED BY <1>5, <1>8 DEF IInv

\* Steps that leave the heap and the blocks in use as they are.
LEMMA QuietStep ==
    ASSUME IInv, UNCHANGED <<heap, live>>, ret' \in AddrOrNull, asked' \in Levels \cup {-1},
           broken' \in {"no", "null_flip", "fault", "overrun", "stray", "level"},
           Intact' => Intact
    PROVE  IInv'
<1>1. TypeOK'
  BY DEF IInv, TypeOK
<1>2. Intact' => \E V : Good(heap', V, live')
  BY DEF IInv
<1>. QED BY <1>1, <1>2 DEF IInv

LEMMA FreeStep ==
    ASSUME IInv, NEW b \in live, kfree(b)
    PROVE  IInv'
<1>1. PICK V : Good(heap, V, live)
  BY DEF IInv, Intact, kfree
<1>2. allocation_level(heap, b.addr) = b.level
  BY <1>1, GoodFacts
<1>3. CASE UNCHANGED <<heap, live>> /\ broken' = "fault"
  <2>1. ret' = ret /\ asked' = asked
    BY DEF kfree
  <2>. QED BY <1>3, <2>1, QuietStep DEF IInv, TypeOK, Intact
<1>4. CASE /\ heap' = allocator_deallocate_level(heap, b.addr, b.level)
           /\ live' = live \ {b}
           /\ broken' = IF StrayRemoval(heap, b.addr, b.level) THEN "stray" ELSE "no"
  <2>1. ret' = ret /\ asked' = asked
    BY DEF kfree
  <2> DEFINE W == live \ {b}
  <2>2. b \notin W /\ live = W \cup {b} /\ live' = W
    BY <1>4
  <2>. HIDE DEF W
  <2>3. heap' \in HeapType /\ (~ StrayRemoval(heap, b.addr, b.level) => \E U : Good(heap', U, live'))
    BY <1>1, <1>4, <2>2, DeallocateGood
  <2>4. TypeOK'
    BY <1>4, <2>1, <2>3 DEF IInv, TypeOK, HeapType
  <2>5. Intact' => \E U : Good(heap', U, live')
    BY <1>4, <2>3 DEF Intact
  <2>. QED BY <2>4, <2>5 DEF IInv
<1>. QED BY <1>2, <1>3, <1>4 DEF kfree

LEMMA MoveStep ==
    ASSUME IInv, NEW b \in live, NEW size \in Sizes, ReallocMove(b, size)
    PROVE  IInv'
<1> DEFINE current == allocator_allocation_size(heap, b.addr)
           new == ceil_to_power_of_two(size)
           h == allocator_allocate(heap, LevelFor(new))
           c == [addr |-> BlockOf(heap, LevelFor(new)), level |-> Fitting(size)]
<1>1. PICK V : Good(heap, V, live)
  BY DEF IInv, Intact, ReallocMove
<1>2. size \in Requests
  BY SizesType
<1>3. b \in Nodes /\ b.level \in Levels /\ b.level \in Nat /\ current = Bytes(size_from_level(b.level))
  <2>1. b \in Nodes /\ allocation_level(heap, b.addr) = b.level
    BY <1>1, GoodFacts
  <2>. QED BY <2>1, NodeFacts DEF allocator_allocation_size, Levels
<1>4. /\ current \in Nat /\ current > 0
      /\ level_from_size(current) = b.level
      /\ allocator_deallocate_fast(h, b.addr, current) = allocator_deallocate_level(h, b.addr, b.level)
  <2>1. /\ ceil_to_power_of_two(current) = current /\ level_from_size(current) = b.level
        /\ current = 2 ^ (MaxLevel + LeafBits - b.level)
        /\ MaxLevel + LeafBits - b.level \in 0 .. (IntBits - 2)
    BY <1>3, BytesFacts
  <2>2. current \in Nat /\ current >= 1
    BY <2>1, PowerType
  <2>3. current > 0
    BY <2>2
  <2>. HIDE DEF current, h
  <2>4. allocator_deallocate_fast(h, b.addr, current) = allocator_deallocate_level(h, b.addr, b.level)
    BY <2>1 DEF allocator_deallocate_fast
  <2>. QED BY <2>1, <2>2, <2>3, <2>4
<1>5. CASE /\ Found(new) /\ new > current
           /\ heap' = allocator_deallocate_fast(h, b.addr, current)
           /\ ret' = BlockOf(heap, LevelFor(new)) /\ asked' = Fitting(size)
           /\ live' = (live \cup {[addr |-> ret', level |-> asked']}) \ {b}
           /\ broken' = IF StrayRemoval(h, b.addr, level_from_size(current)) THEN "stray" ELSE "no"
  <2>1. new > 0
    <3>1. new \in Int
      <4>1. CeilLog(size) \in 0 .. (IntBits - 1)
        BY <1>2, CeilLogFacts
      <4>2. 2 ^ CeilLog(size) \in Nat
        BY <4>1, PowerType
      <4>. QED BY <1>2, <4>2, CeilLogFacts
    <3>. HIDE DEF new, current
    <3>. QED BY <1>4, <1>5, <3>1
  <2>2. ceil_to_power_of_two(new) = new
    BY <1>2, <2>1, PositiveCeil
  <2>3. LevelFor(new) = LevelFor(size) /\ Found(size)
    <3>1. LevelFor(new) = LevelFor(size)
      BY <2>2 DEF LevelFor
    <3>. QED BY <1>5, <2>2, <3>1 DEF Found
  <2>4. /\ Fitting(size) \in Levels
        /\ \E U : Good(h, U, live \cup {c})
        /\ c \in Nodes /\ c \notin live /\ ret' \in Addresses
    BY <1>1, <1>2, <1>5, <2>3, FoundFacts
  <2> DEFINE W == (live \cup {c}) \ {b}
  <2>5. live' = W /\ b \notin W /\ live \cup {c} = W \cup {b}
    BY <1>5
  <2>6. PICK U : Good(h, U, W \cup {b})
    BY <2>4, <2>5
  <2>7. /\ heap' = allocator_deallocate_level(h, b.addr, b.level)
        /\ broken' = IF StrayRemoval(h, b.addr, b.level) THEN "stray" ELSE "no"
    BY <1>4, <1>5
  <2>8. W \subseteq Nodes
    BY <2>6, GoodFacts
  <2>. HIDE DEF W, h, c, current, new
  <2>9. heap' \in HeapType /\ (~ StrayRemoval(h, b.addr, b.level) => \E X : Good(heap', X, W))
    BY <2>5, <2>6, <2>7, DeallocateGood
  <2>10. TypeOK'
    <3>1. live' \in SUBSET Block /\ ret' \in AddrOrNull /\ asked' \in Levels \cup {-1}
      BY <1>5, <2>4, <2>5, <2>8, LiveType DEF AddrOrNull
    <3>2. broken' \in {"no", "null_flip", "fault", "overrun", "stray", "level"}
      BY <2>7
    <3>. QED BY <2>9, <3>1, <3>2 DEF TypeOK, HeapType
  <2>11. Intact' => \E X : Good(heap', X, live')
    BY <2>5, <2>7, <2>9 DEF Intact
  <2>. QED BY <2>10, <2>11 DEF IInv
<1>6. CASE UNCHANGED <<heap, ret, asked, live>> /\ broken' \in {"overrun", "level", "fault"}
  BY <1>6, QuietStep DEF IInv, TypeOK, Intact
<1>. QED BY <1>5, <1>6 DEF ReallocMove

\* allocator_init() leaves one free block, the whole heap.
LEMMA InitGood ==
    ASSUME Init
    PROVE  IInv
<1> DEFINE root == [addr |-> 0, level |-> 0]
           V == {root}
<1>1. /\ heap \in HeapType
      /\ heap.allocation = {} /\ heap.split = {} /\ heap.free_size = 2 ^ MaxLevel
      /\ \A l \in Levels : First(heap, l) = IF l = 0 THEN 0 ELSE NULL
      /\ \A l \in Levels : Count(heap, l) = IF l = 0 THEN 1 ELSE 0
      /\ NextOf(heap, 0) = NULL /\ PrevOf(heap, 0) = NULL
  <2> DEFINE fb == [l \in Levels |-> IF l = 0 THEN 0 ELSE NULL]
             fc == [l \in Levels |-> IF l = 0 THEN 1 ELSE 0]
             nd == [a \in Addresses |-> IF a = 0 THEN [prev |-> NULL, next |-> NULL] ELSE JunkNode]
             fs == 2 ^ MaxLevel
  <2>1. fs \in Nat /\ 0 \in Addresses
    BY SizeEnds DEF Addresses
  <2>2. fb \in [Levels -> AddrOrNull] /\ fc \in [Levels -> Nat]
    BY <2>1 DEF AddrOrNull
  <2>3. nd \in [Addresses -> [prev : Words, next : Words]]
    BY DEF JunkNode, Words, AddrOrNull
  <2>4. heap = [free_blocks |-> fb, free_count |-> fc, free_size |-> fs, node |-> nd,
                allocation |-> {}, split |-> {}]
    BY DEF Init
  <2>5. /\ \A l \in Levels : fb[l] = IF l = 0 THEN 0 ELSE NULL
        /\ \A l \in Levels : fc[l] = IF l = 0 THEN 1 ELSE 0
        /\ nd[0] = [prev |-> NULL, next |-> NULL]
    BY <2>1
  <2>. HIDE DEF fb, fc, nd, fs
  <2>6. heap \in HeapType
    BY <2>1, <2>2, <2>3, <2>4 DEF HeapType
  <2>7. heap.allocation = {} /\ heap.split = {} /\ heap.free_size = fs
        /\ heap.free_blocks = fb /\ heap.free_count = fc /\ heap.node = nd
    BY <2>4
  <2>. QED BY <2>5, <2>6, <2>7 DEF First, Count, NextOf, PrevOf, fs
<1>2. /\ 0 \in Levels /\ 0 \in Addresses /\ root \in Nodes /\ Units(root) = Addresses
      /\ root.addr = 0 /\ root.level = 0
  <2>1. 2 ^ 0 = 1 /\ 0 \in 0 .. (1 - 1) /\ 0 \in Nat
    BY PowerZero
  <2>2. 0 \in Levels /\ size_from_level(0) = 2 ^ MaxLevel /\ 2 ^ MaxLevel \in Nat
    BY SizeEnds
  <2>3. \A s \in Nat : 0 * s = 0 /\ 0 + s - 1 = s - 1
    OBVIOUS
  <2>4. 0 * size_from_level(0) = 0
    BY <2>2, <2>3
  <2>5. 0 \in Addresses /\ root \in Nodes
    BY <2>1, <2>2, <2>4, PositionFacts
  <2>6. Units(root) = Addresses
    BY <2>2, <2>3 DEF Units, Addresses
  <2>. QED BY <2>2, <2>5, <2>6
<1> HIDE DEF root
<1>3. live = {} /\ V \cap live = {} /\ V \cup live = V
  BY DEF Init
<1>4. Tiles(V)
  BY <1>2 DEF Tiles
<1>5. SplitExact({}, V)
  <2>. SUFFICES ASSUME NEW n \in Nodes, Inside(root, n) PROVE FALSE
    BY DEF SplitExact
  <2>1. n.level \in Nat /\ n.level < 0
    BY <1>2, NodeFacts DEF Inside, Levels
  <2>. QED BY <2>1
<1>6. ASSUME NEW n \in Nodes, n.level < MaxLevel PROVE Lower(n) # root /\ Upper(n) # root
  <2>1. Lower(n).level > 0 /\ Upper(n).level > 0
    BY <1>6, ParentOfHalves
  <2>2. ~ (root.level > 0)
    BY <1>2
  <2>. QED BY <2>1, <2>2
<1>7. Merged(V) /\ PairsExact({}, V)
  BY <1>6 DEF Merged, PairsExact
<1>8. \A l \in Levels : Count(heap, l) = Cardinality(AtLevel(V, l))
  <2>. TAKE l \in Levels
  <2>1. CASE l = 0
    <3>1. AtLevel(V, l) = {root}
      BY <1>2, <2>1 DEF AtLevel
    <3>. QED BY <1>1, <2>1, <3>1, FS_Singleton
  <2>2. CASE l # 0
    <3>1. AtLevel(V, l) = {}
      BY <1>2, <2>2 DEF AtLevel
    <3>. QED BY <1>1, <2>2, <3>1, FS_EmptySet
  <2>. QED BY <2>1, <2>2
<1>9. IsFiniteSet(V)
  BY FS_Singleton
<1>10. \A b \in V : NextOf(heap, b.addr) \in AddrOrNull /\ PrevOf(heap, b.addr) \in AddrOrNull
  BY <1>1, <1>2 DEF AddrOrNull
<1>11. Links(heap, V)
  <2>. SUFFICES ASSUME NEW l \in Levels PROVE \E s : Linked(heap, V, l, s)
    BY DEF Links
  <2>1. CASE l = 0
    <3> DEFINE s == [i \in 0 .. 0 |-> 0]
    <3>1. Count(heap, l) = 1 /\ First(heap, l) = 0
      BY <1>1, <2>1
    <3>2. s[0] = 0 /\ \A i \in 0 .. (1 - 1) : i = 0
      OBVIOUS
    <3>3. root = [addr |-> 0, level |-> l]
      BY <2>1 DEF root
    <3>. HIDE DEF s
    <3>4. \A i \in 1 .. (1 - 1) : FALSE
      OBVIOUS
    <3>5. Linked(heap, V, l, s)
      BY <1>1, <1>2, <3>1, <3>2, <3>3, <3>4 DEF Linked
    <3>. QED BY <3>5
  <2>2. CASE l # 0
    <3>1. Count(heap, l) = 0 /\ First(heap, l) = NULL
      BY <1>1, <2>2
    <3>2. \A i \in 0 .. (0 - 1) : FALSE
      OBVIOUS
    <3>3. \A i \in 1 .. (0 - 1) : FALSE
      OBVIOUS
    <3>4. \A b \in V : b.level # l
      BY <1>2, <2>2
    <3>5. \A s : Linked(heap, V, l, s)
      BY <3>1, <3>2, <3>3, <3>4 DEF Linked
    <3>. QED BY <3>5
  <2>. QED BY <2>1, <2>2
<1>12. heap.free_size = Cardinality(Cover(V))
  <2>1. Cover(V) = Addresses
    BY <1>2 DEF Cover
  <2>2. Cardinality(Addresses) = 2 ^ MaxLevel
    BY SizeEnds, FS_Interval DEF Addresses
  <2>. QED BY <1>1, <2>1, <2>2
<1> HIDE DEF V
<1>13. Core(heap, V, live)
  BY <1>1, <1>3, <1>4, <1>5, <1>7, <1>8, <1>9, <1>10 DEF Core
<1>14. Good(heap, V, live)
  BY <1>1, <1>7, <1>11, <1>12, <1>13 DEF Good
<1>15. TypeOK
  <2>1. ret \in AddrOrNull /\ asked \in Levels \cup {-1} /\ live \in SUBSET Block
        /\ broken \in {"no", "null_flip", "fault", "overrun", "stray", "level"}
    BY DEF Init, AddrOrNull
  <2>. QED BY <1>1, <2>1, TypeParts
<1>. QED BY <1>14, <1>15 DEF IInv

\* Every step of a client keeps the invariant.
LEMMA StepGood ==
    ASSUME IInv, [Next]_vars
    PROVE  IInv'
<1>1. \A size \in Sizes : Fitting(size) \in Levels \cup {-1}
  BY SizesType, FittingType
<1>2. ret \in AddrOrNull /\ asked \in Levels \cup {-1} /\ NULL \in AddrOrNull
  BY DEF IInv, TypeOK, AddrOrNull
<1>3. ASSUME NEW size \in Sizes, Exhausted(size) PROVE IInv'
  BY <1>1, <1>2, <1>3, QuietStep DEF Exhausted, Intact
<1>4. ASSUME NEW size \in Sizes, Fragmented(size) PROVE IInv'
  BY <1>1, <1>2, <1>4, QuietStep DEF Fragmented, Intact
<1>5. ASSUME NEW size \in Sizes, BelowLeaf(size) PROVE IInv'
  BY <1>2, <1>5, QuietStep DEF BelowLeaf, Intact
<1>6. ASSUME NEW size \in Sizes, kalloc(size) PROVE IInv'
  BY <1>3, <1>4, <1>5, <1>6, AllocateStep DEF kalloc
<1>7. ASSUME NEW size \in Sizes, kzalloc(size) PROVE IInv'
  <2>1. CASE broken' = "fault" /\ UNCHANGED <<heap, ret, asked, live>>
    BY <1>2, <2>1, QuietStep DEF Intact
  <2>. QED BY <1>5, <1>7, <2>1, AllocateStep DEF kzalloc
<1>8. ASSUME NEW b \in live, kfree(b) PROVE IInv'
  BY <1>8, FreeStep
<1>9. ASSUME NEW b \in live, NEW size \in Sizes, krealloc(b, size) PROVE IInv'
  <2>1. CASE ReallocSame(b, size)
    <3>1. PICK V : Good(heap, V, live)
      BY <2>1 DEF IInv, Intact, ReallocSame
    <3>2. b.addr \in AddrOrNull
      BY <3>1, GoodFacts, NodeFacts DEF AddrOrNull
    <3>. QED BY <1>1, <2>1, <3>2, QuietStep DEF ReallocSame, Intact, IInv, TypeOK
  <2>2. CASE ReallocMove(b, size)
    BY <2>2, MoveStep
  <2>. QED BY <1>9, <2>1, <2>2 DEF krealloc
<1>10. CASE UNCHANGED vars
  BY <1>2, <1>10, QuietStep DEF vars, Intact, IInv, TypeOK
<1>. QED BY <1>6, <1>7, <1>8, <1>9, <1>10 DEF Next

THEOREM Invariance == Spec => []IInv
<1>1. Init => IInv
  BY InitGood
<1>2. IInv /\ [Next]_vars => IInv'
  BY StepGood
<1>. QED BY <1>1, <1>2, PTL DEF Spec

\* The heap keeps its types, even after a stray removal.
THEOREM TypeCorrect == Spec => []TypeOK
<1>1. IInv => TypeOK
  BY DEF IInv
<1>. QED BY <1>1, Invariance, PTL
-----------------------------------------------------------------------------
(***************************************************************************)
(* What the invariant says of the properties                               *)
(***************************************************************************)
\* Walking along a list finds its blocks, and then the end.
LEMMA NthIs ==
    ASSUME NEW V, NEW l, NEW s, Linked(heap, V, l, s), Count(heap, l) \in Nat,
           NEW i \in 0 .. Count(heap, l)
    PROVE  Nth(l, i) = IF i < Count(heap, l) THEN s[i] ELSE NULL
<1> DEFINE n == Count(heap, l)
           after(b) == IF b = NULL THEN NULL ELSE heap.node[b].next
           Walk(f) == f = [k \in 0 .. i |-> IF k = 0 THEN heap.free_blocks[l] ELSE after(f[k - 1])]
           at(k) == IF k < n THEN s[k] ELSE NULL
           w == [k \in 0 .. i |-> at(k)]
           f == CHOOSE x : Walk(x)
<1>1. /\ \A k \in 0 .. (n - 1) : s[k] \in Addresses
      /\ heap.free_blocks[l] = IF n = 0 THEN NULL ELSE s[0]
      /\ \A k \in 0 .. (n - 1) : heap.node[s[k]].next = IF k = n - 1 THEN NULL ELSE s[k + 1]
  BY DEF Linked, First, NextOf
<1>2. heap.free_blocks[l] = at(0)
  BY <1>1
<1>3. \A k \in 0 .. i : k # 0 => /\ k - 1 \in 0 .. i /\ at(k) = after(at(k - 1))
  <2>. TAKE k \in 0 .. i
  <2>. HAVE k # 0
  <2>1. k - 1 \in 0 .. (n - 1) /\ k - 1 < n /\ k - 1 \in 0 .. i
        /\ (k < n <=> k - 1 # n - 1) /\ (k - 1) + 1 = k
    OBVIOUS
  <2>2. at(k - 1) = s[k - 1] /\ s[k - 1] # NULL
    BY <1>1, <2>1, NullFacts
  <2>3. after(at(k - 1)) = heap.node[s[k - 1]].next
    BY <2>2
  <2>4. heap.node[s[k - 1]].next = IF k - 1 = n - 1 THEN NULL ELSE s[k]
    BY <1>1, <2>1
  <2>. QED BY <2>1, <2>3, <2>4
<1> HIDE DEF at, after
<1>4. Walk(w)
  <2>1. \A k \in 0 .. i : k # 0 => w[k - 1] = at(k - 1)
    BY <1>3
  <2>2. \A k \in 0 .. i : at(k) = IF k = 0 THEN heap.free_blocks[l] ELSE after(w[k - 1])
    BY <1>2, <1>3, <2>1
  <2>. QED BY <2>2
<1>5. Walk(f)
  <2>. HIDE DEF Walk, w
  <2>. QED BY <1>4
<1>6. Nth(l, i) = f[i]
  BY DEF Nth, after
<1> HIDE DEF f
<1> DEFINE T == {k \in Nat : k <= i => f[k] = at(k)}
<1>7. 0 \in T
  <2>1. 0 \in 0 .. i
    OBVIOUS
  <2>. QED BY <1>2, <1>5, <2>1
<1>8. ASSUME NEW k \in Nat, k \in T PROVE k + 1 \in T
  <2>. SUFFICES ASSUME k + 1 <= i PROVE f[k + 1] = at(k + 1)
    OBVIOUS
  <2>1. k <= i /\ k + 1 \in 0 .. i /\ k + 1 # 0 /\ (k + 1) - 1 = k
    OBVIOUS
  <2>2. f[k] = at(k)
    BY <1>8, <2>1
  <2>3. f[k + 1] = after(f[k])
    BY <1>5, <2>1
  <2>4. at(k + 1) = after(at(k))
    BY <1>3, <2>1
  <2>. QED BY <2>2, <2>3, <2>4
<1>9. i \in T
  <2>1. i \in Nat
    OBVIOUS
  <2>. HIDE DEF T
  <2>. QED BY <1>7, <1>8, <2>1, NatSetInduction
<1>10. f[i] = at(i)
  BY <1>9
<1>. QED BY <1>6, <1>10 DEF at

\* The blocks on the free lists are the free blocks of the invariant.
LEMMA FreeBlocksAre ==
    ASSUME NEW V, NEW W, Good(heap, V, W)
    PROVE  FreeBlocks = V
<1>1. Core(heap, V, W) /\ Links(heap, V)
  BY DEF Good
<1>2. /\ \A b \in V : b.level \in Levels /\ b = [addr |-> b.addr, level |-> b.level]
      /\ \A l \in Levels : Count(heap, l) \in Nat
  BY <1>1, CoreFacts, TypeFacts
<1> DEFINE At(l) == {[addr |-> Nth(l, i), level |-> l] : i \in 0 .. (heap.free_count[l] - 1)}
<1>3. ASSUME NEW l \in Levels PROVE At(l) = AtLevel(V, l)
  <2>1. PICK s : Linked(heap, V, l, s)
    BY <1>1 DEF Links
  <2> DEFINE n == Count(heap, l)
  <2>2. n \in Nat /\ heap.free_count[l] = n
    BY <1>2 DEF Count
  <2>3. \A i \in 0 .. (n - 1) : Nth(l, i) = s[i]
    <3>. TAKE i \in 0 .. (n - 1)
    <3>1. i \in 0 .. n /\ i < n
      BY <2>2
    <3>. QED BY <2>1, <2>2, <3>1, NthIs
  <2>4. \A i \in 0 .. (n - 1) : [addr |-> s[i], level |-> l] \in V
    BY <2>1 DEF Linked
  <2>5. \A b \in V : b.level = l => \E i \in 0 .. (n - 1) : s[i] = b.addr
    BY <2>1 DEF Linked
  <2>. HIDE DEF n
  <2>6. At(l) = {[addr |-> Nth(l, i), level |-> l] : i \in 0 .. (n - 1)}
    BY <2>2
  <2>7. At(l) \subseteq AtLevel(V, l)
    BY <2>3, <2>4, <2>6 DEF AtLevel
  <2>8. ASSUME NEW b \in V, b.level = l PROVE b \in At(l)
    <3>1. PICK i \in 0 .. (n - 1) : s[i] = b.addr
      BY <2>5, <2>8
    <3>2. b = [addr |-> Nth(l, i), level |-> l]
      BY <1>2, <2>3, <2>8, <3>1
    <3>. QED BY <2>6, <3>1, <3>2
  <2>. QED BY <2>7, <2>8 DEF AtLevel
<1>4. FreeBlocks = UNION {At(l) : l \in Levels}
  BY DEF FreeBlocks
<1> HIDE DEF At
<1>5. FreeBlocks = UNION {AtLevel(V, l) : l \in Levels}
  BY <1>3, <1>4
<1>6. UNION {AtLevel(V, l) : l \in Levels} = V
  BY <1>2 DEF AtLevel
<1>. QED BY <1>5, <1>6

\* Each free list has as many blocks as free_count says, links them both ways
\* and ends after them.
THEOREM ListsCorrect == Spec => []ListsLinked
<1>1. IInv => ListsLinked
  <2>. SUFFICES ASSUME IInv, Intact, NEW l \in Levels
                PROVE  LET n == heap.free_count[l] IN
                       /\ Nth(l, n) = NULL
                       /\ \A i \in 0 .. (n - 1) : Nth(l, i) # NULL
                       /\ \A i \in 1 .. (n - 1) : heap.node[Nth(l, i)].prev = Nth(l, i - 1)
    BY DEF ListsLinked
  <2>1. PICK V : Good(heap, V, live)
    BY DEF IInv
  <2>2. PICK s : Linked(heap, V, l, s)
    BY <2>1 DEF Good, Links
  <2> DEFINE n == Count(heap, l)
  <2>3. n \in Nat /\ heap.free_count[l] = n
    BY <2>1, GoodFacts, TypeFacts DEF Count
  <2>4. /\ \A i \in 0 .. (n - 1) : s[i] \in Addresses
        /\ \A i \in 1 .. (n - 1) : PrevOf(heap, s[i]) = s[i - 1]
    BY <2>2 DEF Linked
  <2>5. \A i \in 0 .. n : Nth(l, i) = IF i < n THEN s[i] ELSE NULL
    BY <2>2, <2>3, NthIs
  <2>. HIDE DEF n
  <2>6. n \in 0 .. n /\ ~ (n < n) /\ \A i \in 0 .. (n - 1) : i \in 0 .. n /\ i < n
    BY <2>3
  <2>7. Nth(l, n) = NULL /\ \A i \in 0 .. (n - 1) : Nth(l, i) = s[i]
    BY <2>5, <2>6
  <2>8. \A i \in 1 .. (n - 1) : i \in 0 .. (n - 1) /\ i - 1 \in 0 .. (n - 1)
    BY <2>3
  <2>9. \A i \in 0 .. (n - 1) : Nth(l, i) # NULL
    BY <2>4, <2>7, NullFacts
  <2>10. \A i \in 1 .. (n - 1) : heap.node[Nth(l, i)].prev = Nth(l, i - 1)
    BY <2>4, <2>7, <2>8 DEF PrevOf
  <2>. QED BY <2>3, <2>7, <2>9, <2>10
<1>. QED BY <1>1, Invariance, PTL

\* The blocks in use and the free blocks tile the heap, allocation_level() finds
\* the level of every block in use, and free_size adds up.
THEOREM TilingCorrect == Spec => []Tiling
<1>1. IInv => Tiling
  <2>. SUFFICES ASSUME IInv, Intact
                PROVE  LET free == FreeBlocks
                           all == live \cup free
                       IN
                       /\ \A b \in all : b.addr % size_from_level(b.level) = 0
                       /\ \A b, c \in all : b # c => Units(b) \cap Units(c) = {}
                       /\ UNION {Units(b) : b \in all} = Addresses
                       /\ live \cap free = {}
                       /\ \A b \in live : allocation_level(heap, b.addr) = b.level
                       /\ heap.free_size = Cardinality(UNION {Units(b) : b \in free})
    BY DEF Tiling
  <2>1. PICK V : Good(heap, V, live)
    BY DEF IInv
  <2>2. FreeBlocks = V
    BY <2>1, FreeBlocksAre
  <2> DEFINE all == live \cup V
  <2>3. Tiles(all) /\ live \cap V = {}
    <3>1. Tiles(V \cup live) /\ V \cup live = live \cup V /\ V \cap live = {}
      BY <2>1 DEF Good, Core
    <3>. QED BY <3>1
  <2>4. \A b \in all : b.addr % size_from_level(b.level) = 0
    BY <2>3 DEF Tiles, Nodes
  <2>5. \A b, c \in all : b # c => Units(b) \cap Units(c) = {}
    BY <2>3 DEF Tiles
  <2>6. UNION {Units(b) : b \in all} = Addresses
    <3>1. \A b \in all : Units(b) \subseteq Addresses
      BY <2>3, UnitsFacts DEF Tiles
    <3>. QED BY <2>3, <3>1 DEF Tiles
  <2>7. \A b \in live : allocation_level(heap, b.addr) = b.level
    BY <2>1, GoodFacts
  <2>8. heap.free_size = Cardinality(UNION {Units(b) : b \in V})
    BY <2>1 DEF Good, Cover
  <2>. QED BY <2>2, <2>3, <2>4, <2>5, <2>6, <2>7, <2>8
<1>. QED BY <1>1, Invariance, PTL

\* The bit that two buddies share is set when exactly one of them is free, and
\* they are never both free.
THEOREM BuddyBitCorrect == Spec => []BuddyBitExact
<1>1. IInv => BuddyBitExact
  <2>. SUFFICES ASSUME IInv, Intact, NEW level \in 1 .. MaxLevel, NEW i \in 0 .. (2 ^ level - 1)
                PROVE  LET b == [addr |-> i * size_from_level(level), level |-> level]
                           c == [b EXCEPT !.addr = calculate_buddy_address(b.addr, level)]
                       IN  /\ (allocation_bit_index(b.addr, level) \in heap.allocation)
                                 <=> ((b \in FreeBlocks) # (c \in FreeBlocks))
                           /\ ~(b \in FreeBlocks /\ c \in FreeBlocks)
    BY DEF BuddyBitExact
  <2>1. PICK V : Good(heap, V, live)
    BY DEF IInv
  <2>2. FreeBlocks = V
    BY <2>1, FreeBlocksAre
  <2> DEFINE b == [addr |-> i * size_from_level(level), level |-> level]
             c == [b EXCEPT !.addr = calculate_buddy_address(b.addr, level)]
  <2>3. level \in Levels /\ level > 0
    BY LevelAssumption DEF Levels
  <2>4. b \in Nodes /\ b.level = level
    BY <2>3, PositionFacts
  <2>5. c = Buddy(b)
    BY <2>4 DEF Buddy
  <2>. HIDE DEF b, c
  <2> DEFINE p == Parent(b)
  <2>6. /\ p \in Nodes /\ p.level < MaxLevel
        /\ allocation_bit_index(b.addr, level) = Bit(p)
        /\ \/ b = Lower(p) /\ c = Upper(p)
           \/ b = Upper(p) /\ c = Lower(p)
    BY <2>3, <2>4, <2>5, ParentFacts, BuddyFacts
  <2>7. PairsExact(heap.allocation, V) /\ Merged(V)
    BY <2>1 DEF Good, Core
  <2>. HIDE DEF p
  <2> DEFINE x == b \in V
             y == c \in V
  <2>8. /\ Bit(p) \in heap.allocation <=> (x /\ ~ y) \/ (~ x /\ y)
        /\ ~ (x /\ y)
    BY <2>6, <2>7 DEF PairsExact, Merged
  <2>9. x \in BOOLEAN /\ y \in BOOLEAN
    OBVIOUS
  <2>10. ((x /\ ~ y) \/ (~ x /\ y)) <=> (x # y)
    <3>. HIDE DEF x, y
    <3>. QED BY <2>9
  <2>. QED BY <2>2, <2>6, <2>8, <2>10 DEF b, c
<1>. QED BY <1>1, Invariance, PTL
-----------------------------------------------------------------------------
(***************************************************************************)
(* The abstract heap                                                       *)
(***************************************************************************)
\* The blocks of the abstract heap are the nodes.
LEMMA AbsFacts ==
    /\ \A b : Abs!Units(b) = Units(b)
    /\ \A l \in Levels : Abs!Free(l) =
           {b \in Nodes : b.level = l /\ \A c \in live : Units(b) \cap Units(c) = {}}
<1>1. \A b : Abs!Units(b) = Units(b)
  BY DEF Abs!Units, Abs!Width, Units, size_from_level
<1>2. ASSUME NEW l \in Levels PROVE Abs!Blocks(l) = {b \in Nodes : b.level = l}
  <2>1. Abs!Blocks(l) = {[addr |-> i * size_from_level(l), level |-> l] : i \in 0 .. (2 ^ l - 1)}
    BY DEF Abs!Blocks, Abs!Width, size_from_level
  <2>2. \A i \in 0 .. (2 ^ l - 1) : [addr |-> i * size_from_level(l), level |-> l] \in Nodes
    BY PositionFacts
  <2>3. ASSUME NEW b \in Nodes, b.level = l
        PROVE  \E i \in 0 .. (2 ^ l - 1) : b = [addr |-> i * size_from_level(l), level |-> l]
    <3> DEFINE i == index_in_level(b.addr, b.level)
    <3>1. /\ i \in 0 .. (2 ^ l - 1) /\ b.addr = i * size_from_level(l)
          /\ b = [addr |-> b.addr, level |-> b.level]
      BY <2>3, NodeFacts
    <3>. HIDE DEF i
    <3>. QED BY <2>3, <3>1
  <2>. QED BY <2>1, <2>2, <2>3
<1>3. ASSUME NEW l \in Levels
      PROVE  Abs!Free(l) = {b \in Nodes : b.level = l /\ \A c \in live : Units(b) \cap Units(c) = {}}
  <2>1. Abs!Free(l) = {b \in Abs!Blocks(l) : \A c \in live : Units(b) \cap Units(c) = {}}
    BY <1>1 DEF Abs!Free
  <2>. QED BY <1>2, <2>1
<1>. QED BY <1>1, <1>3

\* Allocation hands out a free block.
LEMMA FoundIsFree ==
    ASSUME NEW V, Good(heap, V, live), NEW size \in Requests, Found(size)
    PROVE  LET c == [addr |-> BlockOf(heap, LevelFor(size)), level |-> Fitting(size)]
           IN  Fitting(size) \in 0 .. MaxLevel /\ c \in Abs!Free(Fitting(size))
<1> DEFINE c == [addr |-> BlockOf(heap, LevelFor(size)), level |-> Fitting(size)]
<1>1. /\ Fitting(size) \in Levels /\ c \in Nodes /\ c \notin live
      /\ \E U : Good(allocator_allocate(heap, LevelFor(size)), U, live \cup {c})
  BY FoundFacts
<1>2. c.level = Fitting(size)
  OBVIOUS
<1> HIDE DEF c
<1>3. \A d \in live : Units(c) \cap Units(d) = {}
  <2> DEFINE g == allocator_allocate(heap, LevelFor(size))
             W == live \cup {c}
  <2>1. PICK U : Good(g, U, W)
    BY <1>1
  <2>. HIDE DEF g, W
  <2>2. Core(g, U, W)
    BY <2>1 DEF Good
  <2>3. \A d, e \in U \cup W : Units(d) \cap Units(e) # {} => d = e
    BY <2>2, CoreFacts
  <2>. QED BY <1>1, <2>3 DEF W
<1>. QED BY <1>1, <1>2, <1>3, AbsFacts DEF c, Levels

\* The free blocks cover what is apart from the blocks in use.
LEMMA FreeCovered ==
    ASSUME NEW V, Good(heap, V, live), NEW l \in Levels, NEW b \in Abs!Free(l)
    PROVE  b \in Nodes /\ b.level = l /\ \A x \in Units(b) : \E d \in V : x \in Units(d)
<1>1. b \in Nodes /\ b.level = l /\ \A c \in live : Units(b) \cap Units(c) = {}
  BY AbsFacts
<1>2. Tiles(V \cup live)
  BY DEF Good, Core
<1>3. Units(b) \subseteq Addresses
  BY <1>1, UnitsFacts
<1>. QED BY <1>1, <1>2, <1>3 DEF Tiles

\* With less free than a block has, no block is free.
LEMMA NoneAffordable ==
    ASSUME NEW V, Good(heap, V, live), NEW l \in Levels, heap.free_size < size_from_level(l)
    PROVE  Abs!Free(l) = {}
<1>. SUFFICES ASSUME NEW b \in Abs!Free(l) PROVE FALSE
  OBVIOUS
<1>1. b \in Nodes /\ b.level = l /\ \A x \in Units(b) : \E d \in V : x \in Units(d)
  BY FreeCovered
<1>2. Units(b) \in SUBSET Cover(V)
  BY <1>1 DEF Cover
<1>3. heap.free_size = Cardinality(Cover(V)) /\ V \subseteq Nodes /\ heap.free_size \in Nat
  <2>1. Core(heap, V, live) /\ heap.free_size = Cardinality(Cover(V))
    BY DEF Good
  <2>. QED BY <2>1, CoreFacts, GoodFacts
<1>4. IsFiniteSet(Cover(V))
  <2>1. \A c \in V : Units(c) \subseteq Addresses
    BY <1>3, UnitsFacts
  <2>2. Cover(V) \in SUBSET Addresses
    BY <2>1 DEF Cover
  <2>3. IsFiniteSet(Addresses)
    BY SizeEnds, FS_Interval DEF Addresses
  <2>. QED BY <2>2, <2>3, FS_Subset
<1>5. Cardinality(Units(b)) = size_from_level(l)
  <2>1. Cover({}) = {} /\ Cover({} \cup {b}) = Units(b)
    BY DEF Cover
  <2>2. Cardinality(Cover({} \cup {b})) = Cardinality(Cover({})) + size_from_level(b.level)
    BY <1>1, CoverJoin
  <2>3. Cardinality({}) = 0 /\ size_from_level(l) \in Nat
    BY FS_EmptySet, SizeFacts
  <2>. QED BY <1>1, <2>1, <2>2, <2>3
<1>6. Cardinality(Units(b)) <= Cardinality(Cover(V))
  BY <1>2, <1>4, FS_Subset
<1>7. size_from_level(l) \in Nat
  BY SizeFacts
<1>. QED BY <1>3, <1>5, <1>6, <1>7

\* When neither a block of a level nor a larger one is on a list, no block of the
\* level is free: the smallest free blocks inside it would be two buddies.
LEMMA NoneFound ==
    ASSUME NEW V, Good(heap, V, live), NEW l \in Levels, ~ HasBlock(heap, l)
    PROVE  Abs!Free(l) = {}
<1>. SUFFICES ASSUME NEW b \in Abs!Free(l) PROVE FALSE
  OBVIOUS
<1>1. b \in Nodes /\ b.level = l /\ \A x \in Units(b) : \E d \in V : x \in Units(d)
  BY FreeCovered
<1>2. Core(heap, V, live) /\ Links(heap, V) /\ Merged(V)
  BY DEF Good, Core
<1>3. /\ \A d \in V : d \in Nodes /\ d.level \in Levels
      /\ \A d, e \in V : Units(d) \cap Units(e) # {} => d = e
  BY <1>2, CoreFacts
<1>4. \A d \in V : d.level \in Nat /\ d.level > l
  <2>. TAKE d \in V
  <2>1. d.level \in Levels /\ First(heap, d.level) # NULL
    BY <1>2, <1>3, HeadFacts
  <2>2. d.level \in Nat /\ l \in Nat
    BY <2>1 DEF Levels
  <2>3. d.level # l
    BY <2>1 DEF HasBlock, First
  <2>4. ~ (d.level < l)
    <3>1. ASSUME d.level < l PROVE d.level \in 0 .. (l - 1)
      BY <2>2, <3>1
    <3>. QED BY <2>1, <3>1 DEF HasBlock, Sources, First
  <2>. QED BY <2>2, <2>3, <2>4
<1> DEFINE Within == {d \in V : Units(d) \cap Units(b) # {}}
           Deep == {d.level : d \in Within}
<1>5. Deep \in SUBSET (0 .. MaxLevel) /\ Deep # {}
  <2>1. \E d \in V : b.addr \in Units(d)
    BY <1>1, UnitsFacts
  <2>2. \E d \in V : Units(d) \cap Units(b) # {}
    BY <1>1, <2>1, UnitsFacts
  <2>. QED BY <1>3, <2>2 DEF Levels
<1>6. Max(Deep) \in Deep /\ \A y \in Deep : Max(Deep) >= y
  <2>. HIDE DEF Deep
  <2>. QED BY <1>5, LevelAssumption, GreatestNatural
<1>7. PICK d \in Within : d.level = Max(Deep)
  BY <1>6
<1>8. \A e \in Within : e.level <= d.level
  BY <1>3, <1>5, <1>6, <1>7
<1>9. d \in V /\ d \in Nodes /\ d.level \in Nat /\ d.level > l /\ d.level > 0 /\ l \in Nat
  BY <1>3, <1>4 DEF Levels
<1> DEFINE p == Parent(d)
           bud == Buddy(d)
<1>10. /\ p \in Nodes /\ p.level = d.level - 1 /\ p.level < MaxLevel
       /\ bud \in Nodes /\ bud # d /\ bud.level = d.level
       /\ \/ d = Lower(p) /\ bud = Upper(p)
          \/ d = Upper(p) /\ bud = Lower(p)
  BY <1>9, ParentFacts, BuddyFacts
<1> HIDE DEF p, bud, Deep
<1>11. Units(d) \subseteq Units(p) /\ Units(bud) \subseteq Units(p)
  <2>1. Units(p) = Units(Lower(p)) \cup Units(Upper(p))
    BY <1>10, Halves
  <2>. QED BY <1>10, <2>1
<1>12. Units(p) \subseteq Units(b)
  <2>1. Units(d) \cap Units(b) # {}
    BY <1>7
  <2>2. Units(b) \cap Units(p) # {}
    BY <1>11, <2>1
  <2>3. b.level <= p.level
    BY <1>1, <1>9, <1>10
  <2>. QED BY <1>1, <1>10, <2>2, <2>3, Nesting
<1>13. bud.addr \in Units(bud) /\ bud.addr \in Units(b)
  BY <1>10, <1>11, <1>12, UnitsFacts
<1>14. PICK e \in V : bud.addr \in Units(e)
  BY <1>1, <1>13
<1>15. e \in Within /\ e \in Nodes /\ e.level \in Nat /\ e.level <= d.level
  <2>1. e \in Within
    BY <1>13, <1>14
  <2>. QED BY <1>3, <1>4, <1>8, <2>1
<1>16. CASE e.level = d.level
  <2>1. e = bud
    BY <1>10, <1>13, <1>14, <1>15, <1>16, SameNode
  <2>. QED BY <1>2, <1>9, <1>10, <1>14, <2>1 DEF Merged
<1>17. CASE e.level # d.level
  <2>1. e.level <= p.level
    BY <1>9, <1>10, <1>15, <1>17
  <2>2. Units(e) \cap Units(p) # {}
    BY <1>11, <1>13, <1>14
  <2>3. Units(p) \subseteq Units(e)
    BY <1>10, <1>15, <2>1, <2>2, Nesting
  <2>4. d.addr \in Units(d)
    BY <1>9, UnitsFacts
  <2>5. Units(e) \cap Units(d) # {}
    BY <1>11, <2>3, <2>4
  <2>. QED BY <1>3, <1>9, <1>14, <1>17, <2>5
<1>. QED BY <1>16, <1>17

\* kalloc() in the abstract heap.
LEMMA AllocateRefines ==
    ASSUME IInv, NEW size \in Sizes, Allocate(size)
    PROVE  Abs!PoolNext
<1> DEFINE c == [addr |-> BlockOf(heap, LevelFor(size)), level |-> Fitting(size)]
           l == Fitting(size)
<1>1. PICK V : Good(heap, V, live)
  BY DEF IInv, Intact, Allocate
<1>2. size \in Requests /\ Found(size)
  BY SizesType DEF Allocate
<1>3. l \in 0 .. MaxLevel /\ c \in Abs!Free(l)
  BY <1>1, <1>2, FoundIsFree
<1>4. live' = live \cup {c} /\ ret' = c.addr /\ asked' = l
  BY DEF Allocate
<1> HIDE DEF c, l
<1>5. Abs!Allocate(l)
  BY <1>3, <1>4 DEF Abs!Allocate
<1>. QED BY <1>3, <1>4, <1>5 DEF Abs!PoolNext

\* A request that is refused.
LEMMA RefusedRefines ==
    ASSUME IInv, NEW size \in Sizes, Exhausted(size) \/ Fragmented(size)
    PROVE  Abs!PoolNext
<1> DEFINE l == Fitting(size)
           ceil == ceil_to_power_of_two(size)
<1>1. PICK V : Good(heap, V, live)
  BY DEF IInv, Intact, Exhausted, Fragmented
<1>2. size \in Requests /\ heap.free_size \in Nat /\ heap.free_size <= 2 ^ MaxLevel
  BY <1>1, SizesType, GoodFacts
<1>3. ret' = NULL /\ asked' = l /\ UNCHANGED live
  BY DEF Exhausted, Fragmented
<1>4. l \in Levels \/ l = -1
  BY <1>2, FittingType
<1>5. CASE l = -1
  BY <1>3, <1>5 DEF Abs!TooLarge, Abs!PoolNext
<1>6. CASE l \in Levels
  <2>1. l # -1 /\ l \in 0 .. MaxLevel
    BY <1>6 DEF Levels
  <2>2. Abs!Free(l) = {}
    <3>1. CASE Exhausted(size)
      <4>1. ~ (0 < ceil /\ ceil <= Bytes(heap.free_size))
        BY <3>1 DEF Exhausted, Affordable
      <4>2. heap.free_size < size_from_level(l)
        BY <1>2, <2>1, <4>1, ExhaustedFacts
      <4>. QED BY <1>1, <1>6, <4>2, NoneAffordable
    <3>2. CASE Fragmented(size)
      <4>1. 0 < ceil /\ ceil <= Bytes(heap.free_size) /\ ~ (LevelFor(size) > MaxLevel) /\ ~ Found(size)
        BY <3>2 DEF Fragmented, Affordable, BeyondBitmaps
      <4>2. LevelFor(size) \in Int
        <5>1. CeilLog(size) \in 0 .. (IntBits - 2) /\ ceil = 2 ^ CeilLog(size)
          <6>1. 0 < ceil => ceil > 0
            BY DEF ceil
          <6>. QED BY <1>2, <4>1, <6>1, PositiveCeil
        <5>2. LevelFor(size) = MaxLevel + LeafBits - CeilLog(size)
          <6>. HIDE DEF ceil
          <6>. QED BY <5>1, CeilOfPower DEF LevelFor, ceil
        <5>. QED BY <5>1, <5>2, IntBitsFacts
      <4>3. LevelFor(size) <= MaxLevel
        BY <4>1, <4>2, IntBitsFacts
      <4>4. l = LevelFor(size)
        BY <1>2, <4>1, <4>3, AffordableFacts
      <4>5. ~ HasBlock(heap, l)
        BY <4>1, <4>3, <4>4 DEF Found, Affordable
      <4>. QED BY <1>1, <1>6, <4>5, NoneFound
    <3>. QED BY <3>1, <3>2
  <2>. HIDE DEF l
  <2>3. Abs!Refuse(l)
    BY <1>3, <2>2 DEF Abs!Refuse
  <2>. QED BY <1>3, <2>1, <2>3 DEF Abs!PoolNext
<1>. QED BY <1>4, <1>5, <1>6

\* kfree() and krealloc().
LEMMA FreeRefines ==
    ASSUME NEW b \in live, kfree(b)
    PROVE  [Abs!PoolNext]_Abs!poolVars
<1>1. UNCHANGED <<ret, asked>> /\ (UNCHANGED live \/ live' = live \ {b})
  BY DEF kfree
<1>2. CASE live' = live \ {b}
  BY <1>1, <1>2 DEF Abs!Release, Abs!PoolNext
<1>. QED BY <1>1, <1>2 DEF Abs!poolVars

LEMMA ReallocRefines ==
    ASSUME IInv, NEW b \in live, NEW size \in Sizes, krealloc(b, size)
    PROVE  [Abs!PoolNext]_Abs!poolVars
<1> DEFINE current == allocator_allocation_size(heap, b.addr)
           new == ceil_to_power_of_two(size)
           l == Fitting(size)
<1>1. PICK V : Good(heap, V, live)
  BY DEF IInv, Intact, krealloc, ReallocSame, ReallocMove
<1>2. size \in Requests /\ b \in Nodes /\ b.level \in Levels
      /\ current = Bytes(size_from_level(b.level))
  <2>1. b \in Nodes /\ allocation_level(heap, b.addr) = b.level
    BY <1>1, GoodFacts
  <2>. QED BY <2>1, SizesType, NodeFacts DEF allocator_allocation_size
<1>3. CASE ReallocSame(b, size)
  <2>1. new = current /\ ret' = b.addr /\ asked' = l /\ UNCHANGED live
    BY <1>3 DEF ReallocSame
  <2>2. l = b.level
    BY <1>2, <2>1, SameSizeFacts
  <2>3. Abs!Keep(l) /\ l \in 0 .. MaxLevel
    BY <1>2, <2>1, <2>2 DEF Abs!Keep, Levels
  <2>. HIDE DEF l
  <2>. QED BY <2>1, <2>3 DEF Abs!PoolNext
<1>4. CASE /\ Found(new) /\ new > current /\ ret' = BlockOf(heap, LevelFor(new)) /\ asked' = l
           /\ live' = (live \cup {[addr |-> ret', level |-> asked']}) \ {b}
  <2> DEFINE c == [addr |-> BlockOf(heap, LevelFor(new)), level |-> l]
  <2>1. ceil_to_power_of_two(new) = new
    <3>1. new > 0
      <4>1. current \in Nat /\ new \in Int
        <5>1. MaxLevel + LeafBits - b.level \in Nat /\ current = 2 ^ (MaxLevel + LeafBits - b.level)
          BY <1>2, BytesFacts
        <5>2. current \in Nat
          BY <5>1, PowerType
        <5>3. CeilLog(size) \in 0 .. (IntBits - 1)
          BY <1>2, CeilLogFacts
        <5>4. 2 ^ CeilLog(size) \in Nat
          BY <5>3, PowerType
        <5>. QED BY <1>2, <5>2, <5>4, CeilLogFacts
      <4>. HIDE DEF new, current
      <4>. QED BY <1>4, <4>1
    <3>. QED BY <1>2, <3>1, PositiveCeil
  <2>2. LevelFor(new) = LevelFor(size) /\ Found(size)
    <3>1. LevelFor(new) = LevelFor(size)
      BY <2>1 DEF LevelFor
    <3>. QED BY <1>4, <2>1, <3>1 DEF Found
  <2>3. l \in 0 .. MaxLevel /\ c \in Abs!Free(l)
    BY <1>1, <1>2, <2>2, FoundIsFree
  <2>4. live' = (live \cup {c}) \ {b} /\ ret' = c.addr /\ asked' = l
    BY <1>4
  <2>. HIDE DEF c, l
  <2>5. Abs!Exchange(l)
    BY <2>3, <2>4 DEF Abs!Exchange
  <2>. QED BY <2>3, <2>4, <2>5 DEF Abs!PoolNext
<1>5. CASE UNCHANGED <<ret, asked, live>>
  BY <1>5 DEF Abs!poolVars
<1>. QED BY <1>3, <1>4, <1>5 DEF krealloc, ReallocMove

\* For every depth of the tree and every request, allocator_allocate() and
\* allocator_deallocate() hand out and take back aligned blocks that are apart
\* from each other, and a request is refused only when no block of its size is
\* free.
THEOREM Refinement == Spec => ImplementsPool
<1>1. Init => Abs!PoolInit
  BY DEF Init, Abs!PoolInit
<1>2. IInv /\ [Next]_vars => [Abs!PoolNext]_Abs!poolVars
  <2>. SUFFICES ASSUME IInv, [Next]_vars PROVE [Abs!PoolNext]_Abs!poolVars
    OBVIOUS
  <2>1. ASSUME NEW size \in Sizes, kalloc(size) PROVE [Abs!PoolNext]_Abs!poolVars
    <3>1. CASE BelowLeaf(size)
      BY <3>1 DEF BelowLeaf, Abs!poolVars
    <3>. QED BY <2>1, <3>1, AllocateRefines, RefusedRefines DEF kalloc
  <2>2. ASSUME NEW size \in Sizes, kzalloc(size) PROVE [Abs!PoolNext]_Abs!poolVars
    <3>1. CASE UNCHANGED <<heap, ret, asked, live>>
      BY <3>1 DEF Abs!poolVars
    <3>. QED BY <2>2, <3>1, AllocateRefines DEF kzalloc, BelowLeaf
  <2>3. CASE UNCHANGED vars
    BY <2>3 DEF vars, Abs!poolVars
  <2>. QED BY <2>1, <2>2, <2>3, FreeRefines, ReallocRefines DEF Next
<1>. QED BY <1>1, <1>2, Invariance, PTL DEF Spec, ImplementsPool, Abs!PoolSpec
=============================================================================
