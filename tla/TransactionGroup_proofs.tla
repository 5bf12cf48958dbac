----------------------- MODULE TransactionGroup_proofs ----------------------
(***************************************************************************)
(* Theorems about TransactionGroup and its Merkle tree: for groups of any  *)
(* size, proofs are accepted and hold for one element only, the root       *)
(* stands for exactly the elements, and a peer rebuilds it.                *)
(***************************************************************************)
EXTENDS TransactionGroup, SequenceTheorems, TLAPS

-----------------------------------------------------------------------------
(* Powers of two, as far as a byte goes.                                   *)

LEMMA Powers ==
  /\ 2^0 = 1 /\ 2^1 = 2 /\ 2^2 = 4 /\ 2^3 = 8 /\ 2^4 = 16 /\ 2^5 = 32 /\ 2^6 = 64
  /\ 2^7 = 128 /\ 2^8 = 256
OBVIOUS

(* A byte has eight of them.                                               *)
LEMMA BitCases ==
  ASSUME NEW l \in 0..7
  PROVE  l = 0 \/ l = 1 \/ l = 2 \/ l = 3 \/ l = 4 \/ l = 5 \/ l = 6 \/ l = 7
OBVIOUS

(* Each is twice the one before.                                           *)
LEMMA PowerDoubles ==
  ASSUME NEW l \in 0..7
  PROVE  2^l \in 1..128 /\ 2^(l + 1) = 2 * 2^l
<1>0. CASE l = 0
  <2>1. l + 1 = 1
    BY <1>0
  <2> QED BY <1>0, <2>1, Powers
<1>1. CASE l = 1
  <2>1. l + 1 = 2
    BY <1>1
  <2> QED BY <1>1, <2>1, Powers
<1>2. CASE l = 2
  <2>1. l + 1 = 3
    BY <1>2
  <2> QED BY <1>2, <2>1, Powers
<1>3. CASE l = 3
  <2>1. l + 1 = 4
    BY <1>3
  <2> QED BY <1>3, <2>1, Powers
<1>4. CASE l = 4
  <2>1. l + 1 = 5
    BY <1>4
  <2> QED BY <1>4, <2>1, Powers
<1>5. CASE l = 5
  <2>1. l + 1 = 6
    BY <1>5
  <2> QED BY <1>5, <2>1, Powers
<1>6. CASE l = 6
  <2>1. l + 1 = 7
    BY <1>6
  <2> QED BY <1>6, <2>1, Powers
<1>7. CASE l = 7
  <2>1. l + 1 = 8
    BY <1>7
  <2> QED BY <1>7, <2>1, Powers
<1> QED BY <1>0, <1>1, <1>2, <1>3, <1>4, <1>5, <1>6, <1>7, BitCases

LEMMA NoPower ==
  ASSUME NEW l, l = 0
  PROVE  2^l = 1
BY Powers

LEMMA TwoOrMore ==
  ASSUME NEW l \in 0..7, 2^l <= 1
  PROVE  l = 0
<1>1. ASSUME l = 1 PROVE FALSE
  BY <1>1, Powers
<1>2. ASSUME l = 2 PROVE FALSE
  BY <1>2, Powers
<1>3. ASSUME l = 3 PROVE FALSE
  BY <1>3, Powers
<1>4. ASSUME l = 4 PROVE FALSE
  BY <1>4, Powers
<1>5. ASSUME l = 5 PROVE FALSE
  BY <1>5, Powers
<1>6. ASSUME l = 6 PROVE FALSE
  BY <1>6, Powers
<1>7. ASSUME l = 7 PROVE FALSE
  BY <1>7, Powers
<1> QED BY <1>1, <1>2, <1>3, <1>4, <1>5, <1>6, <1>7, BitCases

(* Shifting by one more is halving.                                        *)
LEMMA Shift ==
  ASSUME NEW k \in 0..255, NEW l \in 0..7
  PROVE  k \div 2^l \in 0..255 /\ k \div 2^(l + 1) = (k \div 2^l) \div 2
<1>0. CASE l = 0
  <2>1. l + 1 = 1
    BY <1>0
  <2> QED BY <1>0, <2>1, Powers
<1>1. CASE l = 1
  <2>1. l + 1 = 2
    BY <1>1
  <2> QED BY <1>1, <2>1, Powers
<1>2. CASE l = 2
  <2>1. l + 1 = 3
    BY <1>2
  <2> QED BY <1>2, <2>1, Powers
<1>3. CASE l = 3
  <2>1. l + 1 = 4
    BY <1>3
  <2> QED BY <1>3, <2>1, Powers
<1>4. CASE l = 4
  <2>1. l + 1 = 5
    BY <1>4
  <2> QED BY <1>4, <2>1, Powers
<1>5. CASE l = 5
  <2>1. l + 1 = 6
    BY <1>5
  <2> QED BY <1>5, <2>1, Powers
<1>6. CASE l = 6
  <2>1. l + 1 = 7
    BY <1>6
  <2> QED BY <1>6, <2>1, Powers
<1>7. CASE l = 7
  <2>1. l + 1 = 8
    BY <1>7
  <2> QED BY <1>7, <2>1, Powers
<1> QED BY <1>0, <1>1, <1>2, <1>3, <1>4, <1>5, <1>6, <1>7, BitCases

(* An induction that ends at most at eight.                                *)
LEMMA UpTo ==
  ASSUME NEW n \in 0..8, NEW S, 0 \in S, \A m \in 0..(n - 1) : m \in S => m + 1 \in S
  PROVE  \A m \in 0..n : m \in S
<1>1. /\ n >= 1 => 1 \in S
      /\ n >= 2 => 2 \in S
      /\ n >= 3 => 3 \in S
      /\ n >= 4 => 4 \in S
  OBVIOUS
<1>2. /\ n >= 5 => 5 \in S
      /\ n >= 6 => 6 \in S
      /\ n >= 7 => 7 \in S
      /\ n >= 8 => 8 \in S
  BY <1>1
<1> QED BY <1>1, <1>2

-----------------------------------------------------------------------------
(* The shape of a tree of n elements.                                      *)

IsCount(n) == n \in 1..255

LEMMA LowerLevelOk ==
  ASSUME NEW n, IsCount(n)
  PROVE  /\ LowerLevel(n) \in 0..7 /\ 2^LowerLevel(n) \in 1..128
         /\ 2^LowerLevel(n) <= n /\ n < 2 * 2^LowerLevel(n)
<1> USE DEF IsCount
<1> DEFINE P(l) == l \in 0..7 /\ 2^l <= n /\ n < 2^(l + 1)
<1>0. ASSUME 1 <= n, n < 2 PROVE P(0)
  <2>1. 0 + 1 = 1
    OBVIOUS
  <2> QED BY <1>0, <2>1, Powers
<1>1. ASSUME 2 <= n, n < 4 PROVE P(1)
  <2>1. 1 + 1 = 2
    OBVIOUS
  <2> QED BY <1>1, <2>1, Powers
<1>2. ASSUME 4 <= n, n < 8 PROVE P(2)
  <2>1. 2 + 1 = 3
    OBVIOUS
  <2> QED BY <1>2, <2>1, Powers
<1>3. ASSUME 8 <= n, n < 16 PROVE P(3)
  <2>1. 3 + 1 = 4
    OBVIOUS
  <2> QED BY <1>3, <2>1, Powers
<1>4. ASSUME 16 <= n, n < 32 PROVE P(4)
  <2>1. 4 + 1 = 5
    OBVIOUS
  <2> QED BY <1>4, <2>1, Powers
<1>5. ASSUME 32 <= n, n < 64 PROVE P(5)
  <2>1. 5 + 1 = 6
    OBVIOUS
  <2> QED BY <1>5, <2>1, Powers
<1>6. ASSUME 64 <= n, n < 128 PROVE P(6)
  <2>1. 6 + 1 = 7
    OBVIOUS
  <2> QED BY <1>6, <2>1, Powers
<1>7. ASSUME 128 <= n, n < 256 PROVE P(7)
  <2>1. 7 + 1 = 8
    OBVIOUS
  <2> QED BY <1>7, <2>1, Powers
<1>8. \/ (1 <= n /\ n < 2) \/ (2 <= n /\ n < 4) \/ (4 <= n /\ n < 8) \/ (8 <= n /\ n < 16)
      \/ (16 <= n /\ n < 32) \/ (32 <= n /\ n < 64) \/ (64 <= n /\ n < 128)
      \/ (128 <= n /\ n < 256)
  OBVIOUS
<1>9. \E l : P(l)
  <2> HIDE DEF P
  <2> QED BY <1>0, <1>1, <1>2, <1>3, <1>4, <1>5, <1>6, <1>7, <1>8
<1>10. \E l \in 0..7 : 2^l <= n /\ n < 2^(l + 1)
  BY <1>9
<1>11. LowerLevel(n) \in 0..7 /\ 2^LowerLevel(n) <= n /\ n < 2^(LowerLevel(n) + 1)
  BY <1>10 DEF LowerLevel
<1>12. 2^LowerLevel(n) \in 1..128 /\ 2^(LowerLevel(n) + 1) = 2 * 2^LowerLevel(n)
  BY <1>11, PowerDoubles
<1> QED BY <1>11, <1>12

(* How many elements have been joined below the deepest full level.        *)
Joined(n) == n - 2^LowerLevel(n)

LEMMA BitsOk ==
  ASSUME NEW n, IsCount(n)
  PROVE  /\ Joined(n) \in 0..127 /\ Joined(n) < 2^LowerLevel(n)
         /\ BitsOnHighLevel(n) = 2 * Joined(n) /\ BitsOnHighLevel(n) \div 2 = Joined(n)
         /\ n = 2^LowerLevel(n) + Joined(n)
<1> DEFINE p == 2^LowerLevel(n)
<1>1. p \in 1..128 /\ p <= n /\ n < 2 * p /\ n \in 1..255
  BY LowerLevelOk DEF IsCount
<1>2. Joined(n) = n - p /\ BitsOnHighLevel(n) = (2 * (n - p)) % 256
  BY DEF Joined, BitsOnHighLevel, Uint8
<1> HIDE DEF p
<1>3. n - p \in 0..127 /\ n - p < p
  BY <1>1
<1>4. (2 * (n - p)) % 256 = 2 * (n - p) /\ (2 * (n - p)) \div 2 = n - p
  BY <1>3
<1> QED BY <1>1, <1>2, <1>3, <1>4 DEF p

-----------------------------------------------------------------------------
(* The levels.  LevelHash is a recursive function of at most eight levels, *)
(* which exists: it is built upwards from the deepest full level.          *)

IsData(d, n) == d \in Seq(Nat) /\ Len(d) = n

Depth(n) == IF BitsOnHighLevel(n) = 0 THEN LowerLevel(n) ELSE LowerLevel(n) + 1

(* What the level above depends on, and where.                             *)
LevelOf(d, n, level, i) ==
  IF i > LowerLevel(n) THEN HighLevel(d)
  ELSE IF i = LowerLevel(n) THEN FullLevel(d)
  ELSE HashPairs(level[i + 1], 2^i)

LEMMA LevelsExist ==
  ASSUME NEW n, IsCount(n), NEW d, IsData(d, n)
  PROVE  \E level : level = [i \in 0..Depth(n) |-> LevelOf(d, n, level, i)]
<1> DEFINE low == LowerLevel(n)
           From(level, m) == level = [i \in (low - m)..Depth(n) |-> LevelOf(d, n, level, i)]
           S == {m \in 0..low : \E level : From(level, m)}
<1>1. low \in 0..7 /\ Depth(n) \in {low, low + 1}
  BY LowerLevelOk DEF Depth
<1>2. 0 \in S
  <2> DEFINE level == [i \in low..Depth(n) |-> IF i > low THEN HighLevel(d) ELSE FullLevel(d)]
  <2>1. \A i \in low..Depth(n) : LevelOf(d, n, level, i) = IF i > low THEN HighLevel(d) ELSE FullLevel(d)
    BY <1>1 DEF LevelOf
  <2>2. level = [i \in low..Depth(n) |-> LevelOf(d, n, level, i)]
    BY <2>1
  <2>3. low - 0 = low
    BY <1>1
  <2>4. From(level, 0)
    BY <2>2, <2>3
  <2>5. 0 \in 0..low
    BY <1>1
  <2> HIDE DEF From, level
  <2> QED BY <2>4, <2>5
<1>3. ASSUME NEW m \in 0..(low - 1), m \in S
      PROVE  m + 1 \in S
  <2>1. PICK below : From(below, m)
    BY <1>3
  <2> DEFINE k == low - (m + 1)
             level == [i \in k..Depth(n) |-> IF i = k THEN HashPairs(below[k + 1], 2^k) ELSE below[i]]
  <2>2. /\ k \in 0..(low - 1) /\ k + 1 = low - m
        /\ \A i \in k..Depth(n) : i # k => i \in (low - m)..Depth(n)
    <3>1. k \in 0..(low - 1) /\ k + 1 = low - m
      BY <1>1
    <3> HIDE DEF k, low
    <3> QED BY <3>1, <1>1
  <2> HIDE DEF k
  <2>3. ASSUME NEW i \in k..Depth(n)
        PROVE  level[i] = LevelOf(d, n, level, i)
    <3>1. CASE i = k
      <4>1. k + 1 \in k..Depth(n) /\ k + 1 # k
        BY <1>1, <2>2
      <4>2. level[k + 1] = below[k + 1]
        BY <4>1
      <4>3. ~(k > low) /\ k # low
        BY <2>2, <1>1
      <4> QED BY <3>1, <4>2, <4>3 DEF LevelOf
    <3>2. CASE i # k
      <4>1. i \in (low - m)..Depth(n)
        BY <3>2, <2>2
      <4>2. level[i] = below[i] /\ below[i] = LevelOf(d, n, below, i)
        BY <4>1, <3>2, <2>1
      <4>3. CASE i > low \/ i = low
        <5>1. LevelOf(d, n, level, i) = LevelOf(d, n, below, i)
          BY <4>3, <1>1 DEF LevelOf
        <5> QED BY <4>2, <5>1
      <4>4. CASE i < low
        <5>1. i + 1 \in k..Depth(n) /\ i + 1 # k
          BY <4>1, <4>4, <1>1, <2>2
        <5>2. level[i + 1] = below[i + 1]
          BY <5>1
        <5>3. LevelOf(d, n, level, i) = LevelOf(d, n, below, i)
          BY <5>2 DEF LevelOf
        <5> QED BY <4>2, <5>3
      <4>5. i \in Int
        BY <1>1, <2>2
      <4> HIDE DEF low, level
      <4> QED BY <4>3, <4>4, <4>5, <1>1
    <3> QED BY <3>1, <3>2
  <2>4. level = [i \in k..Depth(n) |-> LevelOf(d, n, level, i)]
    <3> HIDE DEF LevelOf
    <3> QED BY <2>3
  <2>5. From(level, m + 1)
    BY <2>4 DEF k
  <2>6. m + 1 \in 0..low
    BY <1>1
  <2> HIDE DEF From, level
  <2> QED BY <2>5, <2>6
<1>4. low \in S
  <2>1. low \in 0..8 /\ low \in 0..low
    BY <1>1
  <2> HIDE DEF S
  <2> QED BY <2>1, <1>2, <1>3, UpTo
<1>5. PICK level : From(level, low)
  BY <1>4
<1>6. low - low = 0
  BY <1>1
<1> QED BY <1>5, <1>6

LEMMA Levels ==
  ASSUME NEW n, IsCount(n), NEW d, IsData(d, n)
  PROVE  LevelHash(d) = [i \in 0..Depth(n) |-> LevelOf(d, n, LevelHash(d), i)]
<1> DEFINE Is(level) == level = [i \in 0..Depth(n) |-> LevelOf(d, n, level, i)]
<1>1. \E level : Is(level)
  BY LevelsExist
<1>2. LevelHash(d) = CHOOSE level : Is(level)
  BY DEF LevelHash, LevelOf, Depth, IsData
<1> HIDE DEF Is
<1>3. Is(LevelHash(d))
  BY <1>1, <1>2
<1> QED BY <1>3 DEF Is

-----------------------------------------------------------------------------
(* The nodes: where a level and an index is that of a join, and where that *)
(* of an element, of which one.                                            *)

Inner(n, i, j) ==
  /\ i \in Nat /\ j \in Nat
  /\ \/ i < LowerLevel(n) /\ j < 2^i
     \/ i = LowerLevel(n) /\ j < Joined(n)

Outer(n, i, j) ==
  /\ i \in Nat /\ j \in Nat
  /\ \/ i = LowerLevel(n) /\ Joined(n) <= j /\ j < 2^i
     \/ i = LowerLevel(n) + 1 /\ j < 2 * Joined(n)

ElementAt(n, i, j) == IF i = LowerLevel(n) THEN j + Joined(n) + 1 ELSE j + 1

(* Below a join there are two nodes.                                       *)
LEMMA InnerAbove ==
  ASSUME NEW n, IsCount(n), NEW i, NEW j, Inner(n, i, j)
  PROVE  /\ i \in 0..7 /\ j \in 0..127
         /\ Inner(n, i + 1, 2 * j) \/ Outer(n, i + 1, 2 * j)
         /\ Inner(n, i + 1, 2 * j + 1) \/ Outer(n, i + 1, 2 * j + 1)
<1> DEFINE low == LowerLevel(n)
           h == Joined(n)
<1>1. low \in 0..7 /\ h \in 0..127 /\ h < 2^low /\ 2^low \in 1..128
  BY LowerLevelOk, BitsOk
<1>2. i \in Nat /\ j \in Nat /\ ((i < low /\ j < 2^i) \/ (i = low /\ j < h))
  BY DEF Inner
<1> HIDE DEF low, h
<1>3. CASE i < low
  <2>1. i \in 0..7 /\ j < 2^i
    BY <1>1, <1>2, <1>3
  <2>2. 2^i \in 1..128 /\ 2^(i + 1) = 2 * 2^i
    BY <2>1, PowerDoubles
  <2>3. j \in 0..127 /\ 2 * j < 2^(i + 1) /\ 2 * j + 1 < 2^(i + 1)
    BY <2>1, <2>2, <1>2
  <2>4. ASSUME NEW c \in {2 * j, 2 * j + 1}
        PROVE  Inner(n, i + 1, c) \/ Outer(n, i + 1, c)
    <3>1. c \in Nat /\ c < 2^(i + 1) /\ i + 1 \in Nat
      BY <2>3, <1>2
    <3>2. CASE i + 1 < low
      BY <3>1, <3>2 DEF Inner, low
    <3>3. CASE i + 1 = low
      <4>1. CASE c < h
        BY <3>1, <3>3, <4>1 DEF Inner, low, h
      <4>2. CASE h <= c
        BY <3>1, <3>3, <4>2 DEF Outer, low, h
      <4> QED BY <4>1, <4>2, <3>1, <1>1
    <3> QED BY <3>2, <3>3, <1>1, <1>2, <1>3
  <2> QED BY <2>1, <2>3, <2>4
<1>4. CASE i = low
  <2>1. j < h /\ j \in 0..127
    BY <1>1, <1>2, <1>4
  <2>2. ASSUME NEW c \in {2 * j, 2 * j + 1}
        PROVE  Outer(n, i + 1, c)
    <3>1. c \in Nat /\ c < 2 * h /\ i + 1 \in Nat /\ i + 1 = low + 1
      BY <2>1, <1>1, <1>2, <1>4
    <3> QED BY <3>1 DEF Outer, low, h
  <2> QED BY <1>4, <1>1, <2>1, <2>2
<1> QED BY <1>2, <1>3, <1>4

(* An element lies no deeper, and nothing is joined where it is.           *)
LEMMA OuterWithin ==
  ASSUME NEW n, IsCount(n), NEW i, NEW j, Outer(n, i, j)
  PROVE  /\ i \in 0..8 /\ j \in 0..255 /\ ElementAt(n, i, j) \in 1..n
         /\ ~Inner(n, i, j)
<1> DEFINE low == LowerLevel(n)
           h == Joined(n)
<1>1. low \in 0..7 /\ h \in 0..127 /\ h < 2^low /\ 2^low \in 1..128 /\ n = 2^low + h
  BY LowerLevelOk, BitsOk
<1>2. i \in Nat /\ j \in Nat /\ ((i = low /\ h <= j /\ j < 2^i) \/ (i = low + 1 /\ j < 2 * h))
  BY DEF Outer
<1>3. ElementAt(n, i, j) = IF i = low THEN j + h + 1 ELSE j + 1
  BY DEF ElementAt
<1>4. Inner(n, i, j) => ((i < low /\ j < 2^i) \/ (i = low /\ j < h))
  BY DEF Inner
<1> HIDE DEF low, h
<1>5. CASE i = low
  <2>1. h <= j /\ j < 2^low /\ j \in 0..255 /\ ~(j < h)
    BY <1>1, <1>2, <1>5
  <2>2. j + h + 1 \in 1..n /\ low \in 0..8
    BY <2>1, <1>1
  <2>3. ~Inner(n, i, j)
    BY <1>1, <1>4, <1>5, <2>1
  <2> QED BY <1>3, <1>5, <2>1, <2>2, <2>3
<1>6. CASE i = low + 1
  <2>1. j < 2 * h /\ j \in 0..255 /\ i # low /\ i \in 0..8
    BY <1>1, <1>2, <1>6
  <2>2. j + 1 \in 1..n
    BY <2>1, <1>1
  <2>3. ~Inner(n, i, j)
    BY <1>1, <1>4, <1>6, <2>1
  <2> QED BY <1>3, <1>6, <2>1, <2>2, <2>3
<1> QED BY <1>2, <1>5, <1>6

(* The levels a tree has, by the functions of MerkleTree.                  *)
LEMMA LevelsAre ==
  ASSUME NEW n, IsCount(n), NEW d, IsData(d, n)
  PROVE  /\ \A i \in 0..(LowerLevel(n) - 1) :
              LevelHash(d)[i] = HashPairs(LevelHash(d)[i + 1], 2^i)
         /\ LevelHash(d)[LowerLevel(n)] = FullLevel(d)
         /\ Joined(n) # 0 => LevelHash(d)[LowerLevel(n) + 1] = HighLevel(d)
<1> DEFINE low == LowerLevel(n)
           h == Joined(n)
           level == LevelHash(d)
<1>1. low \in 0..7 /\ h \in 0..127 /\ BitsOnHighLevel(n) = 2 * h
  BY LowerLevelOk, BitsOk
<1>2. level = [a \in 0..Depth(n) |-> LevelOf(d, n, level, a)]
  BY Levels
<1>3. Depth(n) = IF 2 * h = 0 THEN low ELSE low + 1
  BY <1>1 DEF Depth
<1> HIDE DEF low, h, level
<1>4. ASSUME NEW i \in 0..(low - 1)
      PROVE  level[i] = HashPairs(level[i + 1], 2^i)
  <2>1. i \in 0..Depth(n) /\ ~(i > low) /\ i # low
    BY <1>1, <1>3
  <2>2. level[i] = LevelOf(d, n, level, i)
    BY <1>2, <2>1
  <2> QED BY <2>1, <2>2 DEF LevelOf, low
<1>5. level[low] = FullLevel(d)
  <2>1. low \in 0..Depth(n) /\ ~(low > low)
    BY <1>1, <1>3
  <2>2. level[low] = LevelOf(d, n, level, low)
    BY <1>2, <2>1
  <2> QED BY <2>1, <2>2 DEF LevelOf, low
<1>6. ASSUME h # 0
      PROVE  level[low + 1] = HighLevel(d)
  <2>1. low + 1 \in 0..Depth(n) /\ low + 1 > low
    BY <1>1, <1>3, <1>6
  <2>2. level[low + 1] = LevelOf(d, n, level, low + 1)
    BY <1>2, <2>1
  <2> QED BY <2>1, <2>2 DEF LevelOf, low
<1> QED BY <1>4, <1>5, <1>6 DEF low, h, level

(* A join is of the two nodes below it.                                    *)
LEMMA InnerJoins ==
  ASSUME NEW n, IsCount(n), NEW d, IsData(d, n), NEW i, NEW j, Inner(n, i, j)
  PROVE  LevelHash(d)[i][j] = Join(LevelHash(d)[i + 1][2 * j], LevelHash(d)[i + 1][2 * j + 1])
<1> DEFINE low == LowerLevel(n)
           h == Joined(n)
           level == LevelHash(d)
<1>1. low \in 0..7 /\ h \in 0..127 /\ h < 2^low /\ BitsOnHighLevel(n) \div 2 = h /\ 2^low \in 1..128
  BY LowerLevelOk, BitsOk
<1>2. /\ \A a \in 0..(low - 1) : level[a] = HashPairs(level[a + 1], 2^a)
      /\ level[low] = FullLevel(d) /\ (h # 0 => level[low + 1] = HighLevel(d))
  BY LevelsAre
<1>3. i \in Nat /\ j \in Nat /\ ((i < low /\ j < 2^i) \/ (i = low /\ j < h))
  BY DEF Inner
<1> HIDE DEF low, h, level
<1>4. CASE i < low
  <2>1. i \in 0..7 /\ i \in 0..(low - 1) /\ j < 2^i
    BY <1>1, <1>3, <1>4
  <2>2. 2^i \in 1..128
    BY <2>1, PowerDoubles
  <2>3. j \in 0..(2^i - 1)
    BY <2>1, <2>2, <1>3
  <2>4. level[i] = HashPairs(level[i + 1], 2^i)
    BY <1>2, <2>1
  <2>5. level[i][j] = Join(level[i + 1][2 * j], level[i + 1][2 * j + 1])
    BY <2>3, <2>4 DEF HashPairs
  <2> QED BY <2>5 DEF level
<1>5. CASE i = low
  <2>1. h # 0 /\ j < h /\ j \in 0..(2^low - 1)
    BY <1>1, <1>3, <1>5
  <2>2. FullLevel(d)[j] = Join(HighLevel(d)[2 * j], HighLevel(d)[2 * j + 1])
    BY <2>1, <1>1 DEF FullLevel, IsData, low
  <2>3. level[i][j] = Join(level[i + 1][2 * j], level[i + 1][2 * j + 1])
    BY <1>2, <1>5, <2>1, <2>2
  <2> QED BY <2>3 DEF level
<1> QED BY <1>3, <1>4, <1>5

(* An element is hashed by itself.                                         *)
LEMMA OuterHolds ==
  ASSUME NEW n, IsCount(n), NEW d, IsData(d, n), NEW i, NEW j, Outer(n, i, j)
  PROVE  LevelHash(d)[i][j] = Leaf(d[ElementAt(n, i, j)])
<1> DEFINE low == LowerLevel(n)
           h == Joined(n)
           level == LevelHash(d)
<1>1. low \in 0..7 /\ h \in 0..127 /\ h < 2^low /\ BitsOnHighLevel(n) = 2 * h
      /\ BitsOnHighLevel(n) \div 2 = h /\ 2^low \in 1..128
  BY LowerLevelOk, BitsOk
<1>2. level[low] = FullLevel(d) /\ (h # 0 => level[low + 1] = HighLevel(d))
  BY LevelsAre
<1>3. i \in Nat /\ j \in Nat /\ ((i = low /\ h <= j /\ j < 2^i) \/ (i = low + 1 /\ j < 2 * h))
  BY DEF Outer
<1>4. ElementAt(n, i, j) = IF i = low THEN j + h + 1 ELSE j + 1
  BY DEF ElementAt
<1> HIDE DEF low, h, level
<1>5. CASE i = low
  <2>1. j \in 0..(2^low - 1) /\ ~(j < h)
    BY <1>1, <1>3, <1>5
  <2>2. FullLevel(d)[j] = Leaf(d[j + h + 1])
    BY <2>1, <1>1 DEF FullLevel, IsData, low
  <2> QED BY <1>2, <1>4, <1>5, <2>2 DEF level
<1>6. CASE i = low + 1
  <2>1. h # 0 /\ j \in 0..(2 * h - 1) /\ i # low
    BY <1>1, <1>3, <1>6
  <2>2. HighLevel(d)[j] = Leaf(d[j + 1])
    BY <2>1, <1>1 DEF HighLevel, IsData
  <2> QED BY <1>2, <1>4, <1>6, <2>1, <2>2 DEF level
<1> QED BY <1>3, <1>5, <1>6

(* Above every node there is the join of which it is a half.               *)
LEMMA ParentJoins ==
  ASSUME NEW n, IsCount(n), NEW i \in Nat, NEW j \in Nat,
         Inner(n, i + 1, j) \/ Outer(n, i + 1, j)
  PROVE  Inner(n, i, j \div 2)
<1> DEFINE low == LowerLevel(n)
           h == Joined(n)
           half == j \div 2
<1>1. low \in 0..7 /\ h \in 0..127 /\ h < 2^low /\ 2^low \in 1..128
  BY LowerLevelOk, BitsOk
<1>2. \/ i + 1 < low /\ j < 2^(i + 1)
      \/ i + 1 = low /\ j < h
      \/ i + 1 = low /\ h <= j /\ j < 2^(i + 1)
      \/ i + 1 = low + 1 /\ j < 2 * h
  BY DEF Inner, Outer
<1>3. half \in Nat /\ 2 * half <= j /\ j <= 2 * half + 1
  OBVIOUS
<1> HIDE DEF low, h, half
<1>4. CASE i < low
  <2>1. i \in 0..7
    BY <1>1, <1>4
  <2>2. 2^i \in 1..128 /\ 2^(i + 1) = 2 * 2^i
    BY <2>1, PowerDoubles
  <2>3. j < 2^(i + 1)
    <3>1. CASE i + 1 = low
      <4>1. h < 2^(i + 1)
        BY <1>1, <3>1
      <4> QED BY <4>1, <1>1, <1>2, <2>2, <3>1
    <3>2. CASE i + 1 # low
      BY <1>2, <3>2, <1>4, <1>1
    <3> QED BY <3>1, <3>2
  <2>4. half < 2^i
    BY <2>2, <2>3, <1>3
  <2> QED BY <1>3, <1>4, <2>4 DEF Inner, low, half
<1>5. CASE i = low
  <2>1. j < 2 * h
    BY <1>1, <1>2, <1>5
  <2>2. half < h
    BY <2>1, <1>1, <1>3
  <2> QED BY <1>3, <1>5, <2>2 DEF Inner, low, h, half
<1> QED BY <1>1, <1>2, <1>4, <1>5

(* The root is a node, the only one of its level.                          *)
LEMMA RootIsNode ==
  ASSUME NEW n, IsCount(n)
  PROVE  /\ Inner(n, 0, 0) \/ Outer(n, 0, 0)
         /\ \A j : (Inner(n, 0, j) \/ Outer(n, 0, j)) => j = 0
<1> DEFINE low == LowerLevel(n)
           h == Joined(n)
<1>1. low \in 0..7 /\ h \in 0..127 /\ h < 2^low
  BY LowerLevelOk, BitsOk
<1>2. 2^0 = 1
  BY Powers
<1>3. Inner(n, 0, 0) \/ Outer(n, 0, 0)
  <2>2. CASE 0 < low
    BY <1>2, <2>2 DEF Inner
  <2>3. CASE low = 0
    <3>1. CASE 0 < h
      BY <1>2, <2>3, <3>1 DEF Inner
    <3>2. CASE h <= 0
      BY <1>2, <2>3, <3>2 DEF Outer
    <3> HIDE DEF h
    <3> QED BY <1>1, <3>1, <3>2
  <2> HIDE DEF low
  <2> QED BY <1>1, <2>2, <2>3
<1>4. ASSUME NEW j, Inner(n, 0, j)
      PROVE  j = 0
  <2>1. j \in Nat /\ (j < 2^0 \/ (0 = low /\ j < h))
    BY <1>4 DEF Inner
  <2> HIDE DEF h, low
  <2>2. CASE j < 2^0
    BY <2>1, <2>2, <1>2
  <2>3. CASE 0 = low /\ j < h
    <3>1. 2^low = 1
      BY <2>3, NoPower
    <3> QED BY <1>1, <2>1, <2>3, <3>1
  <2> QED BY <2>1, <2>2, <2>3
<1>5. ASSUME NEW j, Outer(n, 0, j)
      PROVE  j = 0
  <2>1. j \in Nat /\ (j < 2^0 \/ 0 = low + 1)
    BY <1>5 DEF Outer
  <2> QED BY <2>1, <1>1, <1>2
<1> QED BY <1>3, <1>4, <1>5

(* Where an element is, in the words of MerkleTree's ProofSize and         *)
(* ApplicationOrder, and that there is one wherever one can be.            *)
LevelAt(n, k) == IF k < BitsOnHighLevel(n) THEN LowerLevel(n) + 1 ELSE LowerLevel(n)
IndexAt(n, k) == IF k < BitsOnHighLevel(n) THEN k ELSE k - BitsOnHighLevel(n) \div 2

LEMMA ElementsHeld ==
  ASSUME NEW n, IsCount(n), NEW k \in 0..(n - 1)
  PROVE  /\ Outer(n, LevelAt(n, k), IndexAt(n, k))
         /\ ElementAt(n, LevelAt(n, k), IndexAt(n, k)) = k + 1
<1> DEFINE low == LowerLevel(n)
           h == Joined(n)
<1>1. low \in 0..7 /\ h \in 0..127 /\ h < 2^low /\ BitsOnHighLevel(n) = 2 * h
      /\ BitsOnHighLevel(n) \div 2 = h /\ 2^low \in 1..128 /\ n = 2^low + h
  BY LowerLevelOk, BitsOk
<1>2. LevelAt(n, k) = (IF k < 2 * h THEN low + 1 ELSE low)
      /\ IndexAt(n, k) = (IF k < 2 * h THEN k ELSE k - h)
  BY <1>1 DEF LevelAt, IndexAt
<1> HIDE DEF low, h
<1>3. CASE k < 2 * h
  <2>1. low + 1 # low /\ low + 1 \in Nat /\ k \in Nat
    BY <1>1
  <2>2. Outer(n, low + 1, k) /\ ElementAt(n, low + 1, k) = k + 1
    BY <2>1, <1>3 DEF Outer, ElementAt, low, h
  <2> QED BY <2>2, <1>2, <1>3
<1>4. CASE ~(k < 2 * h)
  <2>1. k - h \in Nat /\ h <= k - h /\ k - h < 2^low /\ (k - h) + h + 1 = k + 1 /\ low \in Nat
    BY <1>1, <1>4
  <2>2. Outer(n, low, k - h) /\ ElementAt(n, low, k - h) = k + 1
    BY <2>1 DEF Outer, ElementAt, low, h
  <2> QED BY <2>2, <1>2, <1>4
<1> QED BY <1>3, <1>4

LEMMA PlacesTaken ==
  ASSUME NEW n, IsCount(n), NEW i, NEW j, Outer(n, i, j)
  PROVE  \E k \in 0..(n - 1) : LevelAt(n, k) = i /\ IndexAt(n, k) = j
<1> DEFINE low == LowerLevel(n)
           h == Joined(n)
<1>1. low \in 0..7 /\ h \in 0..127 /\ h < 2^low /\ BitsOnHighLevel(n) = 2 * h
      /\ BitsOnHighLevel(n) \div 2 = h /\ 2^low \in 1..128 /\ n = 2^low + h
  BY LowerLevelOk, BitsOk
<1>2. \A k : LevelAt(n, k) = (IF k < 2 * h THEN low + 1 ELSE low)
              /\ IndexAt(n, k) = (IF k < 2 * h THEN k ELSE k - h)
  BY <1>1 DEF LevelAt, IndexAt
<1>3. i \in Nat /\ j \in Nat /\ ((i = low /\ h <= j /\ j < 2^i) \/ (i = low + 1 /\ j < 2 * h))
  BY DEF Outer
<1> HIDE DEF low, h
<1>4. CASE i = low /\ h <= j /\ j < 2^low
  <2>1. j + h \in 0..(n - 1) /\ ~(j + h < 2 * h) /\ (j + h) - h = j
    BY <1>1, <1>3, <1>4
  <2> QED BY <2>1, <1>2, <1>4
<1>5. CASE i = low + 1 /\ j < 2 * h
  <2>1. j \in 0..(n - 1)
    BY <1>1, <1>3, <1>5
  <2> QED BY <2>1, <1>2, <1>5
<1> QED BY <1>3, <1>4, <1>5

-----------------------------------------------------------------------------
(* Verification: the hash recomputed after each join, which exists too.    *)

HashOf(ps, temp, i) ==
  IF i = 0 THEN Leaf(ps.data)
  ELSE IF Bit(ps.applicationOrder, i - 1) = 1 THEN Join(ps.proofArray[i], temp[i - 1])
  ELSE Join(temp[i - 1], ps.proofArray[i])

LEMMA HashesExist ==
  ASSUME NEW ps, NEW n \in 0..8
  PROVE  \E temp : temp = [i \in 0..n |-> HashOf(ps, temp, i)]
<1> DEFINE To(temp, m) == temp = [i \in 0..m |-> HashOf(ps, temp, i)]
           S == {m \in 0..n : \E temp : To(temp, m)}
<1>1. 0 \in S
  <2> DEFINE temp == [i \in 0..0 |-> Leaf(ps.data)]
  <2>1. \A i \in 0..0 : HashOf(ps, temp, i) = Leaf(ps.data)
    BY DEF HashOf
  <2>2. To(temp, 0)
    BY <2>1
  <2>3. 0 \in 0..n
    OBVIOUS
  <2> HIDE DEF To, temp
  <2> QED BY <2>2, <2>3
<1>2. ASSUME NEW m \in 0..(n - 1), m \in S
      PROVE  m + 1 \in S
  <2>1. PICK before : To(before, m)
    BY <1>2
  <2> DEFINE temp == [i \in 0..(m + 1) |-> IF i <= m THEN before[i] ELSE HashOf(ps, before, m + 1)]
  <2>2. \A i \in 0..m : temp[i] = before[i]
    OBVIOUS
  <2>3. ASSUME NEW i \in 0..(m + 1)
        PROVE  temp[i] = HashOf(ps, temp, i)
    <3>1. HashOf(ps, temp, i) = HashOf(ps, before, i)
      <4>1. CASE i = 0
        BY <4>1 DEF HashOf
      <4>2. CASE i # 0
        <5>1. i - 1 \in 0..m
          BY <4>2
        <5>2. temp[i - 1] = before[i - 1]
          BY <2>2, <5>1
        <5> HIDE DEF temp
        <5> QED BY <5>2 DEF HashOf
      <4> QED BY <4>1, <4>2
    <3>2. CASE i <= m
      <4>1. i \in 0..m
        BY <3>2
      <4>2. before[i] = HashOf(ps, before, i)
        BY <2>1, <4>1
      <4>3. temp[i] = before[i]
        BY <2>2, <4>1
      <4> QED BY <4>2, <4>3, <3>1
    <3>3. CASE i = m + 1
      <4>1. ~(i <= m)
        BY <3>3
      <4>2. temp[i] = HashOf(ps, before, m + 1)
        BY <4>1
      <4> QED BY <4>2, <3>1, <3>3
    <3>4. i <= m \/ i = m + 1
      OBVIOUS
    <3> QED BY <3>2, <3>3, <3>4
  <2>4. To(temp, m + 1)
    BY <2>3
  <2>5. m + 1 \in 0..n
    OBVIOUS
  <2> HIDE DEF To, temp
  <2> QED BY <2>4, <2>5
<1>3. n \in S
  <2>1. n \in 0..n
    OBVIOUS
  <2> HIDE DEF S
  <2> QED BY <2>1, <1>1, <1>2, UpTo
<1> QED BY <1>3

LEMMA Recomputed ==
  ASSUME NEW ps, ps.proofSize \in 0..8
  PROVE  \E temp :
           /\ temp = [i \in 0..ps.proofSize |-> HashOf(ps, temp, i)]
           /\ \A expected : VerifyProofStruct(ps, expected) <=> temp[ps.proofSize] = expected
<1> DEFINE Is(temp) == temp = [i \in 0..ps.proofSize |-> HashOf(ps, temp, i)]
           chosen == CHOOSE temp : Is(temp)
<1>1. \E temp : Is(temp)
  BY HashesExist
<1>2. Is(chosen)
  <2> HIDE DEF Is
  <2> QED BY <1>1
<1>3. \A expected : VerifyProofStruct(ps, expected) <=> chosen[ps.proofSize] = expected
  BY DEF VerifyProofStruct, HashOf
<1> HIDE DEF chosen
<1> QED BY <1>2, <1>3

(* The neighbours on the path of an element of d, from its level up.       *)
PathIn(d, j, i) == [l \in 1..i |-> LevelHash(d)[i - l + 1][Neighbour(j \div 2^(l - 1))]]

(* A proof of an element of d: where it is, and its path.                  *)
IsProofIn(d, n, ps) ==
  /\ Outer(n, ps.proofSize, ps.applicationOrder)
  /\ ps.data = d[ElementAt(n, ps.proofSize, ps.applicationOrder)]
  /\ ps.proofArray = PathIn(d, ps.applicationOrder, ps.proofSize)

(* The path from an element, by halving its index, passes through nodes    *)
(* and ends at the root: the hash recomputed at each is the one there.     *)
LEMMA ProofAccepted ==
  ASSUME NEW n, IsCount(n), NEW d, IsData(d, n), NEW ps, IsProofIn(d, n, ps)
  PROVE  VerifyProofStruct(ps, LevelHash(d)[0][0])
<1> DEFINE s == ps.proofSize
           k == ps.applicationOrder
           level == LevelHash(d)
           IsNode(i, j) == Inner(n, i, j) \/ Outer(n, i, j)
<1>0. Outer(n, s, k) /\ ps.data = d[ElementAt(n, s, k)]
  BY DEF IsProofIn
<1>1. s \in 0..8 /\ k \in 0..255 /\ level[s][k] = Leaf(ps.data)
  <2>1. s \in 0..8 /\ k \in 0..255
    BY <1>0, OuterWithin
  <2>2. LevelHash(d)[s][k] = Leaf(d[ElementAt(n, s, k)])
    BY <1>0, OuterHolds
  <2> QED BY <1>0, <2>1, <2>2
<1>2. PICK temp : /\ temp = [i \in 0..s |-> HashOf(ps, temp, i)]
                  /\ \A expected : VerifyProofStruct(ps, expected) <=> temp[s] = expected
  BY <1>1, Recomputed
<1>3. ps.proofArray = [i \in 1..s |-> level[s - i + 1][Neighbour(k \div 2^(i - 1))]]
  BY DEF IsProofIn, PathIn
<1>4. IsNode(s, k)
  BY <1>0
<1> DEFINE OnPath(m) == temp[m] = level[s - m][k \div 2^m] /\ IsNode(s - m, k \div 2^m)
           S == {m \in 0..s : OnPath(m)}
<1> HIDE DEF s, k, level, IsNode
<1>5. 0 \in S
  <2>1. s - 0 = s /\ k \div 2^0 = k /\ 0 \in 0..s
    <3>1. 2^0 = 1
      BY Powers
    <3> QED BY <3>1, <1>1
  <2>2. temp[0] = Leaf(ps.data)
    <3>1. temp[0] = HashOf(ps, temp, 0)
      BY <1>2, <2>1
    <3> QED BY <3>1 DEF HashOf
  <2>3. OnPath(0)
    BY <2>1, <2>2, <1>1, <1>4
  <2> HIDE DEF OnPath
  <2> QED BY <2>1, <2>3
<1>6. ASSUME NEW m \in 0..(s - 1), m \in S
      PROVE  m + 1 \in S
  <2> DEFINE q == k \div 2^m
             above == (s - m) - 1
  <2>1. /\ m \in 0..7 /\ above \in 0..7 /\ above + 1 = s - m /\ s - (m + 1) = above
        /\ s - (m + 1) + 1 = s - m /\ m + 1 \in 0..s /\ m + 1 \in 1..s /\ (m + 1) - 1 = m /\ m + 1 # 0
    <3> HIDE DEF S
    <3> QED BY <1>1
  <2>2. q \in 0..255 /\ k \div 2^(m + 1) = q \div 2
    BY <1>1, <2>1, Shift
  <2>3. temp[m] = level[s - m][q] /\ IsNode(s - m, q)
    BY <1>6
  <2> HIDE DEF q, above
  <2>4. Inner(n, above, q \div 2)
    <3>1. Inner(n, above + 1, q) \/ Outer(n, above + 1, q)
      BY <2>1, <2>3 DEF IsNode
    <3>2. above \in Nat /\ q \in Nat
      BY <2>1, <2>2
    <3> QED BY <3>1, <3>2, ParentJoins
  <2>5. level[above][q \div 2]
          = Join(level[s - m][2 * (q \div 2)], level[s - m][2 * (q \div 2) + 1])
    <3> DEFINE half == q \div 2
    <3> HIDE DEF half
    <3>1. Inner(n, above, half)
      BY <2>4 DEF half
    <3>2. level[above][half] = Join(level[above + 1][2 * half], level[above + 1][2 * half + 1])
      BY <3>1, InnerJoins DEF level
    <3> QED BY <2>1, <3>2 DEF half
  <2>6. ps.proofArray[m + 1] = level[s - m][Neighbour(q)]
    BY <1>3, <2>1 DEF q
  <2>7. Bit(ps.applicationOrder, (m + 1) - 1) = q % 2
    BY <2>1 DEF Bit, q, k
  <2>8. temp[m + 1] = IF q % 2 = 1 THEN Join(level[s - m][Neighbour(q)], level[s - m][q])
                      ELSE Join(level[s - m][q], level[s - m][Neighbour(q)])
    <3>1. temp[m + 1] = HashOf(ps, temp, m + 1)
      BY <1>2, <2>1
    <3>2. temp[(m + 1) - 1] = level[s - m][q]
      BY <2>1, <2>3
    <3> QED BY <3>1, <3>2, <2>1, <2>6, <2>7 DEF HashOf
  <2>9. temp[m + 1] = level[above][q \div 2]
    <3>1. CASE q % 2 = 1
      <4>1. 2 * (q \div 2) = q - 1 /\ 2 * (q \div 2) + 1 = q /\ Neighbour(q) = q - 1
        BY <2>2, <3>1 DEF Neighbour
      <4> QED BY <4>1, <2>5, <2>8, <3>1
    <3>2. CASE q % 2 = 0
      <4>1. 2 * (q \div 2) = q /\ Neighbour(q) = q + 1
        BY <2>2, <3>2 DEF Neighbour
      <4> QED BY <4>1, <2>5, <2>8, <3>2
    <3>3. q % 2 = 0 \/ q % 2 = 1
      BY <2>2
    <3> QED BY <3>1, <3>2, <3>3
  <2>10. OnPath(m + 1)
    BY <2>1, <2>2, <2>4, <2>9 DEF IsNode
  <2> HIDE DEF OnPath
  <2> QED BY <2>1, <2>10
<1>7. s \in S
  <2>1. s \in 0..s
    BY <1>1
  <2> HIDE DEF S
  <2> QED BY <2>1, <1>1, <1>5, <1>6, UpTo
<1>8. k \div 2^s = 0 /\ s - s = 0
  <2>1. s - s = 0
    BY <1>1
  <2>2. IsNode(0, k \div 2^s)
    BY <1>7, <2>1
  <2> QED BY <2>1, <2>2, RootIsNode DEF IsNode
<1>9. temp[s] = level[0][0]
  BY <1>7, <1>8
<1> QED BY <1>2, <1>9 DEF level

(* With the same hashes, a root is recomputed from one element only.       *)
LEMMA ProofBinds ==
  ASSUME NEW ps, NEW qs, ps.proofSize \in 0..8, qs.proofSize = ps.proofSize,
         qs.applicationOrder = ps.applicationOrder, qs.proofArray = ps.proofArray,
         qs.data # ps.data, NEW expected, VerifyProofStruct(ps, expected)
  PROVE  ~VerifyProofStruct(qs, expected)
<1> DEFINE s == ps.proofSize
<1>1. PICK temp : /\ temp = [i \in 0..s |-> HashOf(ps, temp, i)]
                  /\ VerifyProofStruct(ps, expected) <=> temp[s] = expected
  BY Recomputed
<1>2. PICK other : /\ other = [i \in 0..s |-> HashOf(qs, other, i)]
                   /\ VerifyProofStruct(qs, expected) <=> other[s] = expected
  BY Recomputed
<1> DEFINE S == {m \in 0..s : temp[m] # other[m]}
<1>3. s \in 0..8
  OBVIOUS
<1> HIDE DEF s
<1>4. 0 \in S
  <2>1. 0 \in 0..s
    BY <1>3
  <2>2. temp[0] = HashOf(ps, temp, 0) /\ other[0] = HashOf(qs, other, 0)
    BY <2>1, <1>1, <1>2
  <2>3. temp[0] = Leaf(ps.data) /\ other[0] = Leaf(qs.data)
    BY <2>2 DEF HashOf
  <2>4. temp[0].data = ps.data /\ other[0].data = qs.data
    BY <2>3 DEF Leaf
  <2> QED BY <2>1, <2>4
<1>5. ASSUME NEW m \in 0..(s - 1), m \in S
      PROVE  m + 1 \in S
  <2>1. m + 1 \in 0..s /\ (m + 1) - 1 = m /\ m + 1 # 0
    <3> HIDE DEF S
    <3> QED BY <1>3
  <2>2. temp[m + 1] = HashOf(ps, temp, m + 1) /\ other[m + 1] = HashOf(qs, other, m + 1)
    BY <2>1, <1>1, <1>2
  <2>3. temp[m] # other[m]
    BY <1>5
  <2>4. CASE Bit(ps.applicationOrder, m) = 1
    <3>1. temp[m + 1] = Join(ps.proofArray[m + 1], temp[m])
          /\ other[m + 1] = Join(ps.proofArray[m + 1], other[m])
      BY <2>1, <2>2, <2>4 DEF HashOf
    <3>2. temp[m + 1].right = temp[m] /\ other[m + 1].right = other[m]
      BY <3>1 DEF Join
    <3> QED BY <2>1, <2>3, <3>2
  <2>5. CASE Bit(ps.applicationOrder, m) # 1
    <3>1. temp[m + 1] = Join(temp[m], ps.proofArray[m + 1])
          /\ other[m + 1] = Join(other[m], ps.proofArray[m + 1])
      BY <2>1, <2>2, <2>5 DEF HashOf
    <3>2. temp[m + 1].left = temp[m] /\ other[m + 1].left = other[m]
      BY <3>1 DEF Join
    <3> QED BY <2>1, <2>3, <3>2
  <2> QED BY <2>4, <2>5
<1>6. s \in S
  <2>1. s \in 0..s
    BY <1>3
  <2> HIDE DEF S
  <2> QED BY <2>1, <1>3, <1>4, <1>5, UpTo
<1>7. temp[s] # other[s]
  BY <1>6
<1> QED BY <1>1, <1>2, <1>7

-----------------------------------------------------------------------------
(* What the root stands for: opening it eight times leaves the elements.   *)

OpenedFrom(hash, opened, i) ==
  IF i = 0 THEN {[level |-> 0, index |-> 0, hash |-> hash]}
  ELSE UNION {Halves(node) : node \in opened[i - 1]}

LEMMA OpenedExists ==
  ASSUME NEW hash, NEW n \in 0..8
  PROVE  \E opened : opened = [i \in 0..n |-> OpenedFrom(hash, opened, i)]
<1> DEFINE To(opened, m) == opened = [i \in 0..m |-> OpenedFrom(hash, opened, i)]
           S == {m \in 0..n : \E opened : To(opened, m)}
<1>1. 0 \in S
  <2> DEFINE opened == [i \in 0..0 |-> {[level |-> 0, index |-> 0, hash |-> hash]}]
  <2>1. \A i \in 0..0 : OpenedFrom(hash, opened, i) = {[level |-> 0, index |-> 0, hash |-> hash]}
    BY DEF OpenedFrom
  <2>2. To(opened, 0)
    BY <2>1
  <2>3. 0 \in 0..n
    OBVIOUS
  <2> HIDE DEF To, opened
  <2> QED BY <2>2, <2>3
<1>2. ASSUME NEW m \in 0..(n - 1), m \in S
      PROVE  m + 1 \in S
  <2>1. PICK before : To(before, m)
    BY <1>2
  <2> DEFINE last == OpenedFrom(hash, before, m + 1)
             opened == [i \in 0..(m + 1) |-> IF i <= m THEN before[i] ELSE last]
  <2> HIDE DEF last
  <2>2. \A i \in 0..m : opened[i] = before[i]
    OBVIOUS
  <2>3. ASSUME NEW i \in 0..(m + 1)
        PROVE  opened[i] = OpenedFrom(hash, opened, i)
    <3>1. OpenedFrom(hash, opened, i) = OpenedFrom(hash, before, i)
      <4>1. CASE i = 0
        BY <4>1 DEF OpenedFrom
      <4>2. CASE i # 0
        <5>1. i - 1 \in 0..m
          BY <4>2
        <5>2. opened[i - 1] = before[i - 1]
          BY <2>2, <5>1
        <5> HIDE DEF opened
        <5> QED BY <5>2 DEF OpenedFrom
      <4> QED BY <4>1, <4>2
    <3>2. CASE i <= m
      <4>1. i \in 0..m
        BY <3>2
      <4>2. before[i] = OpenedFrom(hash, before, i)
        BY <2>1, <4>1
      <4>3. opened[i] = before[i]
        BY <2>2, <4>1
      <4> QED BY <4>2, <4>3, <3>1
    <3>3. CASE i = m + 1
      <4>1. ~(i <= m)
        BY <3>3
      <4>2. opened[i] = last
        BY <4>1
      <4> QED BY <4>2, <3>1, <3>3 DEF last
    <3>4. i <= m \/ i = m + 1
      OBVIOUS
    <3> QED BY <3>2, <3>3, <3>4
  <2>4. To(opened, m + 1)
    BY <2>3
  <2>5. m + 1 \in 0..n
    OBVIOUS
  <2> HIDE DEF To, opened
  <2> QED BY <2>4, <2>5
<1>3. n \in S
  <2>1. n \in 0..n
    OBVIOUS
  <2> HIDE DEF S
  <2> QED BY <2>1, <1>1, <1>2, UpTo
<1> QED BY <1>3

LEMMA LeavesOpened ==
  ASSUME NEW hash
  PROVE  \E opened : /\ opened = [i \in 0..8 |-> OpenedFrom(hash, opened, i)]
                     /\ Leaves(hash) = opened[8]
<1> DEFINE Is(opened) == opened = [i \in 0..8 |-> OpenedFrom(hash, opened, i)]
           chosen == CHOOSE opened : Is(opened)
<1>1. \E opened : Is(opened)
  BY OpenedExists
<1>2. Is(chosen)
  <2> HIDE DEF Is
  <2> QED BY <1>1
<1>3. Leaves(hash) = chosen[8]
  BY DEF Leaves, OpenedFrom
<1> HIDE DEF chosen
<1> QED BY <1>2, <1>3

NodeAt(d, i, j) == [level |-> i, index |-> j, hash |-> LevelHash(d)[i][j]]

LEMMA HalvesOfInner ==
  ASSUME NEW n, IsCount(n), NEW d, IsData(d, n), NEW i, NEW j, Inner(n, i, j)
  PROVE  Halves(NodeAt(d, i, j)) = {NodeAt(d, i + 1, 2 * j), NodeAt(d, i + 1, 2 * j + 1)}
<1> DEFINE left == LevelHash(d)[i + 1][2 * j]
           right == LevelHash(d)[i + 1][2 * j + 1]
<1>1. LevelHash(d)[i][j] = Join(left, right)
  BY InnerJoins
<1>2. NodeAt(d, i, j) = [level |-> i, index |-> j, hash |-> Join(left, right)]
  BY <1>1 DEF NodeAt
<1>3. NodeAt(d, i + 1, 2 * j) = [level |-> i + 1, index |-> 2 * j, hash |-> left]
      /\ NodeAt(d, i + 1, 2 * j + 1) = [level |-> i + 1, index |-> 2 * j + 1, hash |-> right]
  BY DEF NodeAt
<1> HIDE DEF left, right
<1>4. "data" \notin DOMAIN Join(left, right)
      /\ Join(left, right).left = left /\ Join(left, right).right = right
  BY DEF Join
<1> DEFINE node == NodeAt(d, i, j)
<1>5. node.level = i /\ node.index = j /\ node.hash = Join(left, right)
  BY <1>2
<1> HIDE DEF node
<1>6. Halves(node) = {[level |-> i + 1, index |-> 2 * j, hash |-> left],
                      [level |-> i + 1, index |-> 2 * j + 1, hash |-> right]}
  BY <1>4, <1>5 DEF Halves
<1> QED BY <1>3, <1>6 DEF node

LEMMA HalvesOfOuter ==
  ASSUME NEW n, IsCount(n), NEW d, IsData(d, n), NEW i, NEW j, Outer(n, i, j)
  PROVE  Halves(NodeAt(d, i, j)) = {NodeAt(d, i, j)}
<1> DEFINE a == d[ElementAt(n, i, j)]
<1>1. LevelHash(d)[i][j] = Leaf(a)
  BY OuterHolds
<1> HIDE DEF a
<1>2. NodeAt(d, i, j).hash = Leaf(a)
  BY <1>1 DEF NodeAt
<1>3. "data" \in DOMAIN Leaf(a)
  BY DEF Leaf
<1> QED BY <1>2, <1>3 DEF Halves

(* Each element is a leaf, at its place, and there are no others.          *)
LEMMA LeavesOfRoot ==
  ASSUME NEW n, IsCount(n), NEW d, IsData(d, n)
  PROVE  \A x : x \in Leaves(LevelHash(d)[0][0]) <=>
                  \E i, j : Outer(n, i, j) /\ x = NodeAt(d, i, j)
<1> DEFINE root == LevelHash(d)[0][0]
<1>1. PICK opened : opened = [i \in 0..8 |-> OpenedFrom(root, opened, i)] /\ Leaves(root) = opened[8]
  BY LeavesOpened
<1> HIDE DEF root
<1> DEFINE Within(m, i, j) == (i = m /\ Inner(n, i, j)) \/ (i <= m /\ Outer(n, i, j))
           Is(m) == \A x : x \in opened[m] <=> \E i, j : Within(m, i, j) /\ x = NodeAt(d, i, j)
           S == {m \in 0..8 : Is(m)}
<1>2. 0 \in S
  <2>1. opened[0] = {NodeAt(d, 0, 0)}
    <3>1. 0 \in 0..8
      OBVIOUS
    <3>2. opened[0] = OpenedFrom(root, opened, 0)
      BY <1>1, <3>1
    <3> QED BY <3>2 DEF OpenedFrom, NodeAt, root
  <2>2. Within(0, 0, 0)
    <3>1. Inner(n, 0, 0) \/ Outer(n, 0, 0)
      BY RootIsNode
    <3>2. 0 <= 0
      OBVIOUS
    <3> QED BY <3>1, <3>2
  <2>3. ASSUME NEW i, NEW j, Within(0, i, j)
        PROVE  i = 0 /\ j = 0
    <3>1. i \in Nat /\ (i = 0 \/ i <= 0) /\ (Inner(n, i, j) \/ Outer(n, i, j))
      BY <2>3 DEF Inner, Outer
    <3>2. i = 0
      BY <3>1
    <3> QED BY <3>1, <3>2, RootIsNode
  <2> HIDE DEF Within
  <2>4. Is(0)
    BY <2>1, <2>2, <2>3
  <2> HIDE DEF Is
  <2> QED BY <2>4
<1>3. ASSUME NEW m \in 0..(8 - 1), m \in S
      PROVE  m + 1 \in S
  <2>1. Is(m)
    BY <1>3
  <2>2. opened[m + 1] = UNION {Halves(node) : node \in opened[m]}
    <3>1. m + 1 \in 0..8 /\ m + 1 # 0 /\ (m + 1) - 1 = m
      OBVIOUS
    <3>2. opened[m + 1] = OpenedFrom(root, opened, m + 1)
      BY <1>1, <3>1
    <3> QED BY <3>1, <3>2 DEF OpenedFrom
  <2>3. ASSUME NEW x, x \in opened[m + 1]
        PROVE  \E i, j : Within(m + 1, i, j) /\ x = NodeAt(d, i, j)
    <3>1. PICK node \in opened[m] : x \in Halves(node)
      BY <2>2, <2>3
    <3>2. PICK i, j : Within(m, i, j) /\ node = NodeAt(d, i, j)
      BY <2>1, <3>1
    <3>3. CASE i <= m /\ Outer(n, i, j)
      <4>1. x = NodeAt(d, i, j)
        BY <3>1, <3>2, <3>3, HalvesOfOuter
      <4>2. i <= m + 1
        BY <3>3 DEF Outer
      <4>3. Within(m + 1, i, j)
        BY <3>3, <4>2
      <4> HIDE DEF Within
      <4> QED BY <4>1, <4>3
    <3>4. CASE i = m /\ Inner(n, i, j)
      <4>1. x = NodeAt(d, m + 1, 2 * j) \/ x = NodeAt(d, m + 1, 2 * j + 1)
        BY <3>1, <3>2, <3>4, HalvesOfInner
      <4>2. Within(m + 1, m + 1, 2 * j) /\ Within(m + 1, m + 1, 2 * j + 1)
        <5>1. /\ Inner(n, m + 1, 2 * j) \/ Outer(n, m + 1, 2 * j)
              /\ Inner(n, m + 1, 2 * j + 1) \/ Outer(n, m + 1, 2 * j + 1)
          BY <3>4, InnerAbove
        <5>2. m + 1 <= m + 1
          OBVIOUS
        <5> QED BY <5>1, <5>2
      <4> HIDE DEF Within
      <4> QED BY <4>1, <4>2
    <3> QED BY <3>2, <3>3, <3>4
  <2>4. ASSUME NEW i, NEW j, Within(m + 1, i, j)
        PROVE  NodeAt(d, i, j) \in opened[m + 1]
    <3>0. i \in Nat /\ j \in Nat
      BY <2>4 DEF Inner, Outer
    <3>1. CASE i <= m /\ Outer(n, i, j)
      <4>1. Within(m, i, j)
        BY <3>1
      <4>2. NodeAt(d, i, j) \in opened[m]
        <5> HIDE DEF Within
        <5> QED BY <2>1, <4>1
      <4>3. NodeAt(d, i, j) \in Halves(NodeAt(d, i, j))
        BY <3>1, HalvesOfOuter
      <4> QED BY <2>2, <4>2, <4>3
    <3>2. CASE i = m + 1
      <4> DEFINE half == j \div 2
      <4>1. Inner(n, m + 1, j) \/ Outer(n, m + 1, j)
        BY <2>4, <3>2
      <4>2. Inner(n, m, half)
        BY <3>0, <4>1, ParentJoins
      <4>3. NodeAt(d, m, half) \in opened[m]
        <5>1. Within(m, m, half)
          BY <4>2
        <5> HIDE DEF Within, half
        <5> QED BY <2>1, <5>1
      <4>4. j = 2 * half \/ j = 2 * half + 1
        BY <3>0
      <4> HIDE DEF half
      <4>5. NodeAt(d, m + 1, j) \in Halves(NodeAt(d, m, half))
        BY <4>2, <4>4, HalvesOfInner
      <4> QED BY <2>2, <3>2, <4>3, <4>5
    <3>3. i <= m \/ i = m + 1
      <4>1. i <= m + 1
        BY <2>4, <3>0
      <4> HIDE DEF S
      <4> QED BY <3>0, <4>1
    <3>4. i <= m => Outer(n, i, j)
      <4>1. i <= m => i # m + 1
        BY <3>0
      <4> QED BY <2>4, <4>1
    <3> QED BY <3>1, <3>2, <3>3, <3>4
  <2> HIDE DEF Within
  <2>5. Is(m + 1)
    BY <2>3, <2>4
  <2>6. m + 1 \in 0..8
    OBVIOUS
  <2> HIDE DEF Is
  <2> QED BY <2>5, <2>6
<1>4. 8 \in S
  <2>1. 8 \in 0..8
    OBVIOUS
  <2> HIDE DEF S
  <2> QED BY <2>1, <1>2, <1>3, UpTo
<1>5. \A i, j : Within(8, i, j) <=> Outer(n, i, j)
  <2>1. ASSUME NEW i, NEW j
        PROVE  (i = 8 => ~Inner(n, i, j)) /\ (Outer(n, i, j) => i <= 8)
    <3>1. Inner(n, i, j) => i \in 0..7
      BY InnerAbove
    <3>2. Outer(n, i, j) => i \in 0..8
      BY OuterWithin
    <3> QED BY <3>1, <3>2
  <2> QED BY <2>1
<1> HIDE DEF Within
<1> QED BY <1>1, <1>4, <1>5 DEF root

-----------------------------------------------------------------------------
(* Two trees of the same root: what is a leaf of one is a leaf of the      *)
(* other, so they have the same shape and the same elements.               *)

SameRoot(d, n, e, m) ==
  IsData(d, n) /\ IsData(e, m) /\ LevelHash(d)[0][0] = LevelHash(e)[0][0]

LEMMA SharedLeaf ==
  ASSUME NEW n, IsCount(n), NEW m, IsCount(m), NEW d, NEW e, SameRoot(d, n, e, m),
         NEW i, NEW j, Outer(n, i, j)
  PROVE  Outer(m, i, j) /\ LevelHash(d)[i][j] = LevelHash(e)[i][j]
<1>0. IsData(d, n) /\ IsData(e, m)
  BY DEF SameRoot
<1>1. NodeAt(d, i, j) \in Leaves(LevelHash(d)[0][0])
  BY <1>0, LeavesOfRoot
<1>2. NodeAt(d, i, j) \in Leaves(LevelHash(e)[0][0])
  BY <1>1 DEF SameRoot
<1>3. PICK k, l : Outer(m, k, l) /\ NodeAt(d, i, j) = NodeAt(e, k, l)
  BY <1>0, <1>2, LeavesOfRoot
<1>4. NodeAt(d, i, j).level = NodeAt(e, k, l).level /\ NodeAt(d, i, j).index = NodeAt(e, k, l).index
      /\ NodeAt(d, i, j).hash = NodeAt(e, k, l).hash
  BY <1>3
<1>5. i = k /\ j = l /\ LevelHash(d)[i][j] = LevelHash(e)[k][l]
  BY <1>4 DEF NodeAt
<1> QED BY <1>3, <1>5

LEMMA SharedLevel ==
  ASSUME NEW n, IsCount(n), NEW m, IsCount(m), NEW d, NEW e, SameRoot(d, n, e, m)
  PROVE  LowerLevel(n) = LowerLevel(m) \/ LowerLevel(n) = LowerLevel(m) + 1
<1> DEFINE low == LowerLevel(n)
           h == Joined(n)
           last == 2^low - 1
<1>1. low \in 0..7 /\ h \in 0..127 /\ h < 2^low /\ 2^low \in 1..128
  BY LowerLevelOk, BitsOk
<1>2. Outer(n, low, last)
  <2>1. last \in Nat /\ low \in Nat /\ h <= last /\ last < 2^low
    <3> HIDE DEF low, h
    <3> QED BY <1>1
  <2> HIDE DEF last
  <2> QED BY <2>1 DEF Outer
<1> HIDE DEF low, last
<1>3. Outer(m, low, last)
  BY <1>2, SharedLeaf
<1>4. low = LowerLevel(m) \/ low = LowerLevel(m) + 1
  BY <1>3 DEF Outer
<1> QED BY <1>4 DEF low

LEMMA SharedJoins ==
  ASSUME NEW n, IsCount(n), NEW m, IsCount(m), NEW d, NEW e, SameRoot(d, n, e, m),
         LowerLevel(n) = LowerLevel(m)
  PROVE  Joined(m) <= Joined(n)
<1> DEFINE low == LowerLevel(n)
           h == Joined(n)
<1>1. low \in 0..7 /\ h \in 0..127 /\ h < 2^low
  BY LowerLevelOk, BitsOk
<1>2. Outer(n, low, h)
  <2>1. h \in Nat /\ low \in Nat /\ h <= h
    <3> HIDE DEF low, h
    <3> QED BY <1>1
  <2> QED BY <1>1, <2>1 DEF Outer
<1>3. low = LowerLevel(m)
  OBVIOUS
<1> HIDE DEF low, h
<1>4. Outer(m, low, h)
  BY <1>2, SharedLeaf
<1>5. low # low + 1
  BY <1>1
<1>6. Joined(m) <= h
  BY <1>3, <1>4, <1>5 DEF Outer
<1> QED BY <1>6 DEF h

LEMMA SharedShape ==
  ASSUME NEW n, IsCount(n), NEW m, IsCount(m), NEW d, NEW e, SameRoot(d, n, e, m)
  PROVE  n = m
<1>1. SameRoot(e, m, d, n)
  BY DEF SameRoot
<1> DEFINE low == LowerLevel(n)
           low2 == LowerLevel(m)
           h == Joined(n)
           h2 == Joined(m)
<1>2. low \in 0..7 /\ h \in 0..127 /\ n = 2^low + h
  BY LowerLevelOk, BitsOk
<1>3. low2 \in 0..7 /\ h2 \in 0..127 /\ m = 2^low2 + h2
  BY LowerLevelOk, BitsOk
<1>4. (low = low2 \/ low = low2 + 1) /\ (low2 = low \/ low2 = low + 1)
  BY <1>1, SharedLevel
<1>5. (low = low2 => h2 <= h) /\ (low2 = low => h <= h2)
  BY <1>1, SharedJoins
<1> HIDE DEF low, low2, h, h2
<1>6. low = low2
  BY <1>2, <1>3, <1>4
<1>7. h = h2
  BY <1>2, <1>3, <1>5, <1>6
<1> QED BY <1>2, <1>3, <1>6, <1>7

LEMMA SharedElements ==
  ASSUME NEW n, IsCount(n), NEW d, NEW e, SameRoot(d, n, e, n)
  PROVE  \A p \in 1..n : d[p] = e[p]
<1> TAKE p \in 1..n
<1> DEFINE k == p - 1
           i == LevelAt(n, k)
           j == IndexAt(n, k)
<1>0. IsData(d, n) /\ IsData(e, n)
  BY DEF SameRoot
<1>1. k \in 0..(n - 1) /\ k + 1 = p
  BY DEF IsCount
<1> HIDE DEF k
<1>2. Outer(n, i, j) /\ ElementAt(n, i, j) = p
  BY <1>1, ElementsHeld
<1> HIDE DEF i, j
<1>3. LevelHash(d)[i][j] = LevelHash(e)[i][j]
  BY <1>2, SharedLeaf
<1>4. LevelHash(d)[i][j] = Leaf(d[p])
  BY <1>0, <1>2, OuterHolds
<1>5. LevelHash(e)[i][j] = Leaf(e[p])
  BY <1>0, <1>2, OuterHolds
<1>6. Leaf(d[p]).data = d[p] /\ Leaf(e[p]).data = e[p]
  BY DEF Leaf
<1> QED BY <1>3, <1>4, <1>5, <1>6

LEMMA SharedData ==
  ASSUME NEW n, IsCount(n), NEW m, IsCount(m), NEW d, NEW e, SameRoot(d, n, e, m)
  PROVE  d = e
<1>1. n = m
  BY SharedShape
<1>2. \A p \in 1..n : d[p] = e[p]
  <2>1. SameRoot(d, n, e, n)
    BY <1>1
  <2> QED BY <2>1, SharedElements
<1>3. d \in Seq(Nat) /\ e \in Seq(Nat) /\ Len(d) = n /\ Len(e) = n
  BY <1>1 DEF SameRoot, IsData
<1> QED BY <1>2, <1>3, SeqEqual

(* Trees of different elements have different roots, however many each has *)
(* (1 to 255) and whatever its shape: what the header of a block carries   *)
(* stands for one list of transactions only.                               *)
THEOREM RootBinds ==
  ASSUME NEW d \in Seq(Nat), Len(d) \in 1..255, NEW e \in Seq(Nat), Len(e) \in 1..255,
         LevelHash(d)[0][0] = LevelHash(e)[0][0]
  PROVE  d = e
<1>1. SameRoot(d, Len(d), e, Len(e)) /\ IsCount(Len(d)) /\ IsCount(Len(e))
  BY DEF SameRoot, IsData, IsCount
<1> QED BY <1>1, SharedData

-----------------------------------------------------------------------------
(* The inductive invariant.                                                *)

(* The elements and the transactions are numbered by their places, and the *)
(* keys of each transaction fit.                                           *)
Numbered ==
  /\ pool \in Pools
  /\ data \in Seq(Nat) /\ \A i \in 1..Len(data) : data[i] = i
  /\ transactionBlocks \in Seq([number : Nat, inputs : 0..255])
  /\ \A i \in 1..Len(transactionBlocks) : transactionBlocks[i].number = i

(* The tree has counted every transaction up to its capacity, the group    *)
(* has counted all of them in a byte.                                      *)
Counted ==
  /\ Len(data) \in 0..255 /\ elements = Len(data) /\ size = Len(transactionBlocks) % 256
  /\ Len(data) = IF Len(transactionBlocks) <= 255 THEN Len(transactionBlocks) ELSE 255

(* A finalized tree is that of its elements, of which there is one.        *)
Hashed ==
  /\ finalized \in BOOLEAN /\ panicked \in BOOLEAN
  /\ finalized => Len(data) >= 1 /\ levelHash = LevelHash(data)

(* A proof is that of the element asked for, and of the only one whichever *)
(* is asked for.                                                           *)
Proved ==
  /\ asked \in 0..255
  /\ \/ proof = NoProof
     \/ finalized /\ Len(data) = 1 /\ proof = [NoProof EXCEPT !.data = data[1]]
     \/ /\ finalized /\ Len(data) # 1 /\ asked < Len(data)
        /\ proof = [applicationOrder |-> IndexAt(Len(data), asked),
                    proofSize |-> LevelAt(Len(data), asked),
                    proofArray |-> PathIn(data, IndexAt(Len(data), asked), LevelAt(Len(data), asked)),
                    data |-> data[asked + 1]]

(* A peer has made of the wire what it had to.                             *)
Rebuilt ==
  received # NoGroup =>
    /\ finalized
    /\ received = [transactionBlocks |-> Deserialize(Wire),
                   root |-> IF Deserialize(Wire) = <<>> THEN Panicked
                            ELSE LevelHash(PeerData(Wire))[0][0]]

GroupInv == Numbered /\ Counted /\ Hashed /\ Proved /\ Rebuilt

LEMMA SameNumbered ==
  Numbered /\ UNCHANGED <<pool, data, transactionBlocks>> => Numbered'
BY DEF Numbered

LEMMA SameCounted ==
  Counted /\ UNCHANGED <<data, elements, transactionBlocks, size>> => Counted'
BY DEF Counted

LEMMA SameHashed ==
  Hashed /\ panicked' \in BOOLEAN /\ UNCHANGED <<finalized, data, levelHash>> => Hashed'
BY DEF Hashed

LEMMA SameProved ==
  Proved /\ UNCHANGED <<finalized, data, asked, proof>> => Proved'
BY DEF Proved

LEMMA SameRebuilt ==
  Rebuilt /\ UNCHANGED <<finalized, size, transactionBlocks, received>> => Rebuilt'
BY DEF Rebuilt, Wire

LEMMA GroupInvInit == Init => GroupInv
<1> SUFFICES ASSUME Init
             PROVE  GroupInv
  OBVIOUS
<1> USE DEF Init, TreeInit
<1>0. Numbered
  BY DEF Numbered
<1>1. Counted
  BY DEF Counted
<1>2. Hashed
  BY DEF Hashed
<1>3. Proved
  BY DEF Proved
<1>4. Rebuilt
  BY DEF Rebuilt
<1> QED BY <1>0, <1>1, <1>2, <1>3, <1>4 DEF GroupInv

(* The next transaction is numbered by its place, and its keys fit.        *)
LEMMA NextFits ==
  ASSUME Numbered, RoomForKeys(NextTransaction)
  PROVE  /\ NextTransaction \in [number : Nat, inputs : 0..255]
         /\ NextTransaction.number = Len(transactionBlocks) + 1
<1> DEFINE n == Len(transactionBlocks) + 1
           inputs == IF n = pool.number THEN pool.inputs ELSE 1
<1>1. n \in Nat /\ inputs \in Nat
  BY PoolsAssumption, LenProperties DEF Numbered
<1>2. NextTransaction = [number |-> n, inputs |-> inputs]
  BY DEF NextTransaction, Transaction
<1> HIDE DEF n, inputs
<1>3. inputs <= inputs % 256
  BY <1>2 DEF RoomForKeys, Uint8
<1>4. inputs \in 0..255
  BY <1>1, <1>3
<1> QED BY <1>1, <1>2, <1>4 DEF n

LEMMA AddTransactionKeeps ==
  ASSUME GroupInv, AddTransaction
  PROVE  GroupInv'
<1>1. Numbered /\ Counted /\ Hashed /\ Proved /\ Rebuilt
  BY DEF GroupInv
<1>2. CASE RoomForKeys(NextTransaction)
  <2> DEFINE tx == NextTransaction
  <2>1. /\ size' = (size + 1) % 256 /\ transactionBlocks' = Append(transactionBlocks, tx)
        /\ Add /\ pool' = pool /\ received' = received
    BY <1>2 DEF AddTransaction, Uint8
  <2>2. tx \in [number : Nat, inputs : 0..255] /\ tx.number = Len(transactionBlocks) + 1
    BY <1>1, <1>2, NextFits
  <2> HIDE DEF tx
  <2>3. ~finalized /\ UNCHANGED <<levelHash, finalized, asked, proof, panicked>>
    BY <2>1 DEF Add
  <2>4. Numbered' /\ Counted'
    <3> DEFINE count == Len(transactionBlocks)
               len == Len(data)
    <3>1. /\ transactionBlocks \in Seq([number : Nat, inputs : 0..255])
          /\ \A i \in 1..count : transactionBlocks[i].number = i
          /\ data \in Seq(Nat) /\ \A i \in 1..len : data[i] = i
          /\ pool' \in Pools
      BY <1>1, <2>1 DEF Numbered
    <3>2. count \in Nat
      BY <3>1, LenProperties
    <3>3. /\ len \in 0..255 /\ elements = len /\ size = count % 256
          /\ len = IF count <= 255 THEN count ELSE 255
      BY <1>1 DEF Counted
    <3>4. /\ transactionBlocks' \in Seq([number : Nat, inputs : 0..255])
          /\ Len(transactionBlocks') = count + 1
          /\ \A i \in 1..(count + 1) : transactionBlocks'[i].number = i
      <4>1. /\ transactionBlocks' \in Seq([number : Nat, inputs : 0..255])
            /\ Len(transactionBlocks') = count + 1
            /\ \A i \in 1..count : transactionBlocks'[i] = transactionBlocks[i]
            /\ transactionBlocks'[count + 1] = tx
        BY <2>1, <2>2, <3>1, AppendProperties
      <4> HIDE DEF count
      <4>2. ASSUME NEW i \in 1..(count + 1)
            PROVE  transactionBlocks'[i].number = i
        <5>1. CASE i \in 1..count
          BY <3>1, <4>1, <5>1
        <5>2. CASE i = count + 1
          BY <2>2, <4>1, <5>2 DEF count
        <5> QED BY <3>2, <5>1, <5>2
      <4> QED BY <4>1, <4>2
    <3>5. size' = (count + 1) % 256
      <4> HIDE DEF count
      <4> QED BY <2>1, <3>2, <3>3
    <3>6. /\ data' \in Seq(Nat) /\ Len(data') \in 0..255 /\ elements' = Len(data')
          /\ \A i \in 1..Len(data') : data'[i] = i
          /\ Len(data') = IF count + 1 <= 255 THEN count + 1 ELSE 255
      <4>1. CASE elements <= 254
        <5>1. elements' = (elements + 1) % 256 /\ data' = Append(data, len + 1)
          BY <2>1, <4>1 DEF Add, Uint8
        <5>2. len + 1 \in Nat
          <6>1. len \in 0..255
            BY <3>3
          <6> HIDE DEF len
          <6> QED BY <6>1
        <5>3. /\ data' \in Seq(Nat) /\ Len(data') = len + 1
              /\ \A i \in 1..len : data'[i] = data[i]
              /\ data'[len + 1] = len + 1
          BY <3>1, <5>1, <5>2, AppendProperties
        <5> HIDE DEF len, count
        <5>4. len + 1 \in 0..255 /\ elements' = len + 1
              /\ len + 1 = IF count + 1 <= 255 THEN count + 1 ELSE 255
          BY <3>2, <3>3, <4>1, <5>1
        <5>5. \A i \in 1..(len + 1) : data'[i] = i
          <6>1. ASSUME NEW i \in 1..(len + 1)
                PROVE  data'[i] = i
            <7>1. CASE i \in 1..len
              BY <3>1, <5>3, <7>1
            <7>2. CASE i = len + 1
              BY <5>3, <7>2
            <7> QED BY <3>3, <7>1, <7>2
          <6> QED BY <6>1
        <5> QED BY <5>3, <5>4, <5>5
      <4>2. CASE ~(elements <= 254)
        <5>1. elements' = elements /\ data' = data
          BY <2>1, <4>2 DEF Add
        <5> HIDE DEF len, count
        <5>2. len = IF count + 1 <= 255 THEN count + 1 ELSE 255
          BY <3>2, <3>3, <4>2
        <5>3. Len(data') = len
          BY <5>1 DEF len
        <5>4. /\ data' \in Seq(Nat) /\ \A i \in 1..len : data'[i] = i
              /\ len \in 0..255 /\ elements' = len
          BY <3>1, <3>3, <5>1
        <5> QED BY <5>2, <5>3, <5>4
      <4> QED BY <4>1, <4>2
    <3> HIDE DEF len, count
    <3>7. Numbered'
      BY <3>1, <3>4, <3>6 DEF Numbered
    <3>8. Counted'
      BY <3>4, <3>5, <3>6 DEF Counted
    <3> QED BY <3>7, <3>8
  <2>5. Hashed'
    BY <1>1, <2>3 DEF Hashed
  <2>6. Proved'
    BY <1>1, <2>3 DEF Proved
  <2>7. Rebuilt'
    BY <1>1, <2>1, <2>3 DEF Rebuilt
  <2> QED BY <2>4, <2>5, <2>6, <2>7 DEF GroupInv
<1>3. CASE ~RoomForKeys(NextTransaction)
  <2>1. panicked' = TRUE
        /\ UNCHANGED <<elements, data, levelHash, finalized, asked, proof, size, transactionBlocks>>
        /\ UNCHANGED <<pool, received>>
    BY <1>3 DEF AddTransaction
  <2> QED BY <1>1, <2>1, SameNumbered, SameCounted, SameHashed, SameProved, SameRebuilt DEF GroupInv
<1> QED BY <1>2, <1>3

LEMMA FinalizeKeeps ==
  ASSUME GroupInv, Finalize
  PROVE  GroupInv'
<1>1. Numbered /\ Counted /\ Hashed /\ Proved /\ Rebuilt
  BY DEF GroupInv
<1>2. /\ ~finalized /\ UNCHANGED <<elements, data, asked, proof>>
      /\ UNCHANGED <<pool, size, transactionBlocks, received>>
  BY DEF Finalize, FinalizeTree
<1>3. Numbered' /\ Counted'
  BY <1>1, <1>2, SameNumbered, SameCounted
<1>4. Hashed'
  <2>1. CASE elements = 0
    <3>1. panicked' = TRUE /\ UNCHANGED <<levelHash, finalized>>
      BY <2>1 DEF Finalize, FinalizeTree
    <3> QED BY <1>1, <1>2, <3>1, SameHashed
  <2>2. CASE elements # 0
    <3>1. levelHash' = LevelHash(data) /\ finalized' = TRUE /\ panicked' = panicked
      BY <2>2 DEF Finalize, FinalizeTree
    <3>2. Len(data) >= 1
      <4> DEFINE len == Len(data)
      <4>1. elements = len /\ len \in 0..255
        BY <1>1 DEF Counted
      <4> HIDE DEF len
      <4>2. len >= 1
        BY <2>2, <4>1
      <4> QED BY <4>2 DEF len
    <3>3. panicked' \in BOOLEAN /\ Len(data') >= 1 /\ levelHash' = LevelHash(data')
      <4>1. panicked \in BOOLEAN
        BY <1>1 DEF Hashed
      <4>2. data' = data
        BY <1>2
      <4> QED BY <3>1, <3>2, <4>1, <4>2
    <3> QED BY <3>1, <3>3 DEF Hashed
  <2> QED BY <2>1, <2>2
<1>5. Proved'
  BY <1>1, <1>2 DEF Proved
<1>6. Rebuilt'
  BY <1>1, <1>2 DEF Rebuilt
<1> QED BY <1>3, <1>4, <1>5, <1>6 DEF GroupInv

LEMMA ReceiveKeeps ==
  ASSUME GroupInv, Receive
  PROVE  GroupInv'
<1>1. Numbered /\ Counted /\ Hashed /\ Proved /\ Rebuilt
  BY DEF GroupInv
<1>2. UNCHANGED <<elements, data, levelHash, finalized, asked, proof, panicked>>
      /\ UNCHANGED <<pool, size, transactionBlocks>>
  BY DEF Receive, treeVars
<1>3. Numbered' /\ Counted' /\ Hashed' /\ Proved'
  BY <1>1, <1>2, SameNumbered, SameCounted, SameHashed, SameProved DEF Hashed
<1>4. Rebuilt'
  <2>1. Wire' = Wire
    BY <1>2 DEF Wire
  <2>2. /\ finalized'
        /\ received' = [transactionBlocks |-> Deserialize(Wire),
                        root |-> IF Deserialize(Wire) = <<>> THEN Panicked
                                 ELSE LevelHash(PeerData(Wire))[0][0]]
    BY <1>2 DEF Receive
  <2> QED BY <2>1, <2>2 DEF Rebuilt
<1> QED BY <1>3, <1>4 DEF GroupInv

LEMMA ProofKeeps ==
  ASSUME GroupInv, Proof
  PROVE  GroupInv'
<1>1. Numbered /\ Counted /\ Hashed /\ Proved /\ Rebuilt
  BY DEF GroupInv
<1>2. PICK n \in 0..255 : GenerareteMerkleProof(n)
  BY DEF Proof
<1>3. UNCHANGED <<pool, size, transactionBlocks, received, elements, data, levelHash, finalized, panicked>>
  BY <1>2 DEF Proof, GenerareteMerkleProof
<1>4. Numbered' /\ Counted' /\ Hashed' /\ Rebuilt'
  BY <1>1, <1>3, SameNumbered, SameCounted, SameHashed, SameRebuilt DEF Hashed
<1>5. Proved'
  <2>1. finalized /\ asked' = n /\ elements = Len(data) /\ Len(data) \in 0..255
    BY <1>1, <1>2 DEF GenerareteMerkleProof, Counted
  <2>2. CASE elements = 1
    <3>1. proof' = [NoProof EXCEPT !.data = data[1]]
      BY <1>2, <2>2 DEF GenerareteMerkleProof
    <3> QED BY <1>3, <2>1, <2>2, <3>1 DEF Proved
  <2>3. CASE elements # 1 /\ n >= elements
    <3>1. proof' = NoProof
      BY <1>2, <2>3 DEF GenerareteMerkleProof
    <3> QED BY <2>1, <3>1 DEF Proved
  <2>4. CASE elements # 1 /\ ~(n >= elements)
    <3>1. proof' = [applicationOrder |-> ApplicationOrder(n), proofSize |-> ProofSize(n),
                    proofArray |-> ProofArray(ApplicationOrder(n), ProofSize(n)),
                    data |-> data[n + 1]]
      BY <1>2, <2>4 DEF GenerareteMerkleProof
    <3>2. ProofSize(n) = LevelAt(Len(data), n) /\ ApplicationOrder(n) = IndexAt(Len(data), n)
      BY <2>1 DEF ProofSize, ApplicationOrder, LevelAt, IndexAt
    <3>3. levelHash = LevelHash(data)
      BY <1>1, <2>1 DEF Hashed
    <3>4. ProofArray(IndexAt(Len(data), n), LevelAt(Len(data), n)) = PathIn(data, IndexAt(Len(data), n), LevelAt(Len(data), n))
      BY <3>3 DEF ProofArray, PathIn
    <3>5. proof' = [applicationOrder |-> IndexAt(Len(data), n), proofSize |-> LevelAt(Len(data), n),
                    proofArray |-> PathIn(data, IndexAt(Len(data), n), LevelAt(Len(data), n)),
                    data |-> data[n + 1]]
      BY <3>1, <3>2, <3>4
    <3>6. Len(data) # 1 /\ n < Len(data)
      <4> DEFINE len == Len(data)
      <4>1. elements = len /\ elements \in 0..255 /\ n \in 0..255
        BY <2>1
      <4> HIDE DEF len
      <4>2. len # 1 /\ n < len
        BY <2>4, <4>1
      <4> QED BY <4>2 DEF len
    <3>7. asked' = n /\ finalized' /\ data' = data
      BY <1>3, <2>1
    <3> QED BY <3>5, <3>6, <3>7 DEF Proved
  <2> QED BY <2>2, <2>3, <2>4
<1> QED BY <1>4, <1>5 DEF GroupInv

THEOREM GroupInvariant == Spec => []GroupInv
<1>1. ASSUME GroupInv, [Next]_vars
      PROVE  GroupInv'
  <2>1. CASE Next
    BY <1>1, <2>1, AddTransactionKeeps, FinalizeKeeps, ReceiveKeeps, ProofKeeps DEF Next
  <2>2. CASE UNCHANGED vars
    <3>1. UNCHANGED <<elements, data, levelHash, finalized, asked, proof, panicked>>
          /\ UNCHANGED <<pool, size, transactionBlocks, received>>
      BY <2>2 DEF vars, treeVars
    <3>2. Numbered /\ Counted /\ Hashed /\ Proved /\ Rebuilt /\ panicked' \in BOOLEAN
      BY <1>1, <3>1 DEF GroupInv, Hashed
    <3> QED BY <3>1, <3>2, SameNumbered, SameCounted, SameHashed, SameProved, SameRebuilt DEF GroupInv
  <2> QED BY <1>1, <2>1, <2>2
<1> QED BY <1>1, GroupInvInit, PTL DEF Spec

-----------------------------------------------------------------------------
(* What follows from it: the proofs that are taken of a finalized tree.    *)

LEMMA FinalizedTree ==
  ASSUME GroupInv, finalized
  PROVE  /\ IsCount(Len(data)) /\ IsData(data, Len(data)) /\ elements = Len(data)
         /\ levelHash = LevelHash(data) /\ MerkleRoot = LevelHash(data)[0][0]
<1>1. IsData(data, Len(data))
  BY DEF GroupInv, Numbered, IsData
<1>2. Len(data) \in 0..255 /\ elements = Len(data) /\ Len(data) >= 1 /\ levelHash = LevelHash(data)
  BY DEF GroupInv, Counted, Hashed
<1>3. Len(data) \in 1..255
  <2> DEFINE len == Len(data)
  <2>1. len \in 0..255 /\ len >= 1
    BY <1>2
  <2> HIDE DEF len
  <2>2. len \in 1..255
    BY <2>1
  <2> QED BY <2>2 DEF len
<1> QED BY <1>1, <1>2, <1>3 DEF IsCount, MerkleRoot

(* A proof is a record of its fields.                                      *)
LEMMA ProofFields ==
  ASSUME NEW ps, NEW order, NEW s, NEW array, NEW a,
         ps = [applicationOrder |-> order, proofSize |-> s, proofArray |-> array, data |-> a]
  PROVE  /\ ps.applicationOrder = order /\ ps.proofSize = s /\ ps.proofArray = array /\ ps.data = a
         /\ ps = [applicationOrder |-> ps.applicationOrder, proofSize |-> ps.proofSize,
                  proofArray |-> ps.proofArray, data |-> ps.data]
OBVIOUS

(* The path of a proof has a hash for every level.                         *)
LEMMA PathLength ==
  ASSUME NEW d, NEW j, NEW i \in 0..8
  PROVE  Len(PathIn(d, j, i)) = i
BY DEF PathIn

(* The answer for an element is a proof of it, or the element itself.      *)
LEMMA AnswerIsProof ==
  ASSUME GroupInv, Answered
  PROVE  /\ IsProofIn(data, Len(data), proof) /\ proof.data = data[asked + 1]
         /\ proof = [applicationOrder |-> proof.applicationOrder, proofSize |-> proof.proofSize,
                     proofArray |-> proof.proofArray, data |-> proof.data]
<1> DEFINE n == Len(data)
           j == IndexAt(n, asked)
           i == LevelAt(n, asked)
           IsAnswer == /\ IsProofIn(data, n, proof) /\ proof.data = data[asked + 1]
                       /\ proof = [applicationOrder |-> proof.applicationOrder,
                                  proofSize |-> proof.proofSize,
                                  proofArray |-> proof.proofArray, data |-> proof.data]
<1>1. finalized /\ proof # NoProof /\ asked < elements
  BY DEF Answered
<1>2. IsCount(n) /\ IsData(data, n) /\ elements = n
  BY <1>1, FinalizedTree
<1>3. asked \in 0..(n - 1)
  <2>1. asked \in 0..255
    BY DEF GroupInv, Proved
  <2> HIDE DEF n
  <2> QED BY <1>1, <1>2, <2>1 DEF IsCount
<1>4. \/ n = 1 /\ proof = [NoProof EXCEPT !.data = data[1]]
      \/ n # 1 /\ proof = [applicationOrder |-> j, proofSize |-> i, proofArray |-> PathIn(data, j, i),
                          data |-> data[asked + 1]]
  BY <1>1 DEF GroupInv, Proved
<1> HIDE DEF n
<1>5. Outer(n, i, j) /\ ElementAt(n, i, j) = asked + 1
  BY <1>2, <1>3, ElementsHeld
<1>6. ASSUME n = 1 PROVE IsAnswer
  <2>1. asked = 0 /\ asked + 1 = 1
    BY <1>3, <1>6
  <2>2. i = 0 /\ j = 0
    <3>1. LowerLevel(n) = 0 /\ BitsOnHighLevel(n) = 0
      <4>1. LowerLevel(n) \in 0..7 /\ 2^LowerLevel(n) <= n
        BY <1>2, LowerLevelOk
      <4>2. 2^LowerLevel(n) <= 1
        BY <1>6, <4>1
      <4> DEFINE low == LowerLevel(n)
      <4> HIDE DEF low
      <4>3. low = 0
        <5>1. low \in 0..7 /\ 2^low <= 1
          BY <4>1, <4>2 DEF low
        <5> QED BY <5>1, TwoOrMore
      <4>4. BitsOnHighLevel(n) = 2 * Joined(n) /\ n = 2^LowerLevel(n) + Joined(n) /\ Joined(n) \in 0..127
        BY <1>2, BitsOk
      <4>5. 2^low = 1
        BY <4>3, NoPower
      <4>6. Joined(n) = 0
        BY <1>6, <4>4, <4>5 DEF low
      <4> QED BY <4>3, <4>4, <4>6 DEF low
    <3>2. ~(asked < BitsOnHighLevel(n)) /\ BitsOnHighLevel(n) \div 2 = 0
      BY <2>1, <3>1
    <3> QED BY <2>1, <3>1, <3>2 DEF LevelAt, IndexAt
  <2>3. proof = [applicationOrder |-> 0, proofSize |-> 0, proofArray |-> <<>>, data |-> data[1]]
    BY <1>4, <1>6 DEF NoProof
  <2>4. PathIn(data, 0, 0) = <<>>
    BY DEF PathIn
  <2>5. Outer(n, 0, 0) /\ ElementAt(n, 0, 0) = 1
    BY <1>5, <2>1, <2>2
  <2> HIDE DEF i, j
  <2>6. /\ proof.applicationOrder = 0 /\ proof.proofSize = 0 /\ proof.proofArray = <<>>
        /\ proof.data = data[1]
    BY <2>3, ProofFields
  <2>7. IsProofIn(data, n, proof)
    BY <2>4, <2>5, <2>6 DEF IsProofIn
  <2>8. proof.data = data[asked + 1]
    BY <2>1, <2>6
  <2>9. proof = [applicationOrder |-> proof.applicationOrder, proofSize |-> proof.proofSize,
                 proofArray |-> proof.proofArray, data |-> proof.data]
    BY <2>3, ProofFields
  <2> QED BY <2>7, <2>8, <2>9
<1>7. ASSUME n # 1 PROVE IsAnswer
  <2>1. proof = [applicationOrder |-> j, proofSize |-> i, proofArray |-> PathIn(data, j, i),
                 data |-> data[asked + 1]]
    BY <1>4, <1>7
  <2> HIDE DEF i, j
  <2>2. /\ proof.applicationOrder = j /\ proof.proofSize = i /\ proof.proofArray = PathIn(data, j, i)
        /\ proof.data = data[asked + 1]
    BY <2>1, ProofFields
  <2>3. IsProofIn(data, n, proof)
    BY <1>5, <2>2 DEF IsProofIn
  <2>4. proof = [applicationOrder |-> proof.applicationOrder, proofSize |-> proof.proofSize,
                 proofArray |-> proof.proofArray, data |-> proof.data]
    BY <2>1, ProofFields
  <2> QED BY <2>2, <2>3, <2>4
<1>8. IsAnswer
  BY <1>6, <1>7
<1> QED BY <1>8 DEF n

(* The variables keep to the values the fields of the code can hold, the   *)
(* byte that counts the elements never wraps, and a proof has the shape of *)
(* its tree: never more than eight hashes, for an index that is a byte.    *)
THEOREM GroupTyped == Spec => []TypeOK
<1>1. ASSUME GroupInv
      PROVE  TypeOK
  <2>1. /\ elements \in 0..255 /\ data \in Seq(Nat) /\ elements = Len(data)
        /\ finalized \in BOOLEAN /\ panicked \in BOOLEAN /\ asked \in 0..255
    BY <1>1 DEF GroupInv, Numbered, Counted, Hashed, Proved
  <2> DEFINE n == Len(data)
             j == IndexAt(n, asked)
             i == LevelAt(n, asked)
  <2>2. \/ proof = NoProof
        \/ proof = [NoProof EXCEPT !.data = data[1]]
        \/ finalized /\ asked < n /\ proof = [applicationOrder |-> j, proofSize |-> i,
                                             proofArray |-> PathIn(data, j, i),
                                             data |-> data[asked + 1]]
    BY <1>1 DEF GroupInv, Proved
  <2> DEFINE Shape == /\ proof.applicationOrder \in 0..255 /\ proof.proofSize \in 0..8
                      /\ Len(proof.proofArray) = proof.proofSize
  <2>3. ASSUME proof = NoProof PROVE Shape
    BY <2>3 DEF NoProof
  <2>4. ASSUME proof = [NoProof EXCEPT !.data = data[1]] PROVE Shape
    <3>1. proof.applicationOrder = 0 /\ proof.proofSize = 0 /\ proof.proofArray = <<>>
      BY <2>4 DEF NoProof
    <3> QED BY <3>1
  <2>5. ASSUME finalized, asked < n,
               proof = [applicationOrder |-> j, proofSize |-> i, proofArray |-> PathIn(data, j, i),
                        data |-> data[asked + 1]]
        PROVE  Shape
    <3>1. IsCount(n)
      BY <1>1, <2>5, FinalizedTree
    <3>2. asked \in 0..(n - 1)
      <4>1. asked \in 0..255 /\ asked < n
        BY <2>1, <2>5
      <4> HIDE DEF n
      <4>2. n \in 1..255
        BY <3>1 DEF IsCount
      <4> QED BY <4>1, <4>2
    <3> HIDE DEF n
    <3>3. Outer(n, i, j)
      BY <3>1, <3>2, ElementsHeld
    <3>4. i \in 0..8 /\ j \in 0..255
      BY <3>1, <3>3, OuterWithin
    <3> HIDE DEF i, j
    <3>5. Len(PathIn(data, j, i)) = i
      BY <3>4, PathLength
    <3>6. proof.applicationOrder = j /\ proof.proofSize = i /\ proof.proofArray = PathIn(data, j, i)
      BY <2>5, ProofFields
    <3> QED BY <3>4, <3>5, <3>6
  <2>6. Shape
    <3> HIDE DEF n, i, j, Shape
    <3> QED BY <2>2, <2>3, <2>4, <2>5 DEF Shape
  <2> QED BY <2>1, <2>6 DEF TypeOK
<1> QED BY <1>1, GroupInvariant, PTL

(* Every proof that is handed out for an element is accepted against the   *)
(* root, whatever the number of elements.                                  *)
THEOREM ProofsAccepted == Spec => []ProofsVerify
<1>1. ASSUME GroupInv, Answered
      PROVE  proof.data = data[asked + 1] /\ VerifyProofStruct(proof, MerkleRoot)
  <2>1. finalized
    BY <1>1 DEF Answered
  <2>2. IsCount(Len(data)) /\ IsData(data, Len(data)) /\ MerkleRoot = LevelHash(data)[0][0]
    BY <1>1, <2>1, FinalizedTree
  <2>3. IsProofIn(data, Len(data), proof) /\ proof.data = data[asked + 1]
    BY <1>1, AnswerIsProof
  <2>4. VerifyProofStruct(proof, LevelHash(data)[0][0])
    BY <2>2, <2>3, ProofAccepted
  <2> QED BY <2>2, <2>3, <2>4
<1>2. GroupInv => ProofsVerify
  BY <1>1 DEF ProofsVerify
<1> QED BY <1>2, GroupInvariant, PTL

(* And for no other data: with that of another transaction it is rejected. *)
THEOREM ProofsHold == Spec => []ProofsBind
<1>1. ASSUME GroupInv, Answered, NEW a, a # proof.data
      PROVE  ~VerifyProofStruct([proof EXCEPT !.data = a], MerkleRoot)
  <2>1. finalized
    BY <1>1 DEF Answered
  <2>2. IsCount(Len(data)) /\ IsData(data, Len(data)) /\ MerkleRoot = LevelHash(data)[0][0]
    BY <1>1, <2>1, FinalizedTree
  <2>3. /\ IsProofIn(data, Len(data), proof)
        /\ proof = [applicationOrder |-> proof.applicationOrder, proofSize |-> proof.proofSize,
                    proofArray |-> proof.proofArray, data |-> proof.data]
    BY <1>1, AnswerIsProof
  <2>4. VerifyProofStruct(proof, MerkleRoot)
    BY <2>2, <2>3, ProofAccepted
  <2>5. proof.proofSize \in 0..8
    <3>1. Outer(Len(data), proof.proofSize, proof.applicationOrder)
      BY <2>3 DEF IsProofIn
    <3> QED BY <2>2, <3>1, OuterWithin
  <2> DEFINE other == [proof EXCEPT !.data = a]
  <2>6. /\ other.applicationOrder = proof.applicationOrder /\ other.proofSize = proof.proofSize
        /\ other.proofArray = proof.proofArray /\ other.data = a
    BY <2>3
  <2> HIDE DEF other
  <2>7. ~VerifyProofStruct(other, MerkleRoot)
    BY <1>1, <2>4, <2>5, <2>6, ProofBinds
  <2> QED BY <2>7 DEF other
<1>2. GroupInv => ProofsBind
  BY <1>1 DEF ProofsBind
<1> QED BY <1>2, GroupInvariant, PTL

(* The root stands for every element, at its place, and for nothing else.  *)
THEOREM RootCommits == Spec => []RootCommitsToAll
<1>1. ASSUME GroupInv, finalized
      PROVE  Leaves(MerkleRoot) = {[level |-> ProofSize(k), index |-> ApplicationOrder(k),
                                    hash |-> Leaf(data[k + 1])] : k \in 0..(elements - 1)}
  <2> DEFINE n == Len(data)
             Place(k) == NodeAt(data, LevelAt(n, k), IndexAt(n, k))
  <2>1. IsCount(n) /\ IsData(data, n) /\ elements = n /\ MerkleRoot = LevelHash(data)[0][0]
    BY <1>1, FinalizedTree
  <2> HIDE DEF n
  <2>2. ASSUME NEW k \in 0..(n - 1)
        PROVE  [level |-> ProofSize(k), index |-> ApplicationOrder(k), hash |-> Leaf(data[k + 1])]
                 = Place(k)
    <3>1. ProofSize(k) = LevelAt(n, k) /\ ApplicationOrder(k) = IndexAt(n, k)
      BY <2>1 DEF ProofSize, ApplicationOrder, LevelAt, IndexAt
    <3> DEFINE i == LevelAt(n, k)
               j == IndexAt(n, k)
    <3>2. Outer(n, i, j) /\ ElementAt(n, i, j) = k + 1
      BY <2>1, ElementsHeld
    <3> HIDE DEF i, j
    <3>3. LevelHash(data)[i][j] = Leaf(data[k + 1])
      BY <2>1, <3>2, OuterHolds
    <3>4. NodeAt(data, i, j) = [level |-> i, index |-> j, hash |-> Leaf(data[k + 1])]
      BY <3>3 DEF NodeAt
    <3> QED BY <3>1, <3>4 DEF i, j
  <2>3. ASSUME NEW k \in 0..(n - 1)
        PROVE  Place(k) \in Leaves(MerkleRoot)
    <3>1. Outer(n, LevelAt(n, k), IndexAt(n, k))
      BY <2>1, ElementsHeld
    <3> QED BY <2>1, <3>1, LeavesOfRoot
  <2>4. ASSUME NEW x \in Leaves(MerkleRoot)
        PROVE  \E k \in 0..(n - 1) : x = Place(k)
    <3>1. PICK i, j : Outer(n, i, j) /\ x = NodeAt(data, i, j)
      BY <2>1, LeavesOfRoot
    <3>2. PICK k \in 0..(n - 1) : LevelAt(n, k) = i /\ IndexAt(n, k) = j
      BY <2>1, <3>1, PlacesTaken
    <3> QED BY <3>1, <3>2
  <2> HIDE DEF Place
  <2> QED BY <2>1, <2>2, <2>3, <2>4
<1>2. GroupInv => RootCommitsToAll
  BY <1>1 DEF RootCommitsToAll
<1> QED BY <1>2, GroupInvariant, PTL
-----------------------------------------------------------------------------
(* What follows from it: what a peer makes of the group.                   *)

(* On the wire every transaction is what it was: its inputs fit a byte.    *)
LEMMA WireIsExact ==
  ASSUME GroupInv
  PROVE  Wire.size = size /\ Wire.transactionBlocks = transactionBlocks
<1> DEFINE Sent == [number : Nat, inputs : 0..255]
<1>1. transactionBlocks \in Seq(Sent)
  BY DEF GroupInv, Numbered
<1>2. ASSUME NEW tx \in Sent
      PROVE  Serialize(tx) = tx
  <2>1. tx.inputs % 256 = tx.inputs
    BY <1>2
  <2> QED BY <1>2, <2>1 DEF Serialize, Transaction, Uint8
<1> HIDE DEF Sent
<1>3. \A i \in DOMAIN transactionBlocks : Serialize(transactionBlocks[i]) = transactionBlocks[i]
  BY <1>1, <1>2
<1>4. transactionBlocks = [i \in DOMAIN transactionBlocks |-> transactionBlocks[i]]
  BY <1>1
<1>5. [i \in DOMAIN transactionBlocks |-> Serialize(transactionBlocks[i])] = transactionBlocks
  BY <1>3, <1>4
<1> QED BY <1>5 DEF Wire

(* A peer reads as many of them as the byte says.                          *)
LEMMA PeerReads ==
  ASSUME GroupInv
  PROVE  /\ Deserialize(Wire) \in Seq([number : Nat, inputs : 0..255]) /\ size \in 0..255
         /\ Len(Deserialize(Wire)) = size
         /\ \A i \in 1..size : /\ Deserialize(Wire)[i] = transactionBlocks[i]
                               /\ Deserialize(Wire)[i].number = i
<1> DEFINE t == Len(transactionBlocks)
           Sent == [number : Nat, inputs : 0..255]
<1>1. /\ transactionBlocks \in Seq(Sent) /\ size = t % 256
      /\ \A i \in 1..t : transactionBlocks[i].number = i
  BY DEF GroupInv, Numbered, Counted
<1>2. t \in Nat
  <2>1. transactionBlocks \in Seq(Sent)
    BY <1>1
  <2> HIDE DEF Sent
  <2> QED BY <2>1, LenProperties
<1>3. Deserialize(Wire) = SubSeq(transactionBlocks, 1, size)
  BY WireIsExact DEF Deserialize
<1> HIDE DEF t, Sent
<1>4. size \in 0..255 /\ size <= t
  BY <1>1, <1>2
<1>5. \A i \in 1..size : i \in 1..t /\ transactionBlocks[i] \in Sent
  <2>1. \A i \in 1..t : transactionBlocks[i] \in Sent
    BY <1>1 DEF t
  <2> QED BY <1>2, <1>4, <2>1
<1>6. /\ SubSeq(transactionBlocks, 1, size) \in Seq(Sent)
      /\ Len(SubSeq(transactionBlocks, 1, size)) = (IF 1 <= size THEN size - 1 + 1 ELSE 0)
      /\ \A i \in 1..(size - 1 + 1) :
           SubSeq(transactionBlocks, 1, size)[i] = transactionBlocks[1 + i - 1]
  <2>1. 1 \in Int /\ size \in Int
    BY <1>4
  <2> QED BY <1>5, <2>1, SubSeqProperties
<1>7. Len(SubSeq(transactionBlocks, 1, size)) = size
  BY <1>4, <1>6
<1>8. ASSUME NEW i \in 1..size
      PROVE  SubSeq(transactionBlocks, 1, size)[i] = transactionBlocks[i]
  <2>1. 1 + i - 1 = i /\ i \in 1..(size - 1 + 1)
    BY <1>4
  <2> QED BY <1>6, <2>1
<1> QED BY <1>1, <1>3, <1>4, <1>5, <1>6, <1>7, <1>8 DEF Sent

(* The elements of the peer's tree are numbered like those of the group's. *)
LEMMA PeerDataIs ==
  ASSUME GroupInv
  PROVE  /\ IsData(PeerData(Wire), size)
         /\ \A i \in 1..size : PeerData(Wire)[i] = i
<1> DEFINE r == Deserialize(Wire)
<1>1. /\ r \in Seq([number : Nat, inputs : 0..255]) /\ size \in 0..255 /\ Len(r) = size
      /\ \A i \in 1..size : r[i].number = i
  BY PeerReads
<1>2. PeerData(Wire) = [i \in DOMAIN r |-> r[i].number]
  BY DEF PeerData
<1> HIDE DEF r
<1>3. DOMAIN r = 1..size
  BY <1>1
<1>4. PeerData(Wire) = [i \in 1..size |-> i]
  BY <1>1, <1>2, <1>3
<1>5. [i \in 1..size |-> i] \in [1..size -> Nat]
  BY <1>1
<1>6. [i \in 1..size |-> i] \in Seq(Nat) /\ Len([i \in 1..size |-> i]) = size
  BY <1>1, <1>5, SeqDef
<1> QED BY <1>4, <1>6 DEF IsData

(* A tree of one element or more has a root.                               *)
LEMMA RootIsAHash ==
  ASSUME NEW n, IsCount(n), NEW d, IsData(d, n)
  PROVE  LevelHash(d)[0][0] # Panicked
<1>1. CASE Inner(n, 0, 0)
  <2>1. LevelHash(d)[0][0] = Join(LevelHash(d)[0 + 1][2 * 0], LevelHash(d)[0 + 1][2 * 0 + 1])
    BY <1>1, InnerJoins
  <2>2. ASSUME NEW l, NEW r PROVE Join(l, r) # Panicked
    <3>1. "left" \in DOMAIN Join(l, r) /\ "left" \notin DOMAIN Panicked
      BY DEF Join, Panicked
    <3> QED BY <3>1
  <2> QED BY <2>1, <2>2
<1>2. CASE Outer(n, 0, 0)
  <2>1. LevelHash(d)[0][0] = Leaf(d[ElementAt(n, 0, 0)])
    BY <1>2, OuterHolds
  <2>2. ASSUME NEW a PROVE Leaf(a) # Panicked
    <3>1. "data" \in DOMAIN Leaf(a) /\ "data" \notin DOMAIN Panicked
      BY DEF Leaf, Panicked
    <3> QED BY <3>1
  <2> QED BY <2>1, <2>2
<1> QED BY <1>1, <1>2, RootIsNode

(* A peer arrives at the root of the header exactly if its byte says how   *)
(* many elements the tree has.                                             *)
LEMMA RootAgrees ==
  ASSUME GroupInv, received # NoGroup
  PROVE  received.root = MerkleRoot <=> size = elements
<1> DEFINE n == Len(data)
           peer == PeerData(Wire)
           root == IF Deserialize(Wire) = <<>> THEN Panicked ELSE LevelHash(peer)[0][0]
<1>1. finalized /\ received.root = root
  BY DEF GroupInv, Rebuilt
<1>2. IsCount(n) /\ IsData(data, n) /\ elements = n /\ MerkleRoot = LevelHash(data)[0][0]
  BY <1>1, FinalizedTree
<1>3. size \in 0..255 /\ \A i \in 1..n : data[i] = i
  BY PeerReads DEF GroupInv, Numbered
<1>4. IsData(peer, size) /\ \A i \in 1..size : peer[i] = i
  BY PeerDataIs
<1>5. Deserialize(Wire) = <<>> <=> size = 0
  BY PeerReads, EmptySeq
<1> HIDE DEF n, peer
<1>6. CASE size = 0
  <2>1. n # size
    BY <1>2, <1>6 DEF IsCount
  <2>2. root # LevelHash(data)[0][0]
    BY <1>2, <1>5, <1>6, RootIsAHash
  <2> HIDE DEF root
  <2> QED BY <1>1, <1>2, <2>1, <2>2
<1>7. CASE size # 0
  <2>1. IsCount(size) /\ root = LevelHash(peer)[0][0]
    <3>1. size \in 1..255
      BY <1>3, <1>7
    <3> QED BY <1>5, <1>7, <3>1 DEF IsCount
  <2> HIDE DEF root
  <2>2. ASSUME n = size
        PROVE  root = LevelHash(data)[0][0]
    <3>1. peer \in Seq(Nat) /\ data \in Seq(Nat) /\ Len(peer) = size /\ Len(data) = size
      BY <1>2, <1>4, <2>2 DEF IsData
    <3>2. \A i \in 1..size : peer[i] = data[i]
      BY <1>3, <1>4, <2>2
    <3>3. peer = data
      BY <3>1, <3>2, SeqEqual
    <3> QED BY <2>1, <3>3
  <2>3. ASSUME root = LevelHash(data)[0][0]
        PROVE  n = size
    <3>1. SameRoot(data, n, peer, size)
      BY <1>2, <1>4, <2>1, <2>3 DEF SameRoot
    <3> QED BY <1>2, <2>1, <3>1, SharedShape
  <2> QED BY <1>1, <1>2, <2>2, <2>3
<1> QED BY <1>6, <1>7

(* It does so for groups of up to 255 transactions, and for those whose    *)
(* number has come round to 255 in its byte again: the root of a group of  *)
(* 511 transactions is that of the 255 which a peer reads.                 *)
THEOREM PeersAgree == Spec => []PeersRebuildTheRoot
<1>1. ASSUME GroupInv, received # NoGroup
      PROVE  received.root = MerkleRoot <=>
               (Len(transactionBlocks) <= 255 \/ Len(transactionBlocks) % 256 = 255)
  <2> DEFINE t == Len(transactionBlocks)
             Sent == [number : Nat, inputs : 0..255]
  <2>1. /\ transactionBlocks \in Seq(Sent)
        /\ size = t % 256 /\ elements = (IF t <= 255 THEN t ELSE 255)
    <3>1. transactionBlocks \in Seq(Sent)
      BY <1>1 DEF GroupInv, Numbered
    <3>2. size = t % 256 /\ elements = Len(data) /\ Len(data) = IF t <= 255 THEN t ELSE 255
      BY <1>1 DEF GroupInv, Counted
    <3> HIDE DEF t, Sent
    <3> QED BY <3>1, <3>2
  <2> HIDE DEF Sent
  <2>2. t \in Nat
    BY <2>1, LenProperties
  <2> HIDE DEF t
  <2>3. size = elements <=> (t <= 255 \/ t % 256 = 255)
    BY <2>1, <2>2
  <2> QED BY <1>1, <2>3, RootAgrees DEF t
<1>2. GroupInv => PeersRebuildTheRoot
  BY <1>1 DEF PeersRebuildTheRoot
<1> QED BY <1>2, GroupInvariant, PTL

(* What a peer reads under the root of the header are the transactions     *)
(* that the root commits to, with all their inputs.                        *)
THEOREM PeersRead == Spec => []PeersSeeTheSame
<1>1. ASSUME GroupInv, received # NoGroup, received.root = MerkleRoot
      PROVE  received.transactionBlocks = SubSeq(transactionBlocks, 1, elements)
  <2>1. received.transactionBlocks = Deserialize(Wire)
    BY <1>1 DEF GroupInv, Rebuilt
  <2>2. Deserialize(Wire) = SubSeq(transactionBlocks, 1, size)
    BY <1>1, WireIsExact DEF Deserialize
  <2> QED BY <1>1, <2>1, <2>2, RootAgrees
<1>2. GroupInv => PeersSeeTheSame
  BY <1>1 DEF PeersSeeTheSame
<1> QED BY <1>2, GroupInvariant, PTL
=============================================================================
