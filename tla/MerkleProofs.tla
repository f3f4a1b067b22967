---------------------------- MODULE MerkleProofs ----------------------------
(***************************************************************************)
(* What the note tree guarantees for trees of any height and logs of any   *)
(* length: the roots of the contract are the Merkle roots of the prefixes  *)
(* of the log, the copy of a wallet opens its notes against them, and the  *)
(* storage is an append-only log.                                          *)
(*                                                                         *)
(* First that the recursive functions exist, then what they compute, by    *)
(* induction on the levels; then the invariants of the contract and of the *)
(* copy.                                                                   *)
(***************************************************************************)
EXTENDS MerkleTree, Integers, FiniteSetTheorems, WellFoundedInduction, TLAPS

-----------------------------------------------------------------------------
(* Induction and arithmetic *)

\* A set with 0 and with every successor up to m has all numbers up to m.  The
\* set takes the place of the operator of the library's induction theorems.
LEMMA UptoInduction ==
  ASSUME NEW m \in Nat, NEW N, 0 \in N, \A i \in 0 .. m - 1 : i \in N => i + 1 \in N
  PROVE  \A i \in 0 .. m : i \in N
<1> DEFINE S == 1 .. m
           Bad == {X \in SUBSET S : Cardinality(X) \notin N}
<1>1. SUFFICES ASSUME NEW n \in 0 .. m, n \notin N PROVE FALSE
  OBVIOUS
<1>2. IsFiniteSet(S) /\ Cardinality(S) = m /\ Cardinality(1 .. n) = n
  BY FS_Interval
<1>3. Bad \subseteq FiniteSubsetsOf(S) /\ Bad # {}
  <2>1. 1 .. n \in Bad
    BY <1>1, <1>2
  <2> QED
    BY <1>2, <2>1, FS_FiniteSubsetsOfFinite
<1>4. PICK X \in Bad : \A Y \in Bad : <<Y, X>> \notin StrictSubsetOrdering(S)
  <2>1. IsWellFoundedOn(StrictSubsetOrdering(S), FiniteSubsetsOf(S))
    BY FS_StrictSubsetOrderingWellFounded
  <2> HIDE DEF Bad, S
  <2> QED
    BY <1>3, <2>1, WFMin
<1>5. X # {} /\ X \subseteq S /\ Cardinality(X) \notin N
  BY FS_EmptySet
<1>6. PICK x \in X : TRUE
  BY <1>5
<1>7. /\ IsFiniteSet(X) /\ Cardinality(X) <= m
      /\ Cardinality(X) \in Nat /\ Cardinality(X \ {x}) \in Nat
      /\ Cardinality(X \ {x}) = Cardinality(X) - 1
  <2>1. IsFiniteSet(X) /\ Cardinality(X) <= m
    <3>1. X \in SUBSET S
      OBVIOUS
    <3> HIDE DEF Bad, S
    <3> QED
      BY <1>2, <3>1, FS_Subset
  <2>2. IsFiniteSet(X \ {x}) /\ Cardinality(X \ {x}) = Cardinality(X) - 1
    BY <1>5, <1>6, <2>1, FS_RemoveElement
  <2> QED
    BY <2>1, <2>2, FS_CardinalityType
<1>8. X \ {x} \in Bad
  <2>1. Cardinality(X \ {x}) \notin N
    BY <1>5, <1>7
  <2> QED
    BY <1>5, <2>1
<1>9. <<X \ {x}, X>> \in StrictSubsetOrdering(S)
  BY <1>5, <1>6 DEF StrictSubsetOrdering
<1> QED
  BY <1>4, <1>8, <1>9

LEMMA DivMod ==
  ASSUME NEW x \in Nat, NEW d \in Nat \ {0}
  PROVE  /\ x \div d \in Nat /\ x % d \in 0 .. d - 1
         /\ x = (x \div d) * d + (x % d)
  OBVIOUS

LEMMA DivUnique ==
  ASSUME NEW d \in Nat \ {0}, NEW q \in Nat, NEW r \in 0 .. d - 1
  PROVE  (q * d + r) \div d = q /\ (q * d + r) % d = r
<1> DEFINE x == q * d + r
<1>1. x \in Nat
  OBVIOUS
<1> HIDE DEF x
<1>2. /\ x \div d \in Nat /\ x % d \in 0 .. d - 1
      /\ x = (x \div d) * d + (x % d)
  BY <1>1, DivMod
<1>3. PICK p \in Nat : p = x \div d
  BY <1>2
<1>4. PICK s \in 0 .. d - 1 : s = x % d
  BY <1>2
<1>5. q * d + r = p * d + s
  BY <1>2, <1>3, <1>4 DEF x
<1>6. p = q
  <2>1. CASE p >= q + 1
    <3>1. PICK k \in Nat : p = q + 1 + k
      <4>1. p - q - 1 \in Nat /\ p = q + 1 + (p - q - 1)
        BY <2>1
      <4> QED BY <4>1
    <3>2. p * d = q * d + d + k * d /\ k * d \in Nat
      BY <3>1
    <3> QED BY <1>5, <3>2
  <2>2. CASE q >= p + 1
    <3>1. PICK k \in Nat : q = p + 1 + k
      <4>1. q - p - 1 \in Nat /\ q = p + 1 + (q - p - 1)
        BY <2>2
      <4> QED BY <4>1
    <3>2. q * d = p * d + d + k * d /\ k * d \in Nat
      BY <3>1
    <3> QED BY <1>5, <3>2
  <2> QED BY <2>1, <2>2
<1>7. s = r
  BY <1>5, <1>6
<1> QED BY <1>3, <1>4, <1>6, <1>7 DEF x

LEMMA DivTwice ==
  ASSUME NEW x \in Nat, NEW d \in Nat \ {0}
  PROVE  x \div (2 * d) = (x \div d) \div 2
<1>1. PICK q \in Nat : q = x \div d
  BY DivMod
<1>2. PICK r \in 0 .. d - 1 : r = x % d
  BY DivMod
<1>3. x = q * d + r
  BY <1>1, <1>2, DivMod
<1>4. PICK k \in Nat : k = q \div 2
  BY DivMod
<1>5. PICK b \in 0 .. 1 : b = q % 2
  BY DivMod
<1>6. q = k * 2 + b
  BY <1>4, <1>5, DivMod
<1>7. x = k * (2 * d) + (b * d + r)
  BY <1>3, <1>6
<1>8. b * d + r \in 0 .. 2 * d - 1 /\ 2 * d \in Nat \ {0}
  <2>1. b = 0 \/ b = 1
    OBVIOUS
  <2> QED BY <2>1
<1>9. x \div (2 * d) = k
  BY <1>7, <1>8, DivUnique
<1> QED BY <1>1, <1>4, <1>9
\* Powers of two count the subsets of 1 .. n.
LEMMA PowerNat == ASSUME NEW n \in Nat PROVE 2 ^ n \in Nat \ {0}
<1>1. IsFiniteSet(1 .. n) /\ Cardinality(1 .. n) = n
  BY FS_Interval
<1>2. IsFiniteSet(SUBSET (1 .. n)) /\ Cardinality(SUBSET (1 .. n)) = 2 ^ n
  BY <1>1, FS_SUBSET
<1>3. {} \in SUBSET (1 .. n)
  OBVIOUS
<1>4. Cardinality(SUBSET (1 .. n)) \in Nat /\ Cardinality(SUBSET (1 .. n)) # 0
  BY <1>2, <1>3, FS_CardinalityType, FS_EmptySet
<1> QED BY <1>2, <1>4

LEMMA PowerStep == ASSUME NEW n \in Nat PROVE 2 ^ (n + 1) = 2 * 2 ^ n
<1> DEFINE A == SUBSET (1 .. n)
           B == {s \cup {n + 1} : s \in A}
           f == [s \in A |-> s \cup {n + 1}]
<1>1. /\ IsFiniteSet(1 .. n) /\ Cardinality(1 .. n) = n
      /\ IsFiniteSet(1 .. n + 1) /\ Cardinality(1 .. n + 1) = n + 1
  BY FS_Interval
<1>2. /\ IsFiniteSet(A) /\ Cardinality(A) = 2 ^ n
      /\ Cardinality(SUBSET (1 .. n + 1)) = 2 ^ (n + 1)
  BY <1>1, FS_SUBSET
<1>3. f \in Bijection(A, B)
  <2>1. n + 1 \notin 1 .. n
    OBVIOUS
  <2>2. \A s, t \in A : s \cup {n + 1} = t \cup {n + 1} => s = t
    BY <2>1
  <2>3. f \in Injection(A, B)
    <3>1. f \in [A -> B]
      OBVIOUS
    <3>2. \A s, t \in A : f[s] = f[t] => s = t
      BY <2>2
    <3> HIDE DEF f, A, B
    <3> QED
      BY <3>1, <3>2 DEF Injection, IsInjective
  <2>4. f \in Surjection(A, B)
    BY DEF Surjection
  <2> QED
    BY <2>3, <2>4 DEF Bijection
<1>4. IsFiniteSet(B) /\ Cardinality(B) = Cardinality(A)
  <2>1. \E g : g \in Bijection(A, B)
    BY <1>3
  <2> HIDE DEF f, A, B
  <2> QED
    BY <1>2, <1>3, FS_Bijection DEF ExistsBijection
<1>5. A \cap B = {} /\ A \cup B = SUBSET (1 .. n + 1)
  <2>1. n + 1 \notin 1 .. n
    OBVIOUS
  <2>2. ASSUME NEW s \in SUBSET (1 .. n + 1) PROVE s \in A \cup B
    <3>1. CASE n + 1 \in s
      <4>1. s \ {n + 1} \in A /\ s = (s \ {n + 1}) \cup {n + 1}
        BY <3>1
      <4> QED BY <4>1
    <3>2. CASE n + 1 \notin s
      BY <3>2
    <3> QED BY <3>1, <3>2
  <2>3. \A s \in A \cup B : s \in SUBSET (1 .. n + 1)
    OBVIOUS
  <2>4. A \cap B = {}
    BY <2>1
  <2> QED BY <2>2, <2>3, <2>4
<1>6. Cardinality(A \cup B) = Cardinality(A) + Cardinality(B) - Cardinality(A \cap B)
  <2> HIDE DEF A, B
  <2> QED
    BY <1>2, <1>4, FS_Union
<1>7. 2 ^ n \in Nat
  BY PowerNat
<1>8. Cardinality(A \cap B) = 0
  BY <1>5, FS_EmptySet
<1>9. Cardinality(A \cup B) = 2 ^ (n + 1)
  BY <1>2, <1>5
<1> HIDE DEF A, B
<1> QED BY <1>9, <1>2, <1>4, <1>5, <1>6, <1>7, <1>8
-----------------------------------------------------------------------------
(* Indices and levels *)

\* The number of nodes at a level.
Width(level) == 2 ^ (Top - level)
Slots(level) == 0 .. Width(level) - 1

LEMMA Shape ==
  /\ Top \in Nat /\ Levels = 0 .. Top /\ Height \in Nat
  /\ MaxLeafIndex \in Nat \ {0} /\ MaxLeafIndex = Width(0) /\ Width(Top) = 1
  /\ \A i \in Levels : Width(i) \in Nat \ {0}
  /\ \A i \in 1 .. Top : Width(i - 1) = 2 * Width(i)
<1>1. Top \in Nat /\ Levels = 0 .. Top /\ Height \in Nat
  BY MerkleTreeAssumption DEF Top, Levels
<1>2. \A i \in Levels : Width(i) \in Nat \ {0}
  BY <1>1, PowerNat DEF Width
<1>3. ASSUME NEW i \in 1 .. Top PROVE Width(i - 1) = 2 * Width(i)
  <2>1. Top - i \in Nat /\ Top - (i - 1) = (Top - i) + 1
    BY <1>1
  <2> QED
    BY <2>1, PowerStep DEF Width
<1>4. MaxLeafIndex = Width(0) /\ 0 \in Levels
  <2>1. Top - 0 = Top
    BY <1>1
  <2> QED
    BY <1>1, <2>1 DEF Width, MaxLeafIndex
<1>5. Width(Top) = 1
  <2>1. Top - Top = 0 /\ 2 ^ 0 = 1
    BY <1>1
  <2> QED
    BY <2>1 DEF Width
<1> QED
  BY <1>1, <1>2, <1>3, <1>4, <1>5

LEMMA AboveZero == ASSUME NEW x \in Nat PROVE Above(x, 0) = x
<1>1. 2 ^ 0 = 1 /\ x \div 1 = x
  OBVIOUS
<1> QED
  BY <1>1 DEF Above

LEMMA AboveStep ==
  ASSUME NEW x \in Nat, NEW i \in Nat
  PROVE  Above(x, i) \in Nat /\ Above(x, i + 1) = Above(x, i) \div 2
<1>1. 2 ^ i \in Nat \ {0} /\ 2 ^ (i + 1) = 2 * 2 ^ i
  BY PowerNat, PowerStep
<1> QED
  BY <1>1, DivMod, DivTwice DEF Above

\* The path of a leaf stays inside the tree.
LEMMA AboveInside ==
  ASSUME NEW x \in Slots(0)
  PROVE  x \in Nat /\ \A i \in Levels : Above(x, i) \in Slots(i)
<1> DEFINE N == {i \in Levels : Above(x, i) \in Slots(i)}
<1>0. x \in Nat
  BY Shape DEF Slots
<1>1. 0 \in N
  BY <1>0, Shape, AboveZero
<1>2. ASSUME NEW i \in 0 .. Top - 1, i \in N PROVE i + 1 \in N
  <2>1. i \in Nat /\ i + 1 \in 1 .. Top /\ i + 1 \in Levels /\ (i + 1) - 1 = i
    BY Shape
  <2>2. Width(i) = 2 * Width(i + 1) /\ Width(i + 1) \in Nat \ {0}
    BY <2>1, Shape
  <2>3. Above(x, i + 1) = Above(x, i) \div 2 /\ Above(x, i) \in 0 .. Width(i) - 1
    BY <1>0, <1>2, <2>1, AboveStep DEF Slots
  <2>4. Above(x, i + 1) \in Slots(i + 1)
    BY <2>2, <2>3 DEF Slots
  <2> QED
    BY <2>1, <2>4
<1> HIDE DEF N
<1>3. \A i \in 0 .. Top : i \in N
  BY <1>1, <1>2, Shape, UptoInduction
<1> QED
  BY <1>0, <1>3, Shape DEF N

\* The two nodes below a node, whose indices halve to its index.
LEMMA Children ==
  ASSUME NEW i \in 1 .. Top, NEW j \in Slots(i)
  PROVE  /\ j \in Nat /\ 2 * j \in Slots(i - 1) /\ 2 * j + 1 \in Slots(i - 1)
         /\ i - 1 \in Levels /\ i \in Levels
<1>1. Width(i - 1) = 2 * Width(i) /\ Width(i) \in Nat /\ i - 1 \in Levels /\ i \in Levels
  BY Shape
<1> QED
  BY <1>1 DEF Slots

\* A node on the path of a leaf and its sibling are the children of the next.
LEMMA Siblings ==
  ASSUME NEW x \in Slots(0), NEW i \in 0 .. Top - 1
  PROVE  LET a == Above(x, i)
             j == Above(x, i + 1)
         IN  /\ a \in Slots(i) /\ Beside(x, i) \in Slots(i) /\ Beside(x, i) # a
             /\ i + 1 \in 1 .. Top /\ i \in Levels /\ j \in Slots(i + 1)
             /\ a % 2 = 0 => a = 2 * j /\ Beside(x, i) = 2 * j + 1
             /\ a % 2 # 0 => a = 2 * j + 1 /\ Beside(x, i) = 2 * j
<1> DEFINE a == Above(x, i)
           j == Above(x, i + 1)
<1>1. i \in Nat /\ i \in Levels /\ i + 1 \in 1 .. Top /\ i + 1 \in Levels /\ (i + 1) - 1 = i
  BY Shape
<1>2. x \in Nat /\ a \in Slots(i) /\ j \in Slots(i + 1)
  BY <1>1, AboveInside
<1>3. j = a \div 2 /\ a \in Nat
  BY <1>1, <1>2, AboveStep
<1>4. /\ a % 2 \in 0 .. 1 /\ a = j * 2 + (a % 2) /\ j \in Nat
  <2> HIDE DEF a, j
  <2> QED
    BY <1>3, DivMod
<1>5. Width(i) = 2 * Width(i + 1) /\ Width(i + 1) \in Nat \ {0}
  BY <1>1, Shape
<1>6. 2 * j \in Slots(i) /\ 2 * j + 1 \in Slots(i)
  BY <1>2, <1>5 DEF Slots
<1> HIDE DEF a, j
<1>7. CASE a % 2 = 0
  <2>1. a = 2 * j
    BY <1>4, <1>7
  <2>2. SiblingOf(a) = 2 * j + 1
    BY <1>7, <2>1 DEF SiblingOf
  <2>3. Beside(x, i) = 2 * j + 1
    BY <2>2 DEF Beside, a
  <2> QED
    BY <1>1, <1>2, <1>4, <1>6, <1>7, <2>1, <2>3 DEF a, j
<1>8. CASE a % 2 # 0
  <2>1. a = 2 * j + 1
    BY <1>4, <1>8
  <2>2. SiblingOf(a) = 2 * j
    BY <1>4, <1>8, <2>1 DEF SiblingOf
  <2>3. Beside(x, i) = 2 * j
    BY <2>2 DEF Beside, a
  <2> QED
    BY <1>1, <1>2, <1>4, <1>6, <1>8, <2>1, <2>3 DEF a, j
<1> QED
  BY <1>7, <1>8

-----------------------------------------------------------------------------
(* The recursive functions satisfy their equations *)

LEMMA ZerosExist ==
  \E f : f = [i \in Levels |-> IF i = 0 THEN ZeroLeaf ELSE HashLeftRight(f[i - 1], f[i - 1])]
<1> DEFINE Upto(n, h) == \A i \in 0 .. n : h[i] = IF i = 0
                             THEN ZeroLeaf ELSE HashLeftRight(h[i - 1], h[i - 1])
           N == {n \in Nat : \E h : Upto(n, h)}
<1>1. 0 \in N
  <2>1. Upto(0, [i \in {0} |-> ZeroLeaf])
    OBVIOUS
  <2> QED
    BY <2>1
<1>2. ASSUME NEW n \in 0 .. Top - 1, n \in N PROVE n + 1 \in N
  <2>0. n \in Nat
    OBVIOUS
  <2>1. PICK h : Upto(n, h)
    BY <1>2
  <2> DEFINE v == HashLeftRight(h[n], h[n])
             k == [i \in 0 .. n + 1 |-> IF i <= n THEN h[i] ELSE v]
  <2>2. ASSUME NEW i \in 0 .. n + 1
        PROVE  k[i] = IF i = 0 THEN ZeroLeaf ELSE HashLeftRight(k[i - 1], k[i - 1])
    <3>1. CASE i <= n
      <4>1. i \in 0 .. n /\ (i # 0 => i - 1 \in 0 .. n)
        BY <2>0, <3>1
      <4>2. k[i] = h[i] /\ (i # 0 => k[i - 1] = h[i - 1])
        BY <2>0, <4>1
      <4> HIDE DEF k
      <4> QED
        BY <2>1, <4>1, <4>2
    <3>2. CASE i = n + 1
      <4>1. k[i] = v /\ k[n] = h[n] /\ i # 0 /\ i - 1 = n
        BY <2>0, <3>2
      <4> HIDE DEF k
      <4> QED
        BY <4>1
    <3> QED
      BY <2>0, <3>1, <3>2
  <2>3. \E g : Upto(n + 1, g)
    <3>1. Upto(n + 1, k)
      <4> HIDE DEF k
      <4> QED
        BY <2>2
    <3> HIDE DEF k, Upto
    <3> QED
      BY <3>1
  <2> HIDE DEF Upto
  <2> QED
    BY <2>0, <2>3
<1>3. Top \in N
  <2> HIDE DEF N
  <2>1. \A i \in 0 .. Top : i \in N
    BY <1>1, <1>2, Shape, UptoInduction
  <2> QED
    BY <2>1, Shape
<1>4. PICK h : Upto(Top, h)
  BY <1>3
<1> DEFINE f == [i \in Levels |-> h[i]]
<1>5. \A i \in Levels : f[i] = h[i] /\ (i # 0 => f[i - 1] = h[i - 1])
  <2>1. \A i \in Levels : i # 0 => i - 1 \in Levels
    BY Shape
  <2> QED
    BY <2>1
<1>6. f = [i \in Levels |-> f[i]]
  OBVIOUS
<1> HIDE DEF f
<1>7. \A i \in Levels : f[i] = IF i = 0 THEN ZeroLeaf ELSE HashLeftRight(f[i - 1], f[i - 1])
  BY <1>4, <1>5, Shape
<1> QED
  BY <1>6, <1>7

LEMMA ZerosAre ==
  /\ zeros[0] = ZeroLeaf
  /\ \A i \in 1 .. Top : zeros[i] = HashLeftRight(zeros[i - 1], zeros[i - 1])
<1>1. zeros = [i \in Levels |->
                IF i = 0 THEN ZeroLeaf ELSE HashLeftRight(zeros[i - 1], zeros[i - 1])]
  BY ZerosExist DEF zeros
<1> QED
  BY <1>1, Shape

\* The hash of a node and its sibling, in the order of their indices.
Joined(index, level, node, sibling) ==
  IF Above(index, level) % 2 = 0
  THEN HashLeftRight(node, sibling[level]) ELSE HashLeftRight(sibling[level], node)

LEMMA ClimbExists ==
  ASSUME NEW leaf, NEW index, NEW sibling PROVE
  \E f : f = [i \in Levels |-> IF i = 0 THEN leaf ELSE Joined(index, i - 1, f[i - 1], sibling)]
<1> DEFINE Upto(n, h) == \A i \in 0 .. n : h[i] = IF i = 0
                             THEN leaf ELSE Joined(index, i - 1, h[i - 1], sibling)
           N == {n \in Nat : \E h : Upto(n, h)}
<1>1. 0 \in N
  <2>1. Upto(0, [i \in {0} |-> leaf])
    OBVIOUS
  <2> QED
    BY <2>1
<1>2. ASSUME NEW n \in 0 .. Top - 1, n \in N PROVE n + 1 \in N
  <2>0. n \in Nat
    OBVIOUS
  <2>1. PICK h : Upto(n, h)
    BY <1>2
  <2> DEFINE v == Joined(index, n, h[n], sibling)
             k == [i \in 0 .. n + 1 |-> IF i <= n THEN h[i] ELSE v]
  <2>2. ASSUME NEW i \in 0 .. n + 1
        PROVE  k[i] = IF i = 0 THEN leaf ELSE Joined(index, i - 1, k[i - 1], sibling)
    <3>1. CASE i <= n
      <4>1. i \in 0 .. n /\ (i # 0 => i - 1 \in 0 .. n)
        BY <2>0, <3>1
      <4>2. k[i] = h[i] /\ (i # 0 => k[i - 1] = h[i - 1])
        BY <2>0, <4>1
      <4> HIDE DEF k
      <4> QED
        BY <2>1, <4>1, <4>2
    <3>2. CASE i = n + 1
      <4>1. k[i] = v /\ k[n] = h[n] /\ i # 0 /\ i - 1 = n
        BY <2>0, <3>2
      <4> HIDE DEF k
      <4> QED
        BY <4>1
    <3> QED
      BY <2>0, <3>1, <3>2
  <2>3. \E g : Upto(n + 1, g)
    <3>1. Upto(n + 1, k)
      <4> HIDE DEF k
      <4> QED
        BY <2>2
    <3> HIDE DEF k, Upto
    <3> QED
      BY <3>1
  <2> HIDE DEF Upto
  <2> QED
    BY <2>0, <2>3
<1>3. Top \in N
  <2> HIDE DEF N
  <2>1. \A i \in 0 .. Top : i \in N
    BY <1>1, <1>2, Shape, UptoInduction
  <2> QED
    BY <2>1, Shape
<1>4. PICK h : Upto(Top, h)
  BY <1>3
<1> DEFINE f == [i \in Levels |-> h[i]]
<1>5. \A i \in Levels : f[i] = h[i] /\ (i # 0 => f[i - 1] = h[i - 1])
  <2>1. \A i \in Levels : i # 0 => i - 1 \in Levels
    BY Shape
  <2> QED
    BY <2>1
<1>6. f = [i \in Levels |-> f[i]]
  OBVIOUS
<1> HIDE DEF f
<1>7. \A i \in Levels : f[i] = IF i = 0 THEN leaf ELSE Joined(index, i - 1, f[i - 1], sibling)
  BY <1>4, <1>5, Shape
<1> QED
  BY <1>6, <1>7

LEMMA ClimbIs ==
  ASSUME NEW leaf, NEW index, NEW sibling
  PROVE  LET h == Climb(leaf, index, sibling)
         IN  h[0] = leaf /\ \A i \in 1 .. Top : h[i] = Joined(index, i - 1, h[i - 1], sibling)
<1> DEFINE h == Climb(leaf, index, sibling)
<1>1. h = CHOOSE f : f = [i \in Levels |->
                            IF i = 0 THEN leaf ELSE Joined(index, i - 1, f[i - 1], sibling)]
  BY DEF Climb, Joined
<1> HIDE DEF h
<1>2. h = [i \in Levels |-> IF i = 0 THEN leaf ELSE Joined(index, i - 1, h[i - 1], sibling)]
  BY <1>1, ClimbExists
<1>3. h[0] = leaf /\ \A i \in 1 .. Top : h[i] = Joined(index, i - 1, h[i - 1], sibling)
  BY <1>2, Shape
<1> QED
  BY <1>3 DEF h

\* The value of a leaf; the leaves' level; the level above a level.
Value(leafAt, x) == IF x \in DOMAIN leafAt THEN leafAt[x] ELSE ZeroLeaf
Bottom(leafAt) == [x \in Slots(0) |-> Value(leafAt, x)]
Parents(level, row) == [j \in Slots(level) |-> <<row[2 * j], row[2 * j + 1]>>]

LEMMA NodesExist ==
  ASSUME NEW leafAt PROVE
  \E f : f = [i \in Levels |-> IF i = 0 THEN Bottom(leafAt) ELSE Parents(i, f[i - 1])]
<1> DEFINE Upto(n, h) == \A i \in 0 .. n : h[i] = IF i = 0
                             THEN Bottom(leafAt) ELSE Parents(i, h[i - 1])
           N == {n \in Nat : \E h : Upto(n, h)}
<1>1. 0 \in N
  <2>1. Upto(0, [i \in {0} |-> Bottom(leafAt)])
    OBVIOUS
  <2> QED
    BY <2>1
<1>2. ASSUME NEW n \in 0 .. Top - 1, n \in N PROVE n + 1 \in N
  <2>0. n \in Nat
    OBVIOUS
  <2>1. PICK h : Upto(n, h)
    BY <1>2
  <2> DEFINE v == Parents(n + 1, h[n])
             k == [i \in 0 .. n + 1 |-> IF i <= n THEN h[i] ELSE v]
  <2>2. ASSUME NEW i \in 0 .. n + 1
        PROVE  k[i] = IF i = 0 THEN Bottom(leafAt) ELSE Parents(i, k[i - 1])
    <3>1. CASE i <= n
      <4>1. i \in 0 .. n /\ (i # 0 => i - 1 \in 0 .. n)
        BY <2>0, <3>1
      <4>2. k[i] = h[i] /\ (i # 0 => k[i - 1] = h[i - 1])
        BY <2>0, <4>1
      <4> HIDE DEF k
      <4> QED
        BY <2>1, <4>1, <4>2
    <3>2. CASE i = n + 1
      <4>1. k[i] = v /\ k[n] = h[n] /\ i # 0 /\ i - 1 = n
        BY <2>0, <3>2
      <4> HIDE DEF k
      <4> QED
        BY <4>1
    <3> QED
      BY <2>0, <3>1, <3>2
  <2>3. \E g : Upto(n + 1, g)
    <3>1. Upto(n + 1, k)
      <4> HIDE DEF k
      <4> QED
        BY <2>2
    <3> HIDE DEF k, Upto
    <3> QED
      BY <3>1
  <2> HIDE DEF Upto
  <2> QED
    BY <2>0, <2>3
<1>3. Top \in N
  <2> HIDE DEF N
  <2>1. \A i \in 0 .. Top : i \in N
    BY <1>1, <1>2, Shape, UptoInduction
  <2> QED
    BY <2>1, Shape
<1>4. PICK h : Upto(Top, h)
  BY <1>3
<1> DEFINE f == [i \in Levels |-> h[i]]
<1>5. \A i \in Levels : f[i] = h[i] /\ (i # 0 => f[i - 1] = h[i - 1])
  <2>1. \A i \in Levels : i # 0 => i - 1 \in Levels
    BY Shape
  <2> QED
    BY <2>1
<1>6. f = [i \in Levels |-> f[i]]
  OBVIOUS
<1> HIDE DEF f
<1>7. \A i \in Levels : f[i] = IF i = 0 THEN Bottom(leafAt) ELSE Parents(i, f[i - 1])
  BY <1>4, <1>5, Shape
<1> QED
  BY <1>6, <1>7

LEMMA NodesAre ==
  ASSUME NEW leafAt
  PROVE  LET node == ReferenceNodes(leafAt)
         IN  /\ \A x \in Slots(0) : node[0][x] = Value(leafAt, x)
             /\ \A i \in 1 .. Top : \A j \in Slots(i) :
                  node[i][j] = <<node[i - 1][2 * j], node[i - 1][2 * j + 1]>>
<1> DEFINE node == ReferenceNodes(leafAt)
<1>1. node = CHOOSE f : f = [i \in Levels |->
                               IF i = 0 THEN Bottom(leafAt) ELSE Parents(i, f[i - 1])]
  BY Shape DEF ReferenceNodes, Bottom, Parents, Value, Slots, Width
<1> HIDE DEF node
<1>2. node = [i \in Levels |-> IF i = 0 THEN Bottom(leafAt) ELSE Parents(i, node[i - 1])]
  BY <1>1, NodesExist
<1>3. node[0] = Bottom(leafAt) /\ \A i \in 1 .. Top : node[i] = Parents(i, node[i - 1])
  BY <1>2, Shape
<1>4. \A x \in Slots(0) : node[0][x] = Value(leafAt, x)
  BY <1>3 DEF Bottom
<1>5. \A i \in 1 .. Top : \A j \in Slots(i) :
        node[i][j] = <<node[i - 1][2 * j], node[i - 1][2 * j + 1]>>
  BY <1>3 DEF Parents
<1> QED
  BY <1>4, <1>5 DEF node

-----------------------------------------------------------------------------
(* Trees *)

\* A node depends only on the leaves below it.
LEMMA NodesLocal ==
  ASSUME NEW f, NEW g
  PROVE  \A i \in Levels : \A j \in Slots(i) :
           (\A x \in Slots(0) : Above(x, i) = j => Value(f, x) = Value(g, x))
             => ReferenceNodes(f)[i][j] = ReferenceNodes(g)[i][j]
<1> DEFINE Agree(i, j) == \A x \in Slots(0) : Above(x, i) = j => Value(f, x) = Value(g, x)
           Same(i, j) == ReferenceNodes(f)[i][j] = ReferenceNodes(g)[i][j]
           N == {i \in Levels : \A j \in Slots(i) : Agree(i, j) => Same(i, j)}
<1>1. 0 \in N
  <2>1. 0 \in Levels
    BY Shape
  <2>2. ASSUME NEW j \in Slots(0), Agree(0, j) PROVE Same(0, j)
    <3>1. Above(j, 0) = j
      BY AboveInside, AboveZero
    <3> QED
      BY <2>2, <3>1, NodesAre
  <2> QED
    BY <2>1, <2>2
<1>2. ASSUME NEW i \in 0 .. Top - 1, i \in N PROVE i + 1 \in N
  <2>1. i \in Nat /\ i + 1 \in Levels /\ i + 1 \in 1 .. Top /\ (i + 1) - 1 = i
    BY Shape
  <2>2. ASSUME NEW j \in Slots(i + 1), Agree(i + 1, j) PROVE Same(i + 1, j)
    <3>1. j \in Nat /\ 2 * j \in Slots(i) /\ 2 * j + 1 \in Slots(i)
      BY <2>1, Children
    <3>2. ASSUME NEW x \in Slots(0), Above(x, i) \in {2 * j, 2 * j + 1}
          PROVE  Above(x, i + 1) = j
      <4>1. Above(x, i + 1) = Above(x, i) \div 2
        BY <2>1, AboveInside, AboveStep
      <4>2. (2 * j) \div 2 = j /\ (2 * j + 1) \div 2 = j
        BY <3>1
      <4> QED
        BY <3>2, <4>1, <4>2
    <3>3. Agree(i, 2 * j) /\ Agree(i, 2 * j + 1)
      BY <2>2, <3>2
    <3>4. Same(i, 2 * j) /\ Same(i, 2 * j + 1)
      BY <1>2, <3>1, <3>3
    <3> QED
      BY <2>1, <3>4, NodesAre
  <2> QED
    BY <2>1, <2>2
<1> HIDE DEF N
<1>3. \A i \in Levels : i \in N
  BY <1>1, <1>2, Shape, UptoInduction
<1> QED
  BY <1>3 DEF N

\* A tree without leaves has the zero of every level at that level.
LEMMA NodesEmpty ==
  ASSUME NEW f, \A x \in Slots(0) : Value(f, x) = ZeroLeaf
  PROVE  \A i \in Levels : \A j \in Slots(i) : ReferenceNodes(f)[i][j] = zeros[i]
<1> DEFINE N == {i \in Levels : \A j \in Slots(i) : ReferenceNodes(f)[i][j] = zeros[i]}
<1>1. 0 \in N
  BY Shape, NodesAre, ZerosAre
<1>2. ASSUME NEW i \in 0 .. Top - 1, i \in N PROVE i + 1 \in N
  <2>1. i \in Nat /\ i + 1 \in Levels /\ i + 1 \in 1 .. Top /\ (i + 1) - 1 = i
    BY Shape
  <2>2. ASSUME NEW j \in Slots(i + 1) PROVE ReferenceNodes(f)[i + 1][j] = zeros[i + 1]
    <3>1. 2 * j \in Slots(i) /\ 2 * j + 1 \in Slots(i)
      BY <2>1, Children
    <3>2. ReferenceNodes(f)[i + 1][j] = <<zeros[i], zeros[i]>>
      BY <1>2, <2>1, <3>1, NodesAre
    <3> QED
      BY <2>1, <3>2, ZerosAre DEF HashLeftRight
  <2> QED
    BY <2>1, <2>2
<1> HIDE DEF N
<1>3. \A i \in Levels : i \in N
  BY <1>1, <1>2, Shape, UptoInduction
<1> QED
  BY <1>3 DEF N

\* g is f with leaf written at the position at.
Puts(g, f, at, leaf) ==
  /\ Value(g, at) = leaf
  /\ \A x \in Slots(0) \ {at} : Value(g, x) = Value(f, x)

\* The nodes off the path of a written leaf keep their values.
LEMMA NodesBeside ==
  ASSUME NEW f, NEW g, NEW at \in Slots(0), NEW leaf, Puts(g, f, at, leaf),
         NEW i \in Levels, NEW j \in Slots(i), j # Above(at, i)
  PROVE  ReferenceNodes(g)[i][j] = ReferenceNodes(f)[i][j]
<1>1. \A x \in Slots(0) : Above(x, i) = j => Value(g, x) = Value(f, x)
  BY DEF Puts
<1> QED
  BY <1>1, NodesLocal

\* sibling has the nodes of f beside the path of the leaf at the position at.
SiblingsIn(sibling, f, at) ==
  \A i \in 0 .. Top - 1 : sibling[i] = ReferenceNodes(f)[i][Beside(at, i)]

\* Climbing from a leaf with the siblings of the old tree gives the nodes of the
\* new one.
LEMMA ClimbUpdates ==
  ASSUME NEW f, NEW g, NEW at \in Slots(0), NEW leaf, Puts(g, f, at, leaf),
         NEW sibling, SiblingsIn(sibling, f, at)
  PROVE  \A i \in Levels : Climb(leaf, at, sibling)[i] = ReferenceNodes(g)[i][Above(at, i)]
<1> DEFINE N == {i \in Levels : Climb(leaf, at, sibling)[i] = ReferenceNodes(g)[i][Above(at, i)]}
<1>1. 0 \in N
  <2>1. Above(at, 0) = at /\ 0 \in Levels
    BY AboveInside, AboveZero, Shape
  <2>2. Climb(leaf, at, sibling)[0] = leaf
    BY ClimbIs
  <2>3. ReferenceNodes(g)[0][at] = leaf
    BY NodesAre DEF Puts
  <2> QED
    BY <2>1, <2>2, <2>3
<1>2. ASSUME NEW i \in 0 .. Top - 1, i \in N PROVE i + 1 \in N
  <2> DEFINE a == Above(at, i)
             j == Above(at, i + 1)
             node == ReferenceNodes(g)
  <2>1. i + 1 \in Levels /\ (i + 1) - 1 = i
    BY Shape
  <2>2. /\ a \in Slots(i) /\ Beside(at, i) \in Slots(i) /\ Beside(at, i) # a
        /\ i + 1 \in 1 .. Top /\ i \in Levels /\ j \in Slots(i + 1)
        /\ a % 2 = 0 => a = 2 * j /\ Beside(at, i) = 2 * j + 1
        /\ a % 2 # 0 => a = 2 * j + 1 /\ Beside(at, i) = 2 * j
    BY Siblings
  <2>3. sibling[i] = node[i][Beside(at, i)]
    BY <2>2, NodesBeside DEF SiblingsIn
  <2>4. Climb(leaf, at, sibling)[i + 1] = Joined(at, i, node[i][a], sibling)
    BY <1>2, <2>1, <2>2, ClimbIs
  <2>5. node[i + 1][j] = <<node[i][2 * j], node[i][2 * j + 1]>>
    BY <2>1, <2>2, NodesAre
  <2>6. Climb(leaf, at, sibling)[i + 1] = node[i + 1][j]
    <3>1. CASE a % 2 = 0
      <4>1. Joined(at, i, node[i][a], sibling) = <<node[i][a], sibling[i]>>
        BY <3>1 DEF Joined, HashLeftRight
      <4> HIDE DEF a, j, node
      <4> QED
        BY <2>2, <2>3, <2>4, <2>5, <3>1, <4>1
    <3>2. CASE a % 2 # 0
      <4>1. Joined(at, i, node[i][a], sibling) = <<sibling[i], node[i][a]>>
        BY <3>2 DEF Joined, HashLeftRight
      <4> HIDE DEF a, j, node
      <4> QED
        BY <2>2, <2>3, <2>4, <2>5, <3>2, <4>1
    <3> QED
      BY <3>1, <3>2
  <2> QED
    BY <2>1, <2>6
<1> HIDE DEF N
<1>3. \A i \in Levels : i \in N
  BY <1>1, <1>2, Shape, UptoInduction
<1> QED
  BY <1>3 DEF N

\* Trees with the same leaves have the same nodes.
LEMMA NodesSame ==
  ASSUME NEW f, NEW g, \A x \in Slots(0) : Value(f, x) = Value(g, x)
  PROVE  /\ \A i \in Levels : \A j \in Slots(i) : ReferenceNodes(f)[i][j] = ReferenceNodes(g)[i][j]
         /\ ReferenceRoot(f) = ReferenceRoot(g)
<1>1. \A i \in Levels : \A j \in Slots(i) : ReferenceNodes(f)[i][j] = ReferenceNodes(g)[i][j]
  BY NodesLocal
<1>2. Top \in Levels /\ 0 \in Slots(Top)
  BY Shape DEF Slots
<1> QED
  BY <1>1, <1>2 DEF ReferenceRoot

\* The root determines the leaves.
LEMMA RootDetermines ==
  ASSUME NEW f, NEW g, ReferenceRoot(f) = ReferenceRoot(g)
  PROVE  \A x \in Slots(0) : Value(f, x) = Value(g, x)
<1> DEFINE Agree(i, j) == \A x \in Slots(0) : Above(x, i) = j => Value(f, x) = Value(g, x)
           Same(i, j) == ReferenceNodes(f)[i][j] = ReferenceNodes(g)[i][j]
           N == {i \in Levels : \A j \in Slots(i) : Same(i, j) => Agree(i, j)}
<1>1. 0 \in N
  <2>1. 0 \in Levels
    BY Shape
  <2>2. ASSUME NEW j \in Slots(0), Same(0, j) PROVE Agree(0, j)
    <3>1. Value(f, j) = Value(g, j)
      BY <2>2, NodesAre
    <3>2. \A x \in Slots(0) : Above(x, 0) = x
      BY AboveInside, AboveZero
    <3> QED
      BY <3>1, <3>2
  <2> QED
    BY <2>1, <2>2
<1>2. ASSUME NEW i \in 0 .. Top - 1, i \in N PROVE i + 1 \in N
  <2>1. i \in Nat /\ i + 1 \in Levels /\ i + 1 \in 1 .. Top /\ (i + 1) - 1 = i
    BY Shape
  <2>2. ASSUME NEW j \in Slots(i + 1), Same(i + 1, j) PROVE Agree(i + 1, j)
    <3>1. 2 * j \in Slots(i) /\ 2 * j + 1 \in Slots(i)
      BY <2>1, Children
    <3>2. Same(i, 2 * j) /\ Same(i, 2 * j + 1)
      <4>1. /\ ReferenceNodes(f)[i + 1][j]
                 = <<ReferenceNodes(f)[i][2 * j], ReferenceNodes(f)[i][2 * j + 1]>>
            /\ ReferenceNodes(g)[i + 1][j]
                 = <<ReferenceNodes(g)[i][2 * j], ReferenceNodes(g)[i][2 * j + 1]>>
        BY <2>1, NodesAre
      <4>2. <<ReferenceNodes(f)[i][2 * j], ReferenceNodes(f)[i][2 * j + 1]>>
              = <<ReferenceNodes(g)[i][2 * j], ReferenceNodes(g)[i][2 * j + 1]>>
        BY <2>2, <4>1
      <4> QED
        BY <4>2
    <3>3. Agree(i, 2 * j) /\ Agree(i, 2 * j + 1)
      BY <1>2, <3>1, <3>2
    <3>4. ASSUME NEW x \in Slots(0), Above(x, i + 1) = j
          PROVE  Above(x, i) \in {2 * j, 2 * j + 1}
      BY <3>4, Siblings
    <3> QED
      BY <3>3, <3>4
  <2> QED
    BY <2>1, <2>2
<1>3. \A i \in Levels : i \in N
  <2> HIDE DEF N
  <2> QED
    BY <1>1, <1>2, Shape, UptoInduction
<1>4. Top \in Levels /\ Slots(Top) = {0}
  BY Shape DEF Slots
<1>5. Same(Top, 0)
  BY DEF ReferenceRoot
<1>6. Agree(Top, 0)
  BY <1>3, <1>4, <1>5
<1>7. \A x \in Slots(0) : Above(x, Top) = 0
  BY <1>4, AboveInside
<1> QED
  BY <1>6, <1>7

-----------------------------------------------------------------------------
(* The inductive invariant *)

\* The leaves of an epoch, by their position in it, according to the log.
LeavesOf(log, e) ==
  [x \in {y \in Slots(0) : e * MaxLeafIndex + y < Len(log)} |->
     log[e * MaxLeafIndex + x + 1]]

\* Epochs fill one after the other; only the first one can be empty.
LogInv ==
  /\ epoch \in Nat /\ nextIndex \in 0 .. MaxLeafIndex
  /\ inserted \in Seq(Leaves)
  /\ Len(inserted) = epoch * MaxLeafIndex + nextIndex
  /\ nextIndex = 0 => epoch = 0

\* Every node that the storage holds, or stands for by its absence, is the node
\* of the reference tree of its epoch, those of epochs to come included.
StoreInv ==
  \A e \in Nat : \A i \in Levels : \A j \in Slots(i) :
    ReadNode(filledSubtrees, StorageKey(e, i, j), i)
      = ReferenceNodes(LeavesOf(inserted, e))[i][j]

TreeInv == LogInv /\ StoreInv /\ RootIsReference

\* The leaves that reached the wallet's copy.
MirrorLeaves == [x \in MirrorHas |-> LeafAt(mirrorEpoch, x)]

\* The copy has leaves of its epoch only, and all the nodes of their tree.
MirrorInv ==
  /\ mirrorEpoch \in 0 .. epoch
  /\ MirrorHas \subseteq 0 .. EpochSize(mirrorEpoch) - 1
  /\ \A i \in Levels : \A j \in Slots(i) :
       ReadNode(mirror, <<i, j>>, i) = ReferenceNodes(MirrorLeaves)[i][j]

-----------------------------------------------------------------------------
(* The log and its prefixes *)

LEMMA Position ==
  ASSUME NEW e \in Nat, NEW x \in Slots(0)
  PROVE  LET p == e * MaxLeafIndex + x
         IN  p \in Nat /\ p \div MaxLeafIndex = e /\ p % MaxLeafIndex = x
<1>1. MaxLeafIndex \in Nat \ {0} /\ x \in 0 .. MaxLeafIndex - 1
  BY Shape DEF Slots
<1>2. e * MaxLeafIndex + x \in Nat
  BY <1>1
<1> QED
  BY <1>1, <1>2, DivUnique

\* The epoch in which the prefix of length n ends starts where PrefixRoot says.
LEMMA PrefixStart ==
  ASSUME NEW e \in Nat, NEW c \in 0 .. MaxLeafIndex, c = 0 => e = 0
  PROVE  LET n     == e * MaxLeafIndex + c
             start == IF n = 0 THEN 0 ELSE ((n - 1) \div MaxLeafIndex) * MaxLeafIndex
         IN  n \in Nat /\ start \in Nat /\ start = e * MaxLeafIndex /\ n - start = c
<1> DEFINE m == e * MaxLeafIndex
<1>1. MaxLeafIndex \in Nat \ {0} /\ c \in Nat
  BY Shape
<1>2. m \in Nat
  BY <1>1
<1>3. CASE c = 0
  <2>1. m = 0
    BY <1>1, <1>3
  <2> QED
    BY <1>3, <2>1
<1>4. CASE c # 0
  <2>1. c - 1 \in Slots(0) /\ c \in Nat \ {0}
    BY <1>1, <1>4, Shape DEF Slots
  <2>2. (m + (c - 1)) \div MaxLeafIndex = e
    BY <2>1, Position
  <2> HIDE DEF m
  <2>3. (m + c) - 1 = m + (c - 1) /\ m + c # 0 /\ m + c \in Nat /\ (m + c) - m = c
    BY <1>2, <2>1
  <2>4. ((m + c) - 1) \div MaxLeafIndex = e
    BY <2>2, <2>3
  <2> QED
    BY <1>2, <2>3, <2>4 DEF m
<1> QED
  BY <1>3, <1>4

LEMMA PrefixSplits ==
  ASSUME NEW n \in Nat
  PROVE  \E e \in Nat, c \in 0 .. MaxLeafIndex :
           (c = 0 => e = 0) /\ n = e * MaxLeafIndex + c
<1>1. MaxLeafIndex \in Nat \ {0}
  BY Shape
<1>2. CASE n = 0
  <2>1. n = 0 * MaxLeafIndex + 0
    BY <1>1, <1>2
  <2> QED
    BY <1>1, <2>1
<1>3. CASE n # 0
  <2>1. n - 1 \in Nat
    BY <1>3
  <2>2. PICK e \in Nat : e = (n - 1) \div MaxLeafIndex
    BY <1>1, <2>1, DivMod
  <2>3. PICK r \in 0 .. MaxLeafIndex - 1 : r = (n - 1) % MaxLeafIndex
    BY <1>1, <2>1, DivMod
  <2>4. n - 1 = e * MaxLeafIndex + r
    BY <1>1, <2>1, <2>2, <2>3, DivMod
  <2>5. n = e * MaxLeafIndex + (r + 1) /\ r + 1 \in 0 .. MaxLeafIndex /\ r + 1 # 0
    BY <1>1, <2>4
  <2> QED
    BY <2>5
<1> QED
  BY <1>2, <1>3

\* PrefixRoot of a log.
RootOfPrefix(log, n) ==
  LET start == IF n = 0 THEN 0 ELSE ((n - 1) \div MaxLeafIndex) * MaxLeafIndex
  IN  ReferenceRoot([i \in 0 .. n - start - 1 |-> log[start + i + 1]])

\* The first c leaves of an epoch.
FirstOf(log, e, c) == [x \in 0 .. c - 1 |-> log[e * MaxLeafIndex + x + 1]]

LEMMA PrefixRootIs ==
  ASSUME NEW log, NEW e \in Nat, NEW c \in 0 .. MaxLeafIndex, c = 0 => e = 0
  PROVE  RootOfPrefix(log, e * MaxLeafIndex + c) = ReferenceRoot(FirstOf(log, e, c))
<1> DEFINE m == e * MaxLeafIndex
           n == m + c
           start == IF n = 0 THEN 0 ELSE ((n - 1) \div MaxLeafIndex) * MaxLeafIndex
<1>1. start = m /\ n - start = c
  BY PrefixStart
<1>2. RootOfPrefix(log, n) = ReferenceRoot([i \in 0 .. n - start - 1 |-> log[start + i + 1]])
  BY DEF RootOfPrefix
<1> HIDE DEF n, start
<1>3. RootOfPrefix(log, n) = ReferenceRoot([i \in 0 .. c - 1 |-> log[m + i + 1]])
  BY <1>1, <1>2
<1> QED
  BY <1>3 DEF FirstOf, n

LEMMA FirstKept ==
  ASSUME NEW log \in Seq(Leaves), NEW leaf, NEW e \in Nat, NEW c \in Nat,
         e * MaxLeafIndex + c <= Len(log)
  PROVE  FirstOf(Append(log, leaf), e, c) = FirstOf(log, e, c)
<1>1. e * MaxLeafIndex \in Nat
  BY Shape
<1>2. ASSUME NEW x \in 0 .. c - 1
      PROVE  Append(log, leaf)[e * MaxLeafIndex + x + 1] = log[e * MaxLeafIndex + x + 1]
  <2>1. e * MaxLeafIndex + x + 1 \in 1 .. Len(log)
    BY <1>1
  <2> QED
    BY <2>1
<1> QED
  BY <1>2 DEF FirstOf

LEMMA PrefixRootKept ==
  ASSUME NEW log \in Seq(Leaves), NEW leaf, NEW n \in 0 .. Len(log)
  PROVE  RootOfPrefix(Append(log, leaf), n) = RootOfPrefix(log, n)
<1>1. PICK e \in Nat, c \in 0 .. MaxLeafIndex :
        (c = 0 => e = 0) /\ n = e * MaxLeafIndex + c
  BY PrefixSplits
<1>2. c \in Nat /\ FirstOf(Append(log, leaf), e, c) = FirstOf(log, e, c)
  BY <1>1, Shape, FirstKept
<1> QED
  BY <1>1, <1>2, PrefixRootIs

\* A log that ends in an epoch has that epoch's first leaves at its end.
LEMMA LastEpoch ==
  ASSUME NEW log \in Seq(Leaves), NEW e \in Nat, NEW c \in 0 .. MaxLeafIndex,
         c = 0 => e = 0, Len(log) = e * MaxLeafIndex + c
  PROVE  RootOfPrefix(log, Len(log)) = ReferenceRoot(LeavesOf(log, e))
<1>1. MaxLeafIndex \in Nat /\ Slots(0) = 0 .. MaxLeafIndex - 1 /\ e * MaxLeafIndex \in Nat
  BY Shape DEF Slots
<1>2. ASSUME NEW x \in Slots(0)
      PROVE  Value(FirstOf(log, e, c), x) = Value(LeavesOf(log, e), x)
  <2>1. x \in 0 .. c - 1 <=> e * MaxLeafIndex + x < Len(log)
    BY <1>1
  <2> QED
    BY <2>1 DEF Value, FirstOf, LeavesOf
<1>3. ReferenceRoot(FirstOf(log, e, c)) = ReferenceRoot(LeavesOf(log, e))
  BY <1>2, NodesSame
<1> QED
  BY <1>3, PrefixRootIs

\* Appending puts one leaf into one epoch.
LEMMA AppendPuts ==
  ASSUME NEW log \in Seq(Leaves), NEW leaf \in Leaves, NEW e \in Nat, NEW at \in Slots(0),
         Len(log) = e * MaxLeafIndex + at
  PROVE  /\ Puts(LeavesOf(Append(log, leaf), e), LeavesOf(log, e), at, leaf)
         /\ \A d \in Nat \ {e} : \A x \in Slots(0) :
              Value(LeavesOf(Append(log, leaf), d), x) = Value(LeavesOf(log, d), x)
<1>1. /\ Append(log, leaf) \in Seq(Leaves) /\ Len(Append(log, leaf)) = Len(log) + 1
      /\ Len(log) \in Nat /\ Append(log, leaf)[Len(log) + 1] = leaf
      /\ \A p \in Nat : p < Len(log) => Append(log, leaf)[p + 1] = log[p + 1]
  OBVIOUS
<1>2. \A d \in Nat, x \in Slots(0) :
        /\ d * MaxLeafIndex + x \in Nat
        /\ d * MaxLeafIndex + x = Len(log) => d = e /\ x = at
  <2> TAKE d \in Nat, x \in Slots(0)
  <2>1. /\ d * MaxLeafIndex + x \in Nat
        /\ (d * MaxLeafIndex + x) \div MaxLeafIndex = d
        /\ (d * MaxLeafIndex + x) % MaxLeafIndex = x
    BY Position
  <2>2. Len(log) \div MaxLeafIndex = e /\ Len(log) % MaxLeafIndex = at
    BY Position
  <2> QED
    BY <2>1, <2>2
<1>3. ASSUME NEW d \in Nat, NEW x \in Slots(0), d # e \/ x # at
      PROVE  Value(LeavesOf(Append(log, leaf), d), x) = Value(LeavesOf(log, d), x)
  <2> DEFINE p == d * MaxLeafIndex + x
  <2>1. p \in Nat /\ p # Len(log)
    BY <1>2, <1>3
  <2>2. /\ Value(LeavesOf(log, d), x) = IF p < Len(log) THEN log[p + 1] ELSE ZeroLeaf
        /\ Value(LeavesOf(Append(log, leaf), d), x)
             = IF p < Len(Append(log, leaf)) THEN Append(log, leaf)[p + 1] ELSE ZeroLeaf
    BY DEF Value, LeavesOf
  <2> HIDE DEF p
  <2> QED
    BY <1>1, <2>1, <2>2
<1>4. Value(LeavesOf(Append(log, leaf), e), at) = leaf
  <2>1. e * MaxLeafIndex + at < Len(Append(log, leaf))
    BY <1>1, <1>2
  <2> QED
    BY <1>1, <2>1 DEF Value, LeavesOf
<1> QED
  BY <1>3, <1>4 DEF Puts

-----------------------------------------------------------------------------
(* The contract keeps the invariant *)

LEMMA ReadWritten ==
  ASSUME NEW store, NEW new, NEW key, NEW level
  PROVE  ReadNode(Write(store, new), key, level)
           = IF key \in DOMAIN new THEN new[key] ELSE ReadNode(store, key, level)
BY DEF ReadNode, Write

\* RootIsReference, with the roots computed from the log.
LEMMA RootsOfLog ==
  RootIsReference
    <=> /\ currentRoot = RootOfPrefix(inserted, Len(inserted))
        /\ knownRoots = {RootOfPrefix(inserted, n) : n \in 0 .. Len(inserted)}
BY DEF RootIsReference, PrefixRoot, RootOfPrefix

LEMMA InitTree == Init => TreeInv
<1> SUFFICES ASSUME Init PROVE TreeInv
  OBVIOUS
<1>1. LogInv
  <2>1. 0 * MaxLeafIndex + 0 = 0 /\ 0 \in 0 .. MaxLeafIndex
    BY Shape
  <2> QED
    BY <2>1 DEF Init, LogInv
<1>2. \A e \in Nat : \A i \in Levels : \A j \in Slots(i) :
        ReferenceNodes(LeavesOf(inserted, e))[i][j] = zeros[i]
  <2> TAKE e \in Nat
  <2>1. \A x \in Slots(0) : ~ (e * MaxLeafIndex + x < Len(inserted))
    <3>1. Len(inserted) = 0
      BY DEF Init
    <3> QED
      BY <3>1, Position
  <2>2. \A x \in Slots(0) : Value(LeavesOf(inserted, e), x) = ZeroLeaf
    BY <2>1 DEF Value, LeavesOf
  <2> QED
    BY <2>2, NodesEmpty
<1>3. StoreInv
  <2>1. \A key : key \notin DOMAIN filledSubtrees
    BY DEF Init
  <2> QED
    BY <1>2, <2>1 DEF StoreInv, ReadNode, Empty
<1>4. RootOfPrefix(inserted, 0) = zeros[Top] /\ Len(inserted) = 0
  <2>1. RootOfPrefix(inserted, Len(inserted)) = ReferenceRoot(LeavesOf(inserted, 0))
    <3>1. inserted \in Seq(Leaves) /\ Len(inserted) = 0 * MaxLeafIndex + 0
          /\ 0 \in 0 .. MaxLeafIndex
      BY <1>1, Shape DEF Init, LogInv
    <3> QED
      BY <3>1, LastEpoch
  <2>2. Top \in Levels /\ 0 \in Slots(Top)
    BY Shape DEF Slots
  <2> QED
    BY <1>2, <2>1, <2>2 DEF Init, ReferenceRoot
<1>5. RootIsReference
  <2>1. {RootOfPrefix(inserted, n) : n \in 0 .. 0} = {RootOfPrefix(inserted, 0)}
    OBVIOUS
  <2> QED
    BY <1>4, <2>1, RootsOfLog DEF Init
<1> QED
  BY <1>1, <1>3, <1>5 DEF TreeInv

\* Where the next leaf goes.
NextEpoch == IF Full THEN epoch + 1 ELSE epoch
NextSlot == IF Full THEN 0 ELSE nextIndex

LEMMA NextPlace ==
  ASSUME LogInv
  PROVE  /\ NextEpoch \in Nat /\ NextSlot \in Slots(0)
         /\ Len(inserted) = NextEpoch * MaxLeafIndex + NextSlot
<1>1. MaxLeafIndex \in Nat \ {0} /\ Slots(0) = 0 .. MaxLeafIndex - 1
  BY Shape DEF Slots
<1>2. CASE Full
  <2>1. (epoch + 1) * MaxLeafIndex + 0 = epoch * MaxLeafIndex + MaxLeafIndex
    BY <1>1 DEF LogInv
  <2> QED
    BY <1>1, <1>2, <2>1 DEF LogInv, Full, NextEpoch, NextSlot
<1>3. CASE ~ Full
  BY <1>1, <1>3 DEF LogInv, Full, NextEpoch, NextSlot
<1> QED
  BY <1>2, <1>3

\* The siblings and the nodes of the path of the next leaf.
InsertSiblings ==
  [i \in Levels |-> ReadNode(filledSubtrees,
                             StorageKey(NextEpoch, i, Beside(NextSlot, i)), i)]
InsertKeys == [i \in Levels |-> StorageKey(NextEpoch, i, Above(NextSlot, i))]
InsertPath(leaf) == Climb(leaf, NextSlot, InsertSiblings)
InsertNodes(leaf) ==
  [k \in Range(InsertKeys) |-> InsertPath(leaf)[CHOOSE i \in Levels : InsertKeys[i] = k]]

LEMMA InsertIs ==
  ASSUME NEW leaf, Insert(leaf)
  PROVE  /\ epoch' = NextEpoch /\ nextIndex' = NextSlot + 1
         /\ filledSubtrees' = Write(filledSubtrees, InsertNodes(leaf))
         /\ currentRoot' = InsertPath(leaf)[Top]
         /\ knownRoots' = knownRoots \cup {InsertPath(leaf)[Top]}
         /\ inserted' = Append(inserted, leaf)
         /\ UNCHANGED offChain
BY DEF Insert, NextEpoch, NextSlot, InsertSiblings, InsertKeys, InsertPath, InsertNodes

\* The keys written are those of the path, each with the node of its level.
LEMMA InsertWrites ==
  ASSUME NEW leaf, NEW d, NEW i \in Levels, NEW j
  PROVE  LET key == StorageKey(d, i, j)
         IN  /\ key \in DOMAIN InsertNodes(leaf)
                  <=> d = NextEpoch /\ j = Above(NextSlot, i)
             /\ key \in DOMAIN InsertNodes(leaf)
                  => InsertNodes(leaf)[key] = InsertPath(leaf)[i]
<1> DEFINE key == StorageKey(d, i, j)
<1>1. \A k \in Levels : InsertKeys[k] = key
                          <=> d = NextEpoch /\ k = i /\ j = Above(NextSlot, k)
  BY DEF InsertKeys, StorageKey
<1>2. DOMAIN InsertNodes(leaf) = {InsertKeys[k] : k \in Levels}
  BY DEF InsertNodes, InsertKeys, Range
<1>3. key \in DOMAIN InsertNodes(leaf) <=> d = NextEpoch /\ j = Above(NextSlot, i)
  <2> HIDE DEF key
  <2> QED
    BY <1>1, <1>2
<1>4. ASSUME key \in DOMAIN InsertNodes(leaf)
      PROVE  InsertNodes(leaf)[key] = InsertPath(leaf)[i]
  <2>1. (CHOOSE k \in Levels : InsertKeys[k] = key) = i
    <3> HIDE DEF key
    <3> QED
      BY <1>1, <1>3, <1>4
  <2>2. InsertNodes(leaf)[key]
          = InsertPath(leaf)[CHOOSE k \in Levels : InsertKeys[k] = key]
    <3> HIDE DEF key
    <3> QED
      BY <1>4 DEF InsertNodes
  <2> HIDE DEF key
  <2> QED
    BY <2>1, <2>2
<1> QED
  BY <1>3, <1>4

LEMMA InsertLog ==
  ASSUME LogInv, NEW leaf \in Leaves, Insert(leaf)
  PROVE  LogInv'
<1>1. /\ NextEpoch \in Nat /\ NextSlot \in Slots(0)
      /\ Len(inserted) = NextEpoch * MaxLeafIndex + NextSlot
  BY NextPlace
<1>2. NextSlot + 1 \in 0 .. MaxLeafIndex /\ NextSlot + 1 # 0
  BY <1>1, Shape DEF Slots
<1>3. Append(inserted, leaf) \in Seq(Leaves) /\ Len(Append(inserted, leaf)) = Len(inserted) + 1
  BY DEF LogInv
<1>4. Len(Append(inserted, leaf)) = NextEpoch * MaxLeafIndex + (NextSlot + 1)
  <2>1. NextEpoch * MaxLeafIndex \in Nat /\ NextSlot \in Nat
    BY <1>1, Shape DEF Slots
  <2> QED
    BY <1>1, <1>3, <2>1
<1> QED
  BY <1>1, <1>2, <1>3, <1>4, InsertIs DEF LogInv

\* The path that an insertion computes is that of the new reference tree.
LEMMA InsertClimbs ==
  ASSUME LogInv, StoreInv, NEW leaf \in Leaves
  PROVE  \A i \in Levels :
           InsertPath(leaf)[i]
             = ReferenceNodes(LeavesOf(Append(inserted, leaf), NextEpoch))[i][Above(NextSlot, i)]
<1>1. /\ NextEpoch \in Nat /\ NextSlot \in Slots(0)
      /\ Len(inserted) = NextEpoch * MaxLeafIndex + NextSlot
  BY NextPlace
<1>2. Puts(LeavesOf(Append(inserted, leaf), NextEpoch), LeavesOf(inserted, NextEpoch),
           NextSlot, leaf)
  BY <1>1, AppendPuts DEF LogInv
<1>3. SiblingsIn(InsertSiblings, LeavesOf(inserted, NextEpoch), NextSlot)
  <2> SUFFICES ASSUME NEW i \in 0 .. Top - 1
               PROVE  InsertSiblings[i]
                        = ReferenceNodes(LeavesOf(inserted, NextEpoch))[i][Beside(NextSlot, i)]
    BY DEF SiblingsIn
  <2>1. i \in Levels /\ Beside(NextSlot, i) \in Slots(i)
    BY <1>1, Siblings
  <2> QED
    BY <1>1, <2>1 DEF InsertSiblings, StoreInv
<1> QED
  BY <1>1, <1>2, <1>3, ClimbUpdates DEF InsertPath

LEMMA InsertStore ==
  ASSUME LogInv, StoreInv, NEW leaf \in Leaves, Insert(leaf)
  PROVE  StoreInv'
<1>1. /\ NextEpoch \in Nat /\ NextSlot \in Slots(0)
      /\ Len(inserted) = NextEpoch * MaxLeafIndex + NextSlot
  BY NextPlace
<1>2. /\ Puts(LeavesOf(Append(inserted, leaf), NextEpoch), LeavesOf(inserted, NextEpoch),
              NextSlot, leaf)
      /\ \A d \in Nat \ {NextEpoch} : \A x \in Slots(0) :
           Value(LeavesOf(Append(inserted, leaf), d), x) = Value(LeavesOf(inserted, d), x)
  BY <1>1, AppendPuts DEF LogInv
<1>3. ASSUME NEW d \in Nat, NEW i \in Levels, NEW j \in Slots(i)
      PROVE  ReadNode(Write(filledSubtrees, InsertNodes(leaf)), StorageKey(d, i, j), i)
               = ReferenceNodes(LeavesOf(Append(inserted, leaf), d))[i][j]
  <2> DEFINE key == StorageKey(d, i, j)
  <2>1. ReadNode(filledSubtrees, key, i) = ReferenceNodes(LeavesOf(inserted, d))[i][j]
    BY DEF StoreInv
  <2>2. /\ key \in DOMAIN InsertNodes(leaf) <=> d = NextEpoch /\ j = Above(NextSlot, i)
        /\ key \in DOMAIN InsertNodes(leaf) => InsertNodes(leaf)[key] = InsertPath(leaf)[i]
    BY InsertWrites
  <2> HIDE DEF key
  <2>3. CASE d = NextEpoch /\ j = Above(NextSlot, i)
    <3>1. ReadNode(Write(filledSubtrees, InsertNodes(leaf)), key, i) = InsertPath(leaf)[i]
      BY <2>2, <2>3, ReadWritten
    <3> QED
      BY <2>3, <3>1, InsertClimbs DEF key
  <2>4. CASE d = NextEpoch /\ j # Above(NextSlot, i)
    <3>1. ReferenceNodes(LeavesOf(Append(inserted, leaf), d))[i][j]
            = ReferenceNodes(LeavesOf(inserted, d))[i][j]
      BY <1>1, <1>2, <2>4, NodesBeside
    <3> QED
      BY <2>1, <2>2, <2>4, <3>1, ReadWritten DEF key
  <2>5. CASE d # NextEpoch
    <3>1. ReferenceNodes(LeavesOf(Append(inserted, leaf), d))[i][j]
            = ReferenceNodes(LeavesOf(inserted, d))[i][j]
      <4>1. \A x \in Slots(0) :
              Value(LeavesOf(Append(inserted, leaf), d), x) = Value(LeavesOf(inserted, d), x)
        BY <1>2, <2>5
      <4> QED
        BY <4>1, NodesSame
    <3> QED
      BY <2>1, <2>2, <2>5, <3>1, ReadWritten DEF key
  <2> QED
    BY <2>3, <2>4, <2>5
<1>4. inserted' = Append(inserted, leaf)
      /\ filledSubtrees' = Write(filledSubtrees, InsertNodes(leaf))
  BY InsertIs
<1> QED
  BY <1>3, <1>4 DEF StoreInv

LEMMA InsertRoots ==
  ASSUME LogInv, StoreInv, RootIsReference, NEW leaf \in Leaves, Insert(leaf)
  PROVE  RootIsReference'
<1> DEFINE log == Append(inserted, leaf)
           root == InsertPath(leaf)[Top]
<1>1. /\ NextEpoch \in Nat /\ NextSlot \in Slots(0)
      /\ Len(inserted) = NextEpoch * MaxLeafIndex + NextSlot
  BY NextPlace
<1>2. log \in Seq(Leaves) /\ Len(log) = Len(inserted) + 1 /\ Len(inserted) \in Nat
  BY DEF LogInv
<1>3. root = ReferenceRoot(LeavesOf(log, NextEpoch))
  <2>1. Top \in Levels /\ Slots(Top) = {0} /\ Above(NextSlot, Top) \in Slots(Top)
    BY <1>1, AboveInside, Shape DEF Slots
  <2>2. Above(NextSlot, Top) = 0
    BY <2>1
  <2> QED
    BY <2>1, <2>2, InsertClimbs DEF ReferenceRoot
<1>4. RootOfPrefix(log, Len(log)) = ReferenceRoot(LeavesOf(log, NextEpoch))
  <2>1. NextSlot + 1 \in 0 .. MaxLeafIndex /\ NextSlot + 1 # 0 /\ NextSlot \in Nat
        /\ NextEpoch * MaxLeafIndex \in Nat
    BY <1>1, Shape DEF Slots
  <2>2. Len(log) = NextEpoch * MaxLeafIndex + (NextSlot + 1)
    <3> HIDE DEF log
    <3> QED
      BY <1>1, <1>2, <2>1
  <2> HIDE DEF log
  <2> QED
    BY <1>1, <1>2, <2>1, <2>2, LastEpoch
<1>5. \A n \in 0 .. Len(inserted) : RootOfPrefix(log, n) = RootOfPrefix(inserted, n)
  BY PrefixRootKept DEF LogInv
<1>6. knownRoots = {RootOfPrefix(inserted, n) : n \in 0 .. Len(inserted)}
  BY RootsOfLog
<1>7. inserted' = log /\ currentRoot' = root /\ knownRoots' = knownRoots \cup {root}
  BY InsertIs
<1>8. RootIsReference'
        = (/\ currentRoot' = RootOfPrefix(inserted', Len(inserted'))
           /\ knownRoots' = {RootOfPrefix(inserted', n) : n \in 0 .. Len(inserted')})
  BY DEF RootIsReference, PrefixRoot, RootOfPrefix
<1> HIDE DEF log, root
<1>9. 0 .. Len(log) = (0 .. Len(inserted)) \cup {Len(log)}
  BY <1>2
<1>10. {RootOfPrefix(log, n) : n \in 0 .. Len(log)}
         = {RootOfPrefix(inserted, n) : n \in 0 .. Len(inserted)} \cup {root}
  BY <1>3, <1>4, <1>5, <1>9
<1> QED
  BY <1>3, <1>4, <1>6, <1>7, <1>8, <1>10

LEMMA NextTree == TreeInv /\ [Next]_vars => TreeInv'
<1> SUFFICES ASSUME TreeInv, [Next]_vars PROVE TreeInv'
  OBVIOUS
<1> USE DEF TreeInv
<1>1. CASE \E leaf \in Leaves : Insert(leaf)
  BY <1>1, InsertLog, InsertStore, InsertRoots
<1>2. CASE UNCHANGED onChain
  <2>1. LogInv'
    BY <1>2 DEF onChain, LogInv
  <2>2. StoreInv'
    BY <1>2 DEF onChain, StoreInv
  <2>3. RootIsReference'
    BY <1>2 DEF onChain, RootIsReference, PrefixRoot
  <2> QED
    BY <2>1, <2>2, <2>3
<1> QED
  BY <1>1, <1>2 DEF Next, MirrorEpoch, MirrorInsert, vars

-----------------------------------------------------------------------------
(* The wallet's copy *)

\* A leaf that an epoch has is in the tree, and in the log where LeafAt looks.
LEMMA EpochInLog ==
  ASSUME LogInv, NEW e \in 0 .. epoch, NEW x \in 0 .. EpochSize(e) - 1
  PROVE  /\ x \in Slots(0) /\ e \in Nat
         /\ e * MaxLeafIndex + x + 1 \in 1 .. Len(inserted)
         /\ LeafAt(e, x) \in Leaves
<1>1. MaxLeafIndex \in Nat \ {0} /\ Slots(0) = 0 .. MaxLeafIndex - 1
  BY Shape DEF Slots
<1>2. epoch \in Nat /\ e \in Nat /\ nextIndex \in 0 .. MaxLeafIndex
      /\ Len(inserted) = epoch * MaxLeafIndex + nextIndex
  BY DEF LogInv
<1>3. x \in Slots(0)
  BY <1>1, <1>2 DEF EpochSize
<1>4. e * MaxLeafIndex \in Nat /\ x \in Nat
  BY <1>1, <1>2, <1>3
<1>5. e * MaxLeafIndex + x + 1 <= Len(inserted)
  <2>1. CASE e < epoch
    <3>1. PICK k \in Nat : epoch = e + 1 + k
      <4>1. epoch - e - 1 \in Nat /\ epoch = e + 1 + (epoch - e - 1)
        BY <1>2, <2>1
      <4> QED
        BY <4>1
    <3>2. epoch * MaxLeafIndex = e * MaxLeafIndex + MaxLeafIndex + k * MaxLeafIndex
          /\ k * MaxLeafIndex \in Nat
      BY <1>1, <1>2, <3>1
    <3> QED
      BY <1>1, <1>2, <1>3, <1>4, <3>2
  <2>2. CASE e = epoch
    <3>1. x \in 0 .. nextIndex - 1
      BY <1>2, <2>2 DEF EpochSize
    <3> QED
      BY <1>1, <1>2, <1>4, <2>2, <3>1
  <2> QED
    BY <1>2, <2>1, <2>2
<1>6. e * MaxLeafIndex + x + 1 \in 1 .. Len(inserted)
  <2>1. inserted \in Seq(Leaves)
    BY DEF LogInv
  <2> QED
    BY <1>4, <1>5, <2>1
<1>7. LeafAt(e, x) \in Leaves
  <2>1. inserted \in Seq(Leaves)
    BY DEF LogInv
  <2> QED
    BY <1>6, <2>1 DEF LeafAt
<1> QED
  BY <1>2, <1>3, <1>6, <1>7

\* What MirrorHas and MirrorLeaves read off a copy and a log.
HasOf(copy) == {k[2] : k \in {key \in DOMAIN copy : key[1] = 0}}
Among(log, e, has) == [x \in has |-> log[e * MaxLeafIndex + x + 1]]
NodesOf(copy, leafAt) ==
  \A i \in Levels : \A j \in Slots(i) :
    ReadNode(copy, <<i, j>>, i) = ReferenceNodes(leafAt)[i][j]

LEMMA MirrorIs ==
  MirrorInv <=> /\ mirrorEpoch \in 0 .. epoch
                /\ HasOf(mirror) \subseteq 0 .. EpochSize(mirrorEpoch) - 1
                /\ NodesOf(mirror, Among(inserted, mirrorEpoch, HasOf(mirror)))
BY DEF MirrorInv, MirrorHas, MirrorLeaves, LeafAt, HasOf, Among, NodesOf

\* A copy with no leaf yet.
LEMMA MirrorEmpty ==
  ASSUME NEW log, NEW e
  PROVE  HasOf(<< >>) = {} /\ NodesOf(<< >>, Among(log, e, HasOf(<< >>)))
<1>1. HasOf(<< >>) = {}
  BY DEF HasOf
<1>2. \A x \in Slots(0) : Value(Among(log, e, {}), x) = ZeroLeaf
  BY DEF Value, Among
<1>3. \A i \in Levels : \A j \in Slots(i) : ReferenceNodes(Among(log, e, {}))[i][j] = zeros[i]
  BY <1>2, NodesEmpty
<1>4. \A key, level : ReadNode(<< >>, key, level) = zeros[level]
  BY DEF ReadNode, Empty
<1> QED
  BY <1>1, <1>3, <1>4 DEF NodesOf

LEMMA InitMirror == Init => MirrorInv
<1> SUFFICES ASSUME Init PROVE MirrorInv
  OBVIOUS
<1>1. mirrorEpoch \in 0 .. epoch /\ mirror = << >>
  BY DEF Init
<1> QED
  BY <1>1, MirrorEmpty, MirrorIs

\* The contract's steps leave the copy right: the log only grows.
LEMMA InsertMirror ==
  ASSUME TreeInv, MirrorInv, NEW leaf \in Leaves, Insert(leaf)
  PROVE  MirrorInv'
<1> DEFINE has == HasOf(mirror)
           e == mirrorEpoch
<1>1. LogInv
  BY DEF TreeInv
<1>2. /\ epoch \in Nat /\ e \in 0 .. epoch /\ has \subseteq 0 .. EpochSize(e) - 1
      /\ NodesOf(mirror, Among(inserted, e, has))
  BY <1>1, MirrorIs DEF LogInv
<1>3. mirrorEpoch' = e /\ mirror' = mirror /\ inserted' = Append(inserted, leaf)
      /\ epoch' = NextEpoch /\ nextIndex' = NextSlot + 1
  BY InsertIs DEF offChain
<1>4. e \in 0 .. NextEpoch
  BY <1>2 DEF NextEpoch
<1>5. has \subseteq 0 .. (IF e < NextEpoch THEN MaxLeafIndex ELSE NextSlot + 1) - 1
  <2>1. MaxLeafIndex \in Nat /\ nextIndex \in 0 .. MaxLeafIndex
    BY <1>1, Shape DEF LogInv
  <2> HIDE DEF has, e
  <2> QED
    BY <1>2, <2>1 DEF EpochSize, NextEpoch, NextSlot, Full
<1>6. Among(Append(inserted, leaf), e, has) = Among(inserted, e, has)
  <2>1. ASSUME NEW x \in has
        PROVE  Append(inserted, leaf)[e * MaxLeafIndex + x + 1]
                 = inserted[e * MaxLeafIndex + x + 1]
    <3>1. e * MaxLeafIndex + x + 1 \in 1 .. Len(inserted) /\ inserted \in Seq(Leaves)
      BY <1>1, <1>2, EpochInLog DEF LogInv
    <3> QED
      BY <3>1
  <2> QED
    BY <2>1 DEF Among
<1>7. MirrorInv' <=> /\ mirrorEpoch' \in 0 .. epoch'
                     /\ HasOf(mirror') \subseteq
                          0 .. (IF mirrorEpoch' < epoch' THEN MaxLeafIndex ELSE nextIndex') - 1
                     /\ NodesOf(mirror', Among(inserted', mirrorEpoch', HasOf(mirror')))
  BY DEF MirrorInv, MirrorHas, MirrorLeaves, LeafAt, HasOf, Among, NodesOf, EpochSize
<1> QED
  BY <1>2, <1>3, <1>4, <1>5, <1>6, <1>7

LEMMA MirrorEpochMirror ==
  ASSUME TreeInv, NEW e \in 0 .. epoch, MirrorEpoch(e)
  PROVE  MirrorInv'
<1>1. mirrorEpoch' = e /\ mirror' = << >> /\ epoch' = epoch
  BY DEF MirrorEpoch, onChain
<1>2. MirrorInv' <=> /\ mirrorEpoch' \in 0 .. epoch'
                     /\ HasOf(mirror') \subseteq
                          0 .. (IF mirrorEpoch' < epoch' THEN MaxLeafIndex ELSE nextIndex') - 1
                     /\ NodesOf(mirror', Among(inserted', mirrorEpoch', HasOf(mirror')))
  BY DEF MirrorInv, MirrorHas, MirrorLeaves, LeafAt, HasOf, Among, NodesOf, EpochSize
<1> QED
  BY <1>1, <1>2, MirrorEmpty

\* The nodes that a copy gets with the leaf at index.
MirrorPath(index) == Climb(LeafAt(mirrorEpoch, index), index, GetProof(index))
MirrorNodes(index) ==
  [k \in {<<i, Above(index, i)>> : i \in Levels} |-> MirrorPath(index)[k[1]]]

LEMMA MirrorWrites ==
  ASSUME NEW index, NEW i \in Levels, NEW j
  PROVE  /\ <<i, j>> \in DOMAIN MirrorNodes(index) <=> j = Above(index, i)
         /\ <<i, j>> \in DOMAIN MirrorNodes(index)
              => MirrorNodes(index)[<<i, j>>] = MirrorPath(index)[i]
<1>1. <<i, j>> \in DOMAIN MirrorNodes(index) <=> j = Above(index, i)
  BY DEF MirrorNodes
<1>2. ASSUME <<i, j>> \in DOMAIN MirrorNodes(index)
      PROVE  MirrorNodes(index)[<<i, j>>] = MirrorPath(index)[i]
  BY <1>2 DEF MirrorNodes
<1> QED
  BY <1>1, <1>2

\* The proof that a copy gives for a position has the siblings of its tree.
LEMMA ProofSiblings ==
  ASSUME MirrorInv, NEW index \in Slots(0)
  PROVE  SiblingsIn(GetProof(index), Among(inserted, mirrorEpoch, HasOf(mirror)), index)
<1> SUFFICES ASSUME NEW i \in 0 .. Top - 1
             PROVE  GetProof(index)[i]
                      = ReferenceNodes(Among(inserted, mirrorEpoch, HasOf(mirror)))
                          [i][Beside(index, i)]
  BY DEF SiblingsIn
<1>1. i \in Levels /\ Beside(index, i) \in Slots(i)
  BY Siblings
<1>2. GetProof(index)[i] = ReadNode(mirror, <<i, Beside(index, i)>>, i)
  BY <1>1 DEF GetProof
<1>3. NodesOf(mirror, Among(inserted, mirrorEpoch, HasOf(mirror)))
  BY MirrorIs
<1> QED
  BY <1>1, <1>2, <1>3 DEF NodesOf

LEMMA MirrorInsertMirror ==
  ASSUME TreeInv, MirrorInv, NEW index \in 0 .. EpochSize(mirrorEpoch) - 1, MirrorInsert(index)
  PROVE  MirrorInv'
<1> DEFINE e == mirrorEpoch
           has == HasOf(mirror)
           f == Among(inserted, e, has)
           g == Among(inserted, e, has \cup {index})
           leaf == LeafAt(e, index)
<1>1. LogInv
  BY DEF TreeInv
<1>2. e \in 0 .. epoch /\ has \subseteq 0 .. EpochSize(e) - 1 /\ NodesOf(mirror, f)
  BY MirrorIs
<1>3. index \in Slots(0)
  BY <1>1, <1>2, EpochInLog
<1>4. Puts(g, f, index, leaf)
  BY DEF Puts, Value, Among, LeafAt
<1>5. SiblingsIn(GetProof(index), f, index)
  BY <1>3, ProofSiblings
<1>6. \A i \in Levels : MirrorPath(index)[i] = ReferenceNodes(g)[i][Above(index, i)]
  <2>1. MirrorPath(index) = Climb(leaf, index, GetProof(index))
    BY DEF MirrorPath
  <2> HIDE DEF f, g, leaf
  <2> QED
    BY <1>3, <1>4, <1>5, <2>1, ClimbUpdates
<1>7. NodesOf(Write(mirror, MirrorNodes(index)), g)
  <2> HIDE DEF f, g
  <2> SUFFICES ASSUME NEW i \in Levels, NEW j \in Slots(i)
               PROVE  ReadNode(Write(mirror, MirrorNodes(index)), <<i, j>>, i)
                        = ReferenceNodes(g)[i][j]
    BY DEF NodesOf
  <2>1. ReadNode(mirror, <<i, j>>, i) = ReferenceNodes(f)[i][j]
    BY <1>2 DEF NodesOf
  <2>2. CASE j = Above(index, i)
    BY <1>6, <2>2, MirrorWrites, ReadWritten
  <2>3. CASE j # Above(index, i)
    <3>1. ReferenceNodes(g)[i][j] = ReferenceNodes(f)[i][j]
      BY <1>3, <1>4, <2>3, NodesBeside
    <3> QED
      BY <2>1, <2>3, <3>1, MirrorWrites, ReadWritten
  <2> QED
    BY <2>2, <2>3
<1>8. HasOf(Write(mirror, MirrorNodes(index))) = has \cup {index}
  <2>1. DOMAIN Write(mirror, MirrorNodes(index))
          = DOMAIN mirror \cup {<<i, Above(index, i)>> : i \in Levels}
    BY DEF Write, MirrorNodes
  <2>2. 0 \in Levels /\ Above(index, 0) = index
    BY <1>3, AboveInside, AboveZero, Shape
  <2> DEFINE new == {<<i, Above(index, i)>> : i \in Levels}
  <2>3. {k \in new : k[1] = 0} = {<<0, index>>}
    <3>1. <<0, index>> \in new
      BY <2>2
    <3>2. \A k \in new : k[1] = 0 => k = <<0, index>>
      BY <2>2
    <3>3. <<0, index>>[1] = 0
      OBVIOUS
    <3> HIDE DEF new
    <3> QED
      BY <3>1, <3>2, <3>3
  <2> HIDE DEF new
  <2>4. {k \in DOMAIN mirror \cup new : k[1] = 0}
          = {k \in DOMAIN mirror : k[1] = 0} \cup {<<0, index>>}
    BY <2>3
  <2>5. HasOf(Write(mirror, MirrorNodes(index)))
          = {k[2] : k \in {key \in DOMAIN mirror : key[1] = 0} \cup {<<0, index>>}}
    BY <2>1, <2>4 DEF HasOf, new
  <2>6. ASSUME NEW A
        PROVE  {k[2] : k \in A \cup {<<0, index>>}} = {k[2] : k \in A} \cup {index}
    <3>1. <<0, index>>[2] = index
      OBVIOUS
    <3> DEFINE k0 == <<0, index>>
    <3> HIDE DEF k0
    <3>2. {k[2] : k \in A \cup {k0}} = {k[2] : k \in A} \cup {k0[2]}
      OBVIOUS
    <3> QED
      BY <3>1, <3>2 DEF k0
  <2> QED
    BY <2>5, <2>6 DEF HasOf
<1>9. mirrorEpoch' = e /\ mirror' = Write(mirror, MirrorNodes(index))
      /\ epoch' = epoch /\ nextIndex' = nextIndex /\ inserted' = inserted
  BY DEF MirrorInsert, onChain, MirrorNodes, MirrorPath
<1>10. MirrorInv' <=> /\ mirrorEpoch' \in 0 .. epoch'
                      /\ HasOf(mirror') \subseteq
                           0 .. (IF mirrorEpoch' < epoch' THEN MaxLeafIndex ELSE nextIndex') - 1
                      /\ NodesOf(mirror', Among(inserted', mirrorEpoch', HasOf(mirror')))
  BY DEF MirrorInv, MirrorHas, MirrorLeaves, LeafAt, HasOf, Among, NodesOf, EpochSize
<1>11. has \cup {index} \subseteq 0 .. (IF e < epoch THEN MaxLeafIndex ELSE nextIndex) - 1
  BY <1>2 DEF EpochSize
<1> HIDE DEF has
<1> QED
  BY <1>2, <1>7, <1>8, <1>9, <1>10, <1>11

LEMMA NextMirror == TreeInv /\ MirrorInv /\ [Next]_vars => MirrorInv'
<1> SUFFICES ASSUME TreeInv, MirrorInv, [Next]_vars PROVE MirrorInv'
  OBVIOUS
<1>1. CASE UNCHANGED vars
  BY <1>1 DEF vars, onChain, offChain, MirrorInv, MirrorHas, MirrorLeaves, LeafAt, EpochSize
<1>2. CASE \E leaf \in Leaves : Insert(leaf)
  BY <1>2, InsertMirror
<1>3. CASE \E e \in 0 .. epoch : MirrorEpoch(e)
  BY <1>3, MirrorEpochMirror
<1>4. CASE \E index \in 0 .. EpochSize(mirrorEpoch) - 1 : MirrorInsert(index)
  BY <1>4, MirrorInsertMirror
<1> QED
  BY <1>1, <1>2, <1>3, <1>4 DEF Next

-----------------------------------------------------------------------------
(* What the invariant says to wallets *)

\* The copy's root, and what its proofs open to.
LEMMA MirrorOpens ==
  ASSUME TreeInv, MirrorInv
  PROVE  /\ GetRoot = ReferenceRoot(MirrorLeaves)
         /\ \A x \in MirrorHas : OpenedRoot(LeafAt(mirrorEpoch, x), x) = GetRoot
<1> DEFINE f == Among(inserted, mirrorEpoch, HasOf(mirror))
<1>1. LogInv /\ MirrorHas = HasOf(mirror) /\ MirrorLeaves = f
  BY DEF TreeInv, MirrorHas, HasOf, MirrorLeaves, Among, LeafAt
<1>2. /\ mirrorEpoch \in 0 .. epoch /\ HasOf(mirror) \subseteq 0 .. EpochSize(mirrorEpoch) - 1
      /\ NodesOf(mirror, f)
  BY MirrorIs
<1>3. Top \in Levels /\ Slots(Top) = {0}
  BY Shape DEF Slots
<1>4. GetRoot = ReferenceRoot(f)
  <2> HIDE DEF f
  <2> QED
    BY <1>2, <1>3 DEF GetRoot, NodesOf, ReferenceRoot
<1>5. ASSUME NEW x \in MirrorHas
      PROVE  OpenedRoot(LeafAt(mirrorEpoch, x), x) = GetRoot
  <2>1. x \in Slots(0)
    BY <1>1, <1>2, EpochInLog
  <2>2. Above(x, Top) = 0
    BY <1>3, <2>1, AboveInside
  <2>3. Puts(f, f, x, LeafAt(mirrorEpoch, x))
    BY <1>1 DEF Puts, Value, Among, LeafAt
  <2>4. SiblingsIn(GetProof(x), f, x)
    BY <2>1, ProofSiblings
  <2> HIDE DEF f
  <2>5. Climb(LeafAt(mirrorEpoch, x), x, GetProof(x))[Top] = ReferenceNodes(f)[Top][Above(x, Top)]
    BY <1>3, <2>1, <2>3, <2>4, ClimbUpdates
  <2> QED
    BY <1>4, <2>2, <2>5 DEF OpenedRoot, ReferenceRoot
<1> QED
  BY <1>1, <1>4, <1>5

\* The copy's root is one the contract knows only if what arrived is a prefix of
\* the epoch: the root determines the leaves, and no leaf is the zero leaf.
LEMMA KnownIsPrefix ==
  ASSUME TreeInv, MirrorInv, GetRoot \in knownRoots
  PROVE  \E c \in Nat : MirrorHas = 0 .. c - 1
<1>1. LogInv /\ RootIsReference /\ inserted \in Seq(Leaves)
  BY DEF TreeInv, LogInv
<1>2. PICK n \in 0 .. Len(inserted) : GetRoot = RootOfPrefix(inserted, n)
  BY <1>1, RootsOfLog
<1>3. PICK e \in Nat, c \in 0 .. MaxLeafIndex :
        (c = 0 => e = 0) /\ n = e * MaxLeafIndex + c
  BY <1>1, PrefixSplits
<1>4. ReferenceRoot(MirrorLeaves) = ReferenceRoot(FirstOf(inserted, e, c))
  BY <1>2, <1>3, MirrorOpens, PrefixRootIs
<1>5. \A x \in Slots(0) : Value(MirrorLeaves, x) = Value(FirstOf(inserted, e, c), x)
  BY <1>4, RootDetermines
<1>6. /\ MaxLeafIndex \in Nat /\ Slots(0) = 0 .. MaxLeafIndex - 1
      /\ e * MaxLeafIndex \in Nat /\ c \in Nat
  BY Shape DEF Slots
<1>7. \A x \in MirrorHas : x \in Slots(0) /\ MirrorLeaves[x] \in Leaves
  BY <1>1, EpochInLog DEF MirrorInv, MirrorLeaves
<1>8. \A x \in 0 .. c - 1 : x \in Slots(0) /\ FirstOf(inserted, e, c)[x] \in Leaves
  <2> TAKE x \in 0 .. c - 1
  <2>1. x \in Slots(0)
    BY <1>6
  <2>2. e * MaxLeafIndex + x + 1 \in 1 .. Len(inserted)
    BY <1>1, <1>3, <1>6
  <2> QED
    BY <1>1, <2>1, <2>2 DEF FirstOf
<1>9. \A x \in Slots(0) : x \in MirrorHas <=> Value(MirrorLeaves, x) \in Leaves
  BY <1>7, MerkleTreeAssumption DEF Value, MirrorLeaves
<1>10. \A x \in Slots(0) : x \in 0 .. c - 1 <=> Value(FirstOf(inserted, e, c), x) \in Leaves
  BY <1>8, MerkleTreeAssumption DEF Value, FirstOf
<1>11. MirrorHas = 0 .. c - 1
  BY <1>5, <1>7, <1>8, <1>9, <1>10
<1> QED
  BY <1>6, <1>11

\* A copy of a prefix of its epoch has the root the contract had then.
LEMMA PrefixIsKnown ==
  ASSUME TreeInv, MirrorInv, NEW c \in Nat, MirrorHas = 0 .. c - 1
  PROVE  GetRoot \in knownRoots
<1>1. LogInv /\ RootIsReference
  BY DEF TreeInv
<1>2. mirrorEpoch \in 0 .. epoch /\ MirrorHas \subseteq 0 .. EpochSize(mirrorEpoch) - 1
  BY DEF MirrorInv
<1>3. MaxLeafIndex \in Nat /\ Slots(0) = 0 .. MaxLeafIndex - 1
  BY Shape DEF Slots
<1>4. CASE c = 0
  <2>1. \A x \in Slots(0) :
          /\ Value(MirrorLeaves, x) = ZeroLeaf
          /\ Value(FirstOf(inserted, 0, 0), x) = ZeroLeaf
    BY <1>4 DEF Value, MirrorLeaves, FirstOf
  <2>2. ReferenceRoot(MirrorLeaves) = ReferenceRoot(FirstOf(inserted, 0, 0))
    BY <2>1, NodesSame
  <2>3. 0 * MaxLeafIndex + 0 = 0 /\ 0 \in 0 .. MaxLeafIndex /\ 0 \in 0 .. Len(inserted)
    BY <1>1, <1>3 DEF LogInv
  <2>4. GetRoot = RootOfPrefix(inserted, 0)
    BY <2>2, <2>3, MirrorOpens, PrefixRootIs
  <2> QED
    BY <1>1, <2>3, <2>4, RootsOfLog
<1>5. CASE c # 0
  <2> DEFINE e == mirrorEpoch
             n == e * MaxLeafIndex + c
  <2>1. c - 1 \in MirrorHas
    BY <1>5
  <2>2. c - 1 \in Slots(0) /\ e \in Nat /\ e * MaxLeafIndex + (c - 1) + 1 \in 1 .. Len(inserted)
    BY <1>1, <1>2, <2>1, EpochInLog
  <2>3. e * MaxLeafIndex \in Nat /\ c \in 0 .. MaxLeafIndex
    BY <1>3, <2>2
  <2>4. n \in 0 .. Len(inserted)
    BY <1>5, <2>2, <2>3
  <2>5. MirrorLeaves = FirstOf(inserted, e, c)
    BY DEF MirrorLeaves, FirstOf, LeafAt
  <2>6. RootOfPrefix(inserted, n) = ReferenceRoot(FirstOf(inserted, e, c))
    BY <1>5, <2>2, <2>3, PrefixRootIs
  <2>7. GetRoot = RootOfPrefix(inserted, n)
    BY <2>5, <2>6, MirrorOpens
  <2> HIDE DEF n
  <2> QED
    BY <1>1, <2>4, <2>7, RootsOfLog
<1> QED
  BY <1>4, <1>5

LEMMA MirrorOpensAll == TreeInv /\ MirrorInv => MirrorOpensNotes
<1> SUFFICES ASSUME TreeInv, MirrorInv PROVE MirrorOpensNotes
  OBVIOUS
<1>1. \A c \in Nat : Cardinality(0 .. c - 1) = c
  <2> TAKE c \in Nat
  <2> QED
    BY FS_Interval
<1>2. GetRoot \in knownRoots <=> MirrorHas = 0 .. Cardinality(MirrorHas) - 1
  <2>1. ASSUME GetRoot \in knownRoots PROVE MirrorHas = 0 .. Cardinality(MirrorHas) - 1
    BY <1>1, <2>1, KnownIsPrefix
  <2>2. ASSUME MirrorHas = 0 .. Cardinality(MirrorHas) - 1 PROVE GetRoot \in knownRoots
    <3>1. Cardinality(MirrorHas) \in Nat
      <4>1. MirrorHas \subseteq Slots(0)
        BY EpochInLog DEF TreeInv, MirrorInv
      <4>2. IsFiniteSet(Slots(0))
        BY FS_Interval, Shape DEF Slots
      <4> QED
        BY <4>1, <4>2, FS_Subset, FS_CardinalityType
    <3> QED
      BY <2>2, <3>1, PrefixIsKnown
  <2> QED
    BY <2>1, <2>2
<1>3. ReferenceRoot(MirrorLeaves) = ReferenceRoot([i \in MirrorHas |-> LeafAt(mirrorEpoch, i)])
  BY DEF MirrorLeaves
<1> QED
  BY <1>2, <1>3, MirrorOpens DEF MirrorOpensNotes

-----------------------------------------------------------------------------
(* The append-only log *)

\* The storage holds the log, and the root of every prefix is known.
LEMMA LogView ==
  TreeInv => /\ inserted \in Seq(Leaves)
             /\ StoredLog = inserted
             /\ {n \in 0 .. Len(inserted) : PrefixRoot(n) \in knownRoots} = 0 .. Len(inserted)
<1> SUFFICES ASSUME TreeInv
             PROVE  /\ inserted \in Seq(Leaves)
                    /\ StoredLog = inserted
                    /\ {n \in 0 .. Len(inserted) : PrefixRoot(n) \in knownRoots}
                         = 0 .. Len(inserted)
  OBVIOUS
<1>1. LogInv /\ inserted \in Seq(Leaves) /\ Len(inserted) = epoch * MaxLeafIndex + nextIndex
  BY DEF TreeInv, LogInv
<1>2. MaxLeafIndex \in Nat \ {0} /\ Slots(0) = 0 .. MaxLeafIndex - 1 /\ 0 \in Levels
  BY Shape DEF Slots
<1>3. ASSUME NEW n \in 1 .. Len(inserted)
      PROVE  ReadNode(filledSubtrees,
                      StorageKey((n - 1) \div MaxLeafIndex, 0, (n - 1) % MaxLeafIndex), 0)
               = inserted[n]
  <2>0. n - 1 \in Nat
    BY <1>1
  <2>1. PICK d \in Nat : d = (n - 1) \div MaxLeafIndex
    BY <1>2, <2>0, DivMod
  <2>2. PICK x \in Slots(0) : x = (n - 1) % MaxLeafIndex
    BY <1>2, <2>0, DivMod
  <2>3. n - 1 = d * MaxLeafIndex + x
    BY <1>2, <2>0, <2>1, <2>2, DivMod
  <2>4. ReadNode(filledSubtrees, StorageKey(d, 0, x), 0) = ReferenceNodes(LeavesOf(inserted, d))[0][x]
    BY <1>2 DEF TreeInv, StoreInv
  <2>5. ReferenceNodes(LeavesOf(inserted, d))[0][x] = Value(LeavesOf(inserted, d), x)
    BY NodesAre
  <2>6. Value(LeavesOf(inserted, d), x) = inserted[d * MaxLeafIndex + x + 1]
    <3>1. d * MaxLeafIndex + x < Len(inserted)
      BY <1>1, <2>0, <2>3
    <3> QED
      BY <3>1 DEF Value, LeavesOf
  <2>7. d * MaxLeafIndex + x + 1 = n
    BY <2>0, <2>3
  <2> QED
    BY <2>1, <2>2, <2>4, <2>5, <2>6, <2>7
<1>4. StoredLog = [n \in 1 .. Len(inserted) |-> inserted[n]]
  BY <1>1, <1>3 DEF StoredLog
<1>5. inserted = [n \in 1 .. Len(inserted) |-> inserted[n]]
  BY <1>1
<1>6. \A n \in 0 .. Len(inserted) : PrefixRoot(n) \in knownRoots
  BY DEF TreeInv, RootIsReference
<1> QED
  BY <1>1, <1>4, <1>5, <1>6

LEMMA InitLog == Init => Log!Init
<1> SUFFICES ASSUME Init PROVE Log!Init
  OBVIOUS
<1>1. StoredLog = inserted
      /\ {n \in 0 .. Len(inserted) : PrefixRoot(n) \in knownRoots} = 0 .. Len(inserted)
  BY InitTree, LogView
<1>2. inserted = << >> /\ 0 .. Len(inserted) = {0}
  BY DEF Init
<1> QED
  BY <1>1, <1>2 DEF Log!Init

LEMMA StepLog ==
  ASSUME /\ inserted \in Seq(Leaves) /\ StoredLog = inserted
         /\ {n \in 0 .. Len(inserted) : PrefixRoot(n) \in knownRoots} = 0 .. Len(inserted),
         /\ StoredLog' = inserted'
         /\ {n \in 0 .. Len(inserted) : PrefixRoot(n) \in knownRoots}' = 0 .. Len(inserted'),
         [Next]_vars
  PROVE  [\E leaf \in Leaves : Log!Insert(leaf)]_
           <<StoredLog, {n \in 0 .. Len(inserted) : PrefixRoot(n) \in knownRoots}>>
<1>1. CASE \E leaf \in Leaves : Insert(leaf)
  <2>1. PICK leaf \in Leaves : Insert(leaf)
    BY <1>1
  <2>2. inserted' = Append(inserted, leaf)
    BY <2>1, InsertIs
  <2>3. Len(inserted') = Len(inserted) + 1 /\ Len(inserted) \in Nat
    BY <2>2
  <2>4. 0 .. Len(inserted') = (0 .. Len(inserted)) \cup {Len(inserted')}
    BY <2>3
  <2>5. Log!Insert(leaf)
    BY <2>2, <2>4 DEF Log!Insert
  <2> QED
    BY <2>5
<1>2. CASE inserted' = inserted
  BY <1>2
<1>3. (\E leaf \in Leaves : Insert(leaf)) \/ inserted' = inserted
  BY DEF Next, MirrorEpoch, MirrorInsert, vars, onChain
<1> QED
  BY <1>1, <1>2, <1>3

-----------------------------------------------------------------------------
(* Theorems *)

\* In every reachable state the contract's root is the Merkle root of the
\* current epoch, and knownRoots holds the root of every prefix of the log and
\* nothing else: PoseidonMerkleTree._insert, through every rollover.
THEOREM RootsAreReference == Spec => []RootIsReference
<1>1. TreeInv => RootIsReference
  BY DEF TreeInv
<1> QED
  BY <1>1, InitTree, NextTree, PTL DEF Spec

\* In whatever order leaves reach a wallet and however often, its copy has the
\* Merkle root of what arrived, that root is one the contract accepts exactly
\* when a prefix arrived, and its proofs open every leaf against it.
THEOREM WalletOpensNotes == Spec => []MirrorOpensNotes
BY InitTree, NextTree, InitMirror, NextMirror, MirrorOpensAll, PTL DEF Spec

\* The tree implements the append-only log of its leaves: an insertion appends
\* to what the storage holds, and no root that was ever accepted is lost.
THEOREM TreeImplementsLog == Spec => ImplementsLog
<1>1. TreeInv /\ TreeInv' /\ [Next]_vars
        => [\E leaf \in Leaves : Log!Insert(leaf)]_
             <<StoredLog, {n \in 0 .. Len(inserted) : PrefixRoot(n) \in knownRoots}>>
  <2>1. TreeInv' => /\ (StoredLog = inserted)'
                    /\ ({n \in 0 .. Len(inserted) : PrefixRoot(n) \in knownRoots}
                          = 0 .. Len(inserted))'
    BY LogView, PTL
  <2> QED
    BY <2>1, LogView, StepLog
<1> QED
  BY <1>1, InitLog, InitTree, NextTree, PTL DEF Spec, ImplementsLog, Log!Spec
=============================================================================
