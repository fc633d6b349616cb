------------------------ MODULE BuddyAllocatorProofs ------------------------
(***************************************************************************)
(* The theorems about the allocator when areas are freed in the reverse    *)
(* order of their allocation, or when all of them get blocks of one order, *)
(* for trees of any height and areas of any sizes.                         *)
(*                                                                         *)
(* update_buf_order adds one to the order of a parent whose children are   *)
(* equal. That is right if the children are two whole halves, and wrong if *)
(* they are nodes with free blocks of one order below both.                *)
(*                                                                         *)
(* Nested: the invariant excludes that. Below any node that is split, the  *)
(* orders of the free blocks of one half are all below those of the other  *)
(* (Separated, Tree). A block cut from the smallest one that holds it      *)
(* keeps this up, since what is left of that block is of the orders from   *)
(* that of the new area up to its own, and there is no other between       *)
(* (Fitted, CutSplits). Freeing an area gives back the orders there were   *)
(* before it was handed out (FreeRestores), which the invariant remembers  *)
(* as a stack of trees, one per area in use (Stack, BuddyInv).             *)
(*                                                                         *)
(* OneOrder: it does happen, and the order of a node may be any number     *)
(* then. But the order of a node is at least that of the areas if and only *)
(* if a block is free below it (Equals), which is all a descent needs; and *)
(* it is right as soon as at most one block below the node is in use       *)
(* (Exact), so that the tree is whole again in the end (EqualInv).         *)
(***************************************************************************)
EXTENDS BuddyAllocator, SequenceTheorems, FiniteSetTheorems, WellFoundedInduction, TLAPS

-----------------------------------------------------------------------------
(* Induction and recursion over intervals, from the well-founded order of  *)
(* the finite subsets of Nat.                                              *)

\* A set of numbers that is not empty has a smallest one.
LEMMA LeastNumber ==
  ASSUME NEW T, T \subseteq Nat, T # {}
  PROVE  \E n \in T : \A m \in T : n <= m
<1> DEFINE Below == {0 .. n : n \in T}
<1>1. IsWellFoundedOn(StrictSubsetOrdering(Nat), FiniteSubsetsOf(Nat))
  BY FS_StrictSubsetOrderingWellFounded
<1>2. Below \subseteq FiniteSubsetsOf(Nat)
  <2>1. ASSUME NEW n \in T PROVE 0 .. n \subseteq Nat /\ IsFiniteSet(0 .. n)
    <3>1. 0 \in Int /\ n \in Int
      OBVIOUS
    <3> QED
      BY <3>1, FS_Interval
  <2> QED
    BY <2>1 DEF FiniteSubsetsOf
<1>3. Below # {}
  OBVIOUS
<1>4. \E s \in Below : \A u \in Below : ~(<<u, s>> \in StrictSubsetOrdering(Nat))
  <2> HIDE DEF Below
  <2> QED
    BY <1>1, <1>2, <1>3, WFMin
<1>5. PICK n \in T : \A m \in T : ~(<<0 .. m, 0 .. n>> \in StrictSubsetOrdering(Nat))
  BY <1>4
<1>6. ASSUME NEW m \in T, ~(n <= m) PROVE FALSE
  <2>1. 0 .. m \subseteq 0 .. n /\ n \in 0 .. n /\ n \notin 0 .. m
    BY <1>6
  <2>2. 0 .. m \in SUBSET Nat /\ 0 .. n \in SUBSET Nat
    OBVIOUS
  <2> QED
    BY <2>1, <2>2, <1>5 DEF StrictSubsetOrdering
<1> QED
  BY <1>6

\* Induction over an interval, for a property given by the set that has it.
LEMMA UpInduction ==
  ASSUME NEW a \in Int, NEW b \in Int, NEW T, a \in T,
         \A n \in a .. b - 1 : n \in T => n + 1 \in T
  PROVE  a .. b \subseteq T
<1> SUFFICES ASSUME NEW c \in a .. b, c \notin T PROVE FALSE
  OBVIOUS
<1> DEFINE S == {n \in Nat : a + n \in a .. b /\ a + n \notin T}
<1>1. c - a \in S
  OBVIOUS
<1>2. PICK n \in S : \A m \in S : n <= m
  <2> HIDE DEF S
  <2>1. S \subseteq Nat
    BY DEF S
  <2> QED
    BY <1>1, <2>1, LeastNumber
<1>3. n # 0 /\ n - 1 \in Nat /\ ~(n <= n - 1) /\ a + (n - 1) \in a .. b - 1 /\ (a + (n - 1)) + 1 = a + n
  OBVIOUS
<1>4. a + (n - 1) \in T
  BY <1>2, <1>3
<1> QED
  BY <1>3, <1>4

LEMMA DownInduction ==
  ASSUME NEW a \in Int, NEW b \in Int, NEW T, b \in T,
         \A n \in a + 1 .. b : n \in T => n - 1 \in T
  PROVE  a .. b \subseteq T
<1> DEFINE U == {n \in Int : a + b - n \in T}
<1>1. a \in U
  OBVIOUS
<1>2. ASSUME NEW n \in a .. b - 1, n \in U PROVE n + 1 \in U
  <2>1. a + b - n \in a + 1 .. b /\ (a + b - n) - 1 = a + b - (n + 1)
    OBVIOUS
  <2> QED
    BY <1>2, <2>1
<1>3. a .. b \subseteq U
  <2> HIDE DEF U
  <2> QED
    BY <1>1, <1>2, UpInduction
<1>4. ASSUME NEW n \in a .. b PROVE n \in T
  <2>1. a + b - n \in a .. b /\ a + b - (a + b - n) = n
    OBVIOUS
  <2>2. a + b - n \in U
    BY <1>3, <2>1
  <2> QED
    BY <2>1, <2>2
<1> QED
  BY <1>4

\* f is on a .. b what starting from s at a and taking steps makes.
GoesUp(f, a, b, S, s, step) ==
  /\ f \in [a .. b -> S]
  /\ \A n \in a .. b : f[n] = IF n = a THEN s ELSE step[n][f[n - 1]]

\* The same from b down.
GoesDown(f, a, b, S, s, step) ==
  /\ f \in [a .. b -> S]
  /\ \A n \in a .. b : f[n] = IF n = b THEN s ELSE step[n][f[n + 1]]

\* What is defined from one number to the next exists.
LEMMA UpRecursion ==
  ASSUME NEW S, NEW s \in S, NEW step \in [Int -> [S -> S]],
         NEW a \in Int, NEW b \in Int, a <= b
  PROVE  \E f : GoesUp(f, a, b, S, s, step)
<1> DEFINE T == {m \in Int : \E f : GoesUp(f, a, m, S, s, step)}
<1>1. a \in T
  <2>1. GoesUp([n \in a .. a |-> s], a, a, S, s, step)
    BY DEF GoesUp
  <2> QED
    BY <2>1
<1>2. ASSUME NEW m \in a .. b - 1, m \in T PROVE m + 1 \in T
  <2>1. PICK f : GoesUp(f, a, m, S, s, step)
    BY <1>2
  <2> DEFINE new == step[m + 1][f[m]]
             g == [n \in a .. m + 1 |-> IF n = m + 1 THEN new ELSE f[n]]
  <2>2. new \in S
    <3>1. f[m] \in S /\ step[m + 1] \in [S -> S]
      BY <2>1 DEF GoesUp
    <3> QED
      BY <3>1
  <2>3. g \in [a .. m + 1 -> S]
    <3> HIDE DEF new
    <3>1. ASSUME NEW n \in a .. m + 1 PROVE (IF n = m + 1 THEN new ELSE f[n]) \in S
      BY <2>1, <2>2 DEF GoesUp
    <3> QED
      BY <3>1
  <2>4. ASSUME NEW n \in a .. m + 1
        PROVE  g[n] = IF n = a THEN s ELSE step[n][g[n - 1]]
    <3>1. CASE n = m + 1
      <4>1. g[n] = new /\ m \in a .. m + 1 /\ n - 1 = m /\ n # a /\ m # m + 1
        BY <3>1
      <4>2. g[n - 1] = f[m]
        BY <4>1
      <4>3. new = step[n][f[m]]
        BY <3>1
      <4> QED
        BY <4>1, <4>2, <4>3
    <3>2. CASE n # m + 1
      <4>1. n \in a .. m /\ g[n] = f[n]
        BY <3>2
      <4>2. n # a => n - 1 \in a .. m + 1 /\ n - 1 # m + 1
        BY <4>1
      <4>3. n # a => g[n - 1] = f[n - 1]
        BY <4>2
      <4> HIDE DEF g, new
      <4> QED
        BY <2>1, <4>1, <4>3 DEF GoesUp
    <3> QED
      BY <3>1, <3>2
  <2>5. GoesUp(g, a, m + 1, S, s, step)
    <3> HIDE DEF g
    <3> QED
      BY <2>3, <2>4 DEF GoesUp
  <2>6. m + 1 \in Int /\ \E h : GoesUp(h, a, m + 1, S, s, step)
    <3> HIDE DEF g
    <3> QED
      BY <2>5
  <2> QED
    BY <2>6
<1>3. b \in T
  <2> HIDE DEF T
  <2>1. a .. b \subseteq T
    BY <1>1, <1>2, UpInduction
  <2> QED
    BY <2>1
<1> QED
  BY <1>3

LEMMA DownRecursion ==
  ASSUME NEW S, NEW s \in S, NEW step \in [Int -> [S -> S]],
         NEW a \in Int, NEW b \in Int, a <= b
  PROVE  \E f : GoesDown(f, a, b, S, s, step)
<1> DEFINE mirror == [n \in Int |-> step[a + b - n]]
<1>1. mirror \in [Int -> [S -> S]]
  <2>1. \A n \in Int : a + b - n \in Int
    OBVIOUS
  <2> QED
    BY <2>1
<1>2. PICK g : GoesUp(g, a, b, S, s, mirror)
  <2> HIDE DEF mirror
  <2> QED
    BY <1>1, UpRecursion
<1> DEFINE f == [n \in a .. b |-> g[a + b - n]]
<1>3. f \in [a .. b -> S]
  <2>1. \A n \in a .. b : a + b - n \in a .. b
    OBVIOUS
  <2> HIDE DEF mirror
  <2> QED
    BY <1>2, <2>1 DEF GoesUp
<1>4. ASSUME NEW n \in a .. b PROVE f[n] = IF n = b THEN s ELSE step[n][f[n + 1]]
  <2> DEFINE m == a + b - n
  <2>1. m \in a .. b /\ f[n] = g[m] /\ (m = a <=> n = b) /\ a + b - m = n
    OBVIOUS
  <2>2. n # b => m - 1 \in a .. b /\ n + 1 \in a .. b /\ a + b - (n + 1) = m - 1
    OBVIOUS
  <2>3. n # b => f[n + 1] = g[m - 1]
    BY <2>2
  <2>4. mirror[m] = step[n]
    BY <2>1
  <2> HIDE DEF f, m, mirror
  <2> QED
    BY <1>2, <2>1, <2>3, <2>4 DEF GoesUp
<1>5. GoesDown(f, a, b, S, s, step)
  <2> HIDE DEF f
  <2> QED
    BY <1>3, <1>4 DEF GoesDown
<1> QED
  BY <1>5

-----------------------------------------------------------------------------
(* Powers of two.                                                          *)

\* The prover knows them as the numbers of subsets of finite sets.
LEMMA Doubling ==
  ASSUME NEW n \in Nat
  PROVE  2 ^ n \in Nat \ {0} /\ 2 ^ (n + 1) = 2 * 2 ^ n
<1> DEFINE S == 1 .. n
           T == 1 .. n + 1
           A == SUBSET S
           B == {X \cup {n + 1} : X \in A}
<1>1. /\ IsFiniteSet(S) /\ Cardinality(S) = n
      /\ IsFiniteSet(T) /\ Cardinality(T) = n + 1
  <2>1. 1 \in Int /\ n \in Int /\ n + 1 \in Int
    OBVIOUS
  <2>2. /\ IsFiniteSet(1 .. n) /\ Cardinality(1 .. n) = IF 1 > n THEN 0 ELSE n - 1 + 1
        /\ IsFiniteSet(1 .. n + 1)
        /\ Cardinality(1 .. n + 1) = IF 1 > n + 1 THEN 0 ELSE (n + 1) - 1 + 1
    BY <2>1, FS_Interval
  <2> QED
    BY <2>2
<1>2. IsFiniteSet(A) /\ Cardinality(A) = 2 ^ n /\ Cardinality(SUBSET T) = 2 ^ (n + 1)
  <2>1. IsFiniteSet(A) /\ Cardinality(A) = 2 ^ Cardinality(S)
    BY <1>1, FS_SUBSET, Zenon
  <2>2. Cardinality(SUBSET T) = 2 ^ Cardinality(T)
    BY <1>1, FS_SUBSET, Zenon
  <2> QED
    BY <1>1, <2>1, <2>2, Zenon
<1>3. n + 1 \notin S /\ T = S \cup {n + 1}
  OBVIOUS
<1> HIDE DEF S, T
<1>4. IsFiniteSet(B) /\ Cardinality(B) = Cardinality(A)
  <2> DEFINE f == [X \in A |-> X \cup {n + 1}]
  <2>1. f \in Bijection(A, B)
    <3>1. f \in [A -> B]
      OBVIOUS
    <3>2. ASSUME NEW X \in A, NEW Y \in A, f[X] = f[Y] PROVE X = Y
      <4>1. X \cup {n + 1} = Y \cup {n + 1} /\ n + 1 \notin X /\ n + 1 \notin Y
        BY <3>2, <1>3
      <4> QED
        BY <4>1
    <3>3. \A Z \in B : \E X \in A : f[X] = Z
      OBVIOUS
    <3> HIDE DEF f
    <3>4. DOMAIN f = A
      BY <3>1
    <3>5. IsInjective(f)
      <4> HIDE DEF A, B
      <4> QED
        BY <3>2, <3>4, Zenon DEF IsInjective
    <3>6. f \in Injection(A, B)
      <4> HIDE DEF A, B
      <4> QED
        BY <3>1, <3>5, Zenon DEF Injection
    <3>7. f \in Surjection(A, B)
      <4> HIDE DEF A, B
      <4> QED
        BY <3>1, <3>3, Zenon DEF Surjection
    <3> QED
      BY <3>6, <3>7 DEF Bijection
  <2>2. ExistsBijection(A, B)
    <3> HIDE DEF f, A, B
    <3> QED
      BY <2>1 DEF ExistsBijection
  <2> HIDE DEF A, B
  <2> QED
    BY <1>2, <2>2, FS_Bijection
<1>5. A \cap B = {} /\ SUBSET T = A \cup B
  <2>1. ASSUME NEW X \in SUBSET T PROVE X \in A \cup B
    <3>1. CASE n + 1 \in X
      <4>1. X \ {n + 1} \in A /\ X = (X \ {n + 1}) \cup {n + 1}
        BY <1>3, <3>1
      <4> QED
        BY <4>1
    <3>2. CASE n + 1 \notin X
      BY <1>3, <3>2
    <3> QED
      BY <3>1, <3>2
  <2>2. \A X \in A : n + 1 \notin X /\ X \in SUBSET T
    BY <1>3
  <2>3. \A X \in B : n + 1 \in X /\ X \in SUBSET T
    BY <1>3
  <2> QED
    BY <2>1, <2>2, <2>3
<1>6. Cardinality(A) \in Nat /\ Cardinality(A) # 0
  <2>1. {} \in A
    OBVIOUS
  <2> HIDE DEF A
  <2> QED
    BY <1>2, <2>1, FS_CardinalityType, FS_EmptySet
<1> HIDE DEF A, B
<1>7. Cardinality(A \cup B) = Cardinality(A) + Cardinality(B) - Cardinality({})
  BY <1>2, <1>4, <1>5, FS_Union
<1>8. Cardinality({}) = 0
  BY FS_EmptySet
<1> DEFINE c == Cardinality(A)
<1>9. 2 ^ n = c /\ 2 ^ (n + 1) = c + c
  <2>1. 2 ^ n = c
    BY <1>2
  <2>2. Cardinality(A \cup B) = 2 ^ (n + 1)
    BY <1>2, <1>5, Zenon
  <2>3. Cardinality(A \cup B) = c + c
    <3>1. Cardinality(A \cup B) = c + c - 0
      BY <1>4, <1>7, <1>8, Zenon
    <3>2. c \in Nat
      BY <1>6
    <3> QED
      BY <3>1, <3>2
  <2> QED
    BY <2>1, <2>2, <2>3, Zenon
<1>10. c \in Nat \ {0}
  BY <1>6
<1> HIDE DEF c
<1>11. 2 * c = c + c
  BY <1>10
<1> QED
  BY <1>9, <1>10, <1>11, Zenon

LEMMA PowerType == \A n \in Nat : 2 ^ n \in Nat \ {0}
BY Doubling

\* They grow.
LEMMA PowersGrow ==
  ASSUME NEW m \in Nat, NEW n \in Nat, m < n
  PROVE  2 * 2 ^ m <= 2 ^ n
<1> DEFINE T == {k \in Nat : 2 * 2 ^ m <= 2 ^ k}
<1>1. m + 1 \in T
  BY Doubling
<1>2. ASSUME NEW k \in m + 1 .. n - 1, k \in T PROVE k + 1 \in T
  <2>1. 2 ^ m \in Nat /\ 2 ^ k \in Nat /\ 2 ^ (k + 1) = 2 * 2 ^ k /\ 2 * 2 ^ m <= 2 ^ k /\ k + 1 \in Nat
    BY <1>2, Doubling
  <2>2. 2 * 2 ^ m <= 2 ^ (k + 1)
    BY <2>1
  <2> QED
    BY <2>1, <2>2
<1>3. m + 1 .. n \subseteq T
  <2> HIDE DEF T
  <2>1. m + 1 \in Int /\ n \in Int
    OBVIOUS
  <2> QED
    BY <1>1, <1>2, <2>1, UpInduction
<1>4. n \in m + 1 .. n
  OBVIOUS
<1> QED
  BY <1>3, <1>4

-----------------------------------------------------------------------------
(* The levels of the tree.                                                 *)

USE DEF Nodes

\* The nodes of a level.
OfLevel(l) == 2 ^ (MaxOrder - l) .. 2 ^ (MaxOrder - l + 1) - 1

\* Every node has a level.
LEMMA SomeLevel ==
  ASSUME NEW b \in Nodes
  PROVE  \E l \in 0 .. MaxOrder : b \in OfLevel(l)
<1> DEFINE T == {k \in Nat : \A c \in 1 .. 2 ^ (k + 1) - 1 :
                              \E j \in 0 .. k : c \in 2 ^ j .. 2 ^ (j + 1) - 1}
<1>1. 0 \in T
  <2>1. 2 ^ 0 = 1 /\ 2 ^ (0 + 1) = 2
    BY Doubling
  <2>2. ASSUME NEW c \in 1 .. 2 ^ (0 + 1) - 1 PROVE c \in 2 ^ 0 .. 2 ^ (0 + 1) - 1
    BY <2>1
  <2>3. 0 \in 0 .. 0
    OBVIOUS
  <2> QED
    BY <2>2, <2>3
<1>2. ASSUME NEW k \in 0 .. MaxOrder - 1, k \in T PROVE k + 1 \in T
  <2>1. k \in Nat /\ k + 1 \in Nat /\ 2 ^ (k + 1) \in Nat /\ 2 ^ ((k + 1) + 1) \in Nat
    <3>1. k \in Nat /\ k + 1 \in Nat /\ (k + 1) + 1 \in Nat
      BY SizesAssumption
    <3> QED
      BY <3>1, PowerType
  <2>2. ASSUME NEW c \in 1 .. 2 ^ ((k + 1) + 1) - 1
        PROVE  \E j \in 0 .. k + 1 : c \in 2 ^ j .. 2 ^ (j + 1) - 1
    <3>1. CASE c \in 1 .. 2 ^ (k + 1) - 1
      <4>1. PICK j \in 0 .. k : c \in 2 ^ j .. 2 ^ (j + 1) - 1
        BY <1>2, <3>1
      <4>2. j \in 0 .. k + 1
        BY <2>1
      <4> QED
        BY <4>1, <4>2
    <3>2. CASE ~(c \in 1 .. 2 ^ (k + 1) - 1)
      <4>1. c \in 2 ^ (k + 1) .. 2 ^ ((k + 1) + 1) - 1
        BY <2>1, <3>2
      <4>2. k + 1 \in 0 .. k + 1
        BY <2>1
      <4> QED
        BY <4>1, <4>2
    <3> QED
      BY <3>1, <3>2
  <2> QED
    BY <2>1, <2>2
<1>3. MaxOrder \in T
  <2> HIDE DEF T
  <2>1. 0 .. MaxOrder \subseteq T
    BY <1>1, <1>2, SizesAssumption, UpInduction
  <2> QED
    BY <2>1, SizesAssumption
<1>4. PICK j \in 0 .. MaxOrder : b \in 2 ^ j .. 2 ^ (j + 1) - 1
  BY <1>3
<1>5. MaxOrder - j \in 0 .. MaxOrder /\ MaxOrder - (MaxOrder - j) = j
  BY SizesAssumption
<1> QED
  BY <1>4, <1>5 DEF OfLevel

\* And no two.
LEMMA OneLevel ==
  ASSUME NEW l \in 0 .. MaxOrder, NEW m \in 0 .. MaxOrder, NEW b,
         b \in OfLevel(l), b \in OfLevel(m)
  PROVE  l = m
<1>1. ASSUME NEW i \in 0 .. MaxOrder, NEW j \in 0 .. MaxOrder, i < j,
             b \in OfLevel(i), b \in OfLevel(j)
      PROVE  FALSE
  <2> DEFINE p == MaxOrder - i
             q == MaxOrder - j
  <2>1. p \in Nat /\ q \in Nat /\ q < p /\ q + 1 \in Nat /\ p + 1 \in Nat
    BY <1>1, SizesAssumption
  <2>2. b \in 2 ^ p .. 2 ^ (p + 1) - 1 /\ b \in 2 ^ q .. 2 ^ (q + 1) - 1
    BY <1>1 DEF OfLevel
  <2> HIDE DEF p, q
  <2>3. 2 * 2 ^ q <= 2 ^ p
    BY <2>1, PowersGrow
  <2>4. 2 ^ (q + 1) = 2 * 2 ^ q /\ 2 ^ p \in Nat /\ 2 ^ q \in Nat /\ 2 ^ (p + 1) \in Nat
    BY <2>1, Doubling
  <2>5. b \in Int /\ 2 ^ p <= b /\ b <= 2 ^ (q + 1) - 1
    BY <2>2, <2>4
  <2> QED
    BY <2>3, <2>4, <2>5
<1>2. l < m \/ m < l \/ l = m
  BY SizesAssumption
<1> QED
  BY <1>1, <1>2

LEMMA LevelType ==
  ASSUME NEW b \in Nodes
  PROVE  Level(b) \in 0 .. MaxOrder /\ b \in OfLevel(Level(b))
<1>1. \E l \in 0 .. MaxOrder : b \in OfLevel(l)
  BY SomeLevel
<1> QED
  BY <1>1 DEF Level, OfLevel

LEMMA LevelIs ==
  ASSUME NEW l \in 0 .. MaxOrder, NEW b \in OfLevel(l)
  PROVE  b \in Nodes /\ Level(b) = l
<1> DEFINE p == MaxOrder - l
<1>1. p \in Nat /\ p + 1 \in Nat /\ p <= MaxOrder /\ MaxOrder + 1 \in Nat /\ MaxOrder \in Nat
  BY SizesAssumption
<1>2. 2 ^ p \in Nat \ {0} /\ 2 ^ (p + 1) \in Nat /\ 2 ^ (MaxOrder + 1) \in Nat
  BY <1>1, Doubling
<1>3. 2 ^ (p + 1) <= 2 ^ (MaxOrder + 1)
  <2>1. CASE p = MaxOrder
    BY <1>2, <2>1
  <2>2. CASE p < MaxOrder
    <3>1. 2 * 2 ^ (p + 1) <= 2 ^ (MaxOrder + 1)
      BY <1>1, <2>2, PowersGrow
    <3> QED
      BY <3>1, <1>2
  <2> QED
    BY <1>1, <2>1, <2>2
<1>4. b \in 2 ^ p .. 2 ^ (p + 1) - 1
  BY DEF OfLevel
<1> HIDE DEF p
<1>5. b \in Nodes
  BY <1>2, <1>3, <1>4
<1> QED
  BY <1>5, LevelType, OneLevel

\* Node 1 is the root, and the only node of its level.
LEMMA RootLevel ==
  /\ 1 \in Nodes
  /\ Level(1) = MaxOrder
  /\ \A b \in Nodes : Level(b) = MaxOrder => b = 1
<1>1. 2 ^ 0 = 1 /\ 2 ^ (0 + 1) = 2
  BY Doubling
<1>2. MaxOrder \in 0 .. MaxOrder /\ MaxOrder - MaxOrder = 0
  BY SizesAssumption
<1>3. OfLevel(MaxOrder) = 1 .. 1
  <2>1. OfLevel(MaxOrder) = 2 ^ 0 .. 2 ^ (0 + 1) - 1
    BY <1>2, Zenon DEF OfLevel
  <2> QED
    BY <1>1, <2>1
<1>4. 1 \in OfLevel(MaxOrder)
  BY <1>3
<1> QED
  BY <1>2, <1>3, <1>4, LevelIs, LevelType

\* The children of a node are of the level below.
LEMMA Children ==
  ASSUME NEW b \in Nodes, Level(b) > 0
  PROVE  \A c \in {2 * b, 2 * b + 1} :
           c \in Nodes /\ Level(c) = Level(b) - 1 /\ Parent(c) = b
<1> DEFINE l == Level(b)
           p == MaxOrder - l
<1>1. l \in 1 .. MaxOrder /\ p \in Nat /\ b \in 2 ^ p .. 2 ^ (p + 1) - 1
  BY LevelType, SizesAssumption DEF OfLevel
<1>2. /\ l - 1 \in 0 .. MaxOrder /\ MaxOrder - (l - 1) = p + 1
      /\ p + 1 \in Nat /\ (p + 1) + 1 \in Nat /\ MaxOrder - (l - 1) + 1 = (p + 1) + 1
  BY <1>1, SizesAssumption
<1>3. /\ 2 ^ (p + 1) = 2 * 2 ^ p /\ 2 ^ ((p + 1) + 1) = 2 * 2 ^ (p + 1)
      /\ 2 ^ p \in Nat /\ 2 ^ (p + 1) \in Nat /\ 2 ^ ((p + 1) + 1) \in Nat
  BY <1>1, <1>2, Doubling
<1>4. b \in Nat /\ 2 ^ p <= b /\ b < 2 ^ (p + 1)
  BY <1>1, <1>3
<1>5. OfLevel(l - 1) = 2 ^ (p + 1) .. 2 ^ ((p + 1) + 1) - 1
  BY <1>2 DEF OfLevel
<1> HIDE DEF l, p
<1>6. ASSUME NEW c \in {2 * b, 2 * b + 1} PROVE c \in OfLevel(l - 1) /\ Parent(c) = b
  BY <1>3, <1>4, <1>5 DEF Parent
<1> QED
  BY <1>2, <1>6, LevelIs DEF l

\* A node below the root has a parent on the level above, and a sibling.
LEMMA Family ==
  ASSUME NEW b \in Nodes, Level(b) < MaxOrder
  PROVE  LET p == Parent(b)
         IN  /\ p \in Nodes /\ Level(p) = Level(b) + 1
             /\ Sibling(b) \in Nodes /\ Level(Sibling(b)) = Level(b)
             /\ \/ b = 2 * p /\ Sibling(b) = 2 * p + 1
                \/ b = 2 * p + 1 /\ Sibling(b) = 2 * p
<1> DEFINE l == Level(b)
           q == MaxOrder - (l + 1)
           p == Parent(b)
<1>1. /\ l \in 0 .. MaxOrder - 1 /\ q \in Nat /\ q + 1 = MaxOrder - l
      /\ l + 1 \in 0 .. MaxOrder /\ (q + 1) + 1 = MaxOrder - l + 1
  BY LevelType, SizesAssumption
<1>2. b \in 2 ^ (q + 1) .. 2 ^ ((q + 1) + 1) - 1
  BY <1>1, LevelType DEF OfLevel
<1>3. OfLevel(l + 1) = 2 ^ q .. 2 ^ (q + 1) - 1
  BY DEF OfLevel
<1> HIDE DEF q
<1>4. /\ 2 ^ (q + 1) = 2 * 2 ^ q /\ 2 ^ ((q + 1) + 1) = 2 * 2 ^ (q + 1)
      /\ 2 ^ q \in Nat \ {0} /\ 2 ^ (q + 1) \in Nat /\ 2 ^ ((q + 1) + 1) \in Nat
  BY <1>1, Doubling
<1>5. b \in Nat /\ 2 ^ (q + 1) <= b /\ b < 2 ^ ((q + 1) + 1)
  BY <1>2, <1>4
<1>6. p \in OfLevel(l + 1) /\ p \in Nat /\ (b = 2 * p \/ b = 2 * p + 1)
  BY <1>3, <1>4, <1>5 DEF Parent
<1>7. \/ b = 2 * p /\ Sibling(b) = 2 * p + 1
      \/ b = 2 * p + 1 /\ Sibling(b) = 2 * p
  BY <1>6 DEF Sibling, Parent
<1>8. p \in Nodes /\ Level(p) = l + 1
  BY <1>1, <1>6, LevelIs
<1> HIDE DEF l, p
<1>9. Level(p) > 0 /\ Level(p) - 1 = l
  BY <1>1, <1>8
<1>10. Sibling(b) \in {2 * p, 2 * p + 1}
  BY <1>7
<1>11. Sibling(b) \in Nodes /\ Level(Sibling(b)) = l
  BY <1>8, <1>9, <1>10, Children
<1> QED
  BY <1>7, <1>8, <1>11 DEF l, p

-----------------------------------------------------------------------------
(* What nodes cover, and the way from a node to the root.                  *)

LEMMA CoversSome ==
  ASSUME NEW b \in Nodes
  PROVE  Covers(b) # {} /\ Covers(b) \subseteq Int
<1> DEFINE w == 2 ^ Level(b)
<1>1. w \in Nat \ {0} /\ b \in Nat
  BY LevelType, PowerType
<1>2. Covers(b) = (b * w) .. (b * w + w - 1)
  BY DEF Covers
<1> HIDE DEF w
<1> DEFINE k == b * w
<1>3. k \in Nat
  BY <1>1
<1>4. Covers(b) = k .. (k + w - 1)
  BY <1>2
<1> HIDE DEF k
<1>5. k \in k .. (k + w - 1) /\ k .. (k + w - 1) \subseteq Int
  BY <1>1, <1>3
<1> QED
  BY <1>4, <1>5

LEMMA CoveredByParent ==
  ASSUME NEW b \in Nodes, Level(b) < MaxOrder
  PROVE  Covers(b) \subseteq Covers(Parent(b))
<1> DEFINE p == Parent(b)
           w == 2 ^ Level(b)
<1>1. p \in Nodes /\ Level(p) = Level(b) + 1 /\ (b = 2 * p \/ b = 2 * p + 1)
  BY Family
<1>2. 2 ^ Level(p) = 2 * w /\ w \in Nat \ {0}
  <2>1. Level(b) \in Nat
    BY LevelType
  <2> QED
    BY <1>1, <2>1, Doubling
<1>3. /\ Covers(b) = (b * w) .. (b * w + w - 1)
      /\ Covers(p) = (p * (2 * w)) .. (p * (2 * w) + 2 * w - 1)
  BY <1>2 DEF Covers
<1> HIDE DEF p, w
<1>4. p * (2 * w) = (2 * p) * w /\ (2 * p + 1) * w = (2 * p) * w + w /\ (2 * p) * w \in Nat
  BY <1>1, <1>2
<1>5. CASE b = 2 * p
  <2>1. b * w = p * (2 * w) /\ b * w \in Nat
    BY <1>4, <1>5
  <2> QED
    BY <1>2, <1>3, <2>1 DEF p
<1>6. CASE b = 2 * p + 1
  <2>1. b * w = p * (2 * w) + w /\ p * (2 * w) \in Nat
    BY <1>4, <1>6
  <2> QED
    BY <1>2, <1>3, <2>1 DEF p
<1> QED
  BY <1>1, <1>5, <1>6

\* Of one level at most one node covers a block.
LEMMA OneCovers ==
  ASSUME NEW b \in Nodes, NEW c \in Nodes, Level(b) = Level(c),
         NEW n, n \in Covers(b), n \in Covers(c)
  PROVE  b = c
<1> DEFINE w == 2 ^ Level(b)
<1>1. w \in Nat \ {0} /\ b \in Nat /\ c \in Nat
  BY LevelType, PowerType
<1>2. n \in (b * w) .. (b * w + w - 1) /\ n \in (c * w) .. (c * w + w - 1)
  BY DEF Covers
<1> HIDE DEF w
<1>3. ASSUME NEW i \in Nat, NEW j \in Nat, i < j,
             n \in (i * w) .. (i * w + w - 1), n \in (j * w) .. (j * w + w - 1)
      PROVE  FALSE
  <2>1. PICK d \in Nat : j = i + 1 + d
    <3>1. j - i - 1 \in Nat /\ j = i + 1 + (j - i - 1)
      BY <1>3
    <3> QED
      BY <3>1
  <2>2. j * w = i * w + w + d * w /\ d * w >= 0 /\ i * w \in Nat /\ d * w \in Nat
    BY <1>1, <2>1
  <2>3. j * w \in Nat /\ n >= j * w /\ n <= i * w + w - 1 /\ n \in Int
    BY <1>1, <1>3, <2>2
  <2> QED
    BY <1>1, <2>2, <2>3
<1>4. b < c \/ c < b \/ b = c
  BY <1>1
<1> QED
  BY <1>1, <1>2, <1>3, <1>4

\* The nodes from b to the root, by their levels.
IsPath(P, b) ==
  /\ P \in [Level(b) .. MaxOrder -> Int]
  /\ P[Level(b)] = b
  /\ \A l \in Level(b) + 1 .. MaxOrder : P[l] = Parent(P[l - 1])

LEMMA PathExists ==
  ASSUME NEW b \in Nodes
  PROVE  \E P : IsPath(P, b)
<1> DEFINE step == [n \in Int |-> [c \in Int |-> Parent(c)]]
           l == Level(b)
<1>1. l \in Int /\ MaxOrder \in Int /\ l <= MaxOrder /\ b \in Int
  BY LevelType, SizesAssumption
<1>2. step \in [Int -> [Int -> Int]]
  BY DEF Parent
<1>3. PICK P : GoesUp(P, l, MaxOrder, Int, b, step)
  <2> HIDE DEF step, l
  <2> QED
    BY <1>1, <1>2, UpRecursion
<1>4. P \in [l .. MaxOrder -> Int] /\ P[l] = b
  <2> HIDE DEF step, l
  <2>1. l \in l .. MaxOrder
    BY <1>1
  <2> QED
    BY <1>3, <2>1 DEF GoesUp
<1>5. ASSUME NEW m \in l + 1 .. MaxOrder PROVE P[m] = Parent(P[m - 1])
  <2>1. m \in l .. MaxOrder /\ m # l /\ m - 1 \in l .. MaxOrder /\ m \in Int
    BY <1>1
  <2>2. P[m] = step[m][P[m - 1]]
    <3> HIDE DEF step, l
    <3> QED
      BY <1>3, <2>1 DEF GoesUp
  <2>3. P[m - 1] \in Int
    BY <1>4, <2>1
  <2> QED
    BY <2>1, <2>2, <2>3
<1> QED
  BY <1>4, <1>5 DEF IsPath

LEMMA PathType ==
  ASSUME NEW b \in Nodes, NEW P, IsPath(P, b)
  PROVE  /\ \A l \in Level(b) .. MaxOrder :
              P[l] \in Nodes /\ Level(P[l]) = l /\ Covers(b) \subseteq Covers(P[l])
         /\ P[MaxOrder] = 1
<1> DEFINE T == {l \in Level(b) .. MaxOrder :
                   P[l] \in Nodes /\ Level(P[l]) = l /\ Covers(b) \subseteq Covers(P[l])}
<1>1. Level(b) \in Int /\ MaxOrder \in Int /\ Level(b) <= MaxOrder
  BY LevelType, SizesAssumption
<1>2. Level(b) \in T
  BY <1>1 DEF IsPath
<1>3. ASSUME NEW l \in Level(b) .. MaxOrder - 1, l \in T PROVE l + 1 \in T
  <2>1. l + 1 \in Level(b) + 1 .. MaxOrder /\ (l + 1) - 1 = l /\ l < MaxOrder /\ l + 1 \in Level(b) .. MaxOrder
    BY <1>1
  <2>2. P[l + 1] = Parent(P[l])
    BY <2>1 DEF IsPath
  <2>3. P[l] \in Nodes /\ Level(P[l]) < MaxOrder /\ Level(P[l]) = l
    BY <1>3, <2>1
  <2>4. /\ Parent(P[l]) \in Nodes /\ Level(Parent(P[l])) = l + 1
        /\ Covers(P[l]) \subseteq Covers(Parent(P[l]))
    BY <2>3, Family, CoveredByParent
  <2> QED
    BY <1>3, <2>1, <2>2, <2>4
<1>4. Level(b) .. MaxOrder \subseteq T
  <2> HIDE DEF T
  <2> QED
    BY <1>1, <1>2, <1>3, UpInduction
<1>5. MaxOrder \in Level(b) .. MaxOrder
  BY <1>1
<1> QED
  BY <1>4, <1>5, RootLevel

\* Of two nodes that overlap the higher one is an ancestor of the other.
LEMMA OverlapOnPath ==
  ASSUME NEW b \in Nodes, NEW c \in Nodes, Level(b) <= Level(c),
         Covers(b) \cap Covers(c) # {}, NEW P, IsPath(P, b)
  PROVE  P[Level(c)] = c
<1>1. PICK n : n \in Covers(b) /\ n \in Covers(c)
  OBVIOUS
<1>2. Level(c) \in Level(b) .. MaxOrder
  BY LevelType
<1>3. P[Level(c)] \in Nodes /\ Level(P[Level(c)]) = Level(c) /\ n \in Covers(P[Level(c)])
  BY <1>1, <1>2, PathType
<1> QED
  BY <1>1, <1>3, OneCovers

\* There is one way.
LEMMA OnePath ==
  ASSUME NEW b \in Nodes, NEW P, NEW Q, IsPath(P, b), IsPath(Q, b)
  PROVE  P = Q
<1> DEFINE T == {l \in Level(b) .. MaxOrder : P[l] = Q[l]}
<1>1. Level(b) \in Int /\ MaxOrder \in Int /\ Level(b) <= MaxOrder
  BY LevelType, SizesAssumption
<1>2. Level(b) \in T
  BY <1>1 DEF IsPath
<1>3. ASSUME NEW l \in Level(b) .. MaxOrder - 1, l \in T PROVE l + 1 \in T
  <2>1. l + 1 \in Level(b) + 1 .. MaxOrder /\ (l + 1) - 1 = l /\ l + 1 \in Level(b) .. MaxOrder
    BY <1>1
  <2>2. P[l + 1] = Parent(P[l]) /\ Q[l + 1] = Parent(Q[l])
    BY <2>1 DEF IsPath
  <2> QED
    BY <1>3, <2>1, <2>2
<1>4. Level(b) .. MaxOrder \subseteq T
  <2> HIDE DEF T
  <2> QED
    BY <1>1, <1>2, <1>3, UpInduction
<1>5. \A l \in Level(b) .. MaxOrder : P[l] = Q[l]
  BY <1>4
<1>6. /\ P = [l \in Level(b) .. MaxOrder |-> P[l]]
      /\ Q = [l \in Level(b) .. MaxOrder |-> Q[l]]
  BY DEF IsPath
<1> HIDE DEF T
<1> QED
  BY <1>5, <1>6

\* The nodes of a path and of those beside it.
LEMMA PathSteps ==
  ASSUME NEW b \in Nodes, NEW P, IsPath(P, b), NEW l \in Level(b) + 1 .. MaxOrder
  PROVE  LET c == P[l - 1]
             d == Sibling(c)
         IN  /\ P[l] \in Nodes /\ Level(P[l]) = l /\ Parent(c) = P[l]
             /\ c \in Nodes /\ Level(c) = l - 1
             /\ d \in Nodes /\ Level(d) = l - 1 /\ c # d
             /\ \/ c = 2 * P[l] /\ d = 2 * P[l] + 1
                \/ c = 2 * P[l] + 1 /\ d = 2 * P[l]
<1>1. l \in Level(b) .. MaxOrder /\ l - 1 \in Level(b) .. MaxOrder /\ l - 1 < MaxOrder
  BY LevelType, SizesAssumption
<1>2. P[l] \in Nodes /\ Level(P[l]) = l /\ P[l - 1] \in Nodes /\ Level(P[l - 1]) = l - 1
  BY <1>1, PathType
<1>3. P[l] = Parent(P[l - 1])
  BY DEF IsPath
<1>4. Level(P[l - 1]) < MaxOrder
  BY <1>1, <1>2
<1> QED
  BY <1>2, <1>3, <1>4, Family

-----------------------------------------------------------------------------
(* What update_buf_order makes of a tree.                                  *)

\* The order of a parent that was old.
Merged(mine, other, old, l) ==
  IF other < 0 /\ mine < 0 THEN FLIP_ORDER(l)
  ELSE IF other = mine THEN old + 1
  ELSE Max({other, mine})

LEMMA Larger ==
  ASSUME NEW m \in Int, NEW n \in Int
  PROVE  Max({m, n}) \in {m, n} /\ m <= Max({m, n}) /\ n <= Max({m, n})
<1>1. \E x \in {m, n} : \A y \in {m, n} : x >= y
  OBVIOUS
<1> QED
  BY <1>1 DEF Max

LEMMA MergedType ==
  ASSUME NEW mine \in Int, NEW other \in Int, NEW old \in Int, NEW l \in Int
  PROVE  Merged(mine, other, old, l) \in Int
<1>1. Max({other, mine}) \in {other, mine}
  BY Larger
<1>2. old + 1 \in Int /\ FLIP_ORDER(l) \in Int
  BY DEF FLIP_ORDER
<1> QED
  BY <1>1, <1>2 DEF Merged

\* The trees as one level after the other is updated.
ByLevels(up, tree, b, P) ==
  /\ up \in [Level(b) .. MaxOrder -> [Nodes -> Int]]
  /\ up[Level(b)] = tree
  /\ \A l \in Level(b) + 1 .. MaxOrder :
       up[l] = [up[l - 1] EXCEPT ![P[l]] = ParentOrder(up[l - 1], P[l - 1], l)]
  /\ Updated(tree, b, Level(b)) = up[MaxOrder]

LEMMA UpdatedByLevels ==
  ASSUME NEW tree \in [Nodes -> Int], NEW b \in Nodes, NEW P, IsPath(P, b)
  PROVE  \E up : ByLevels(up, tree, b, P)
<1> DEFINE o == Level(b)
           S == [Nodes -> Int]
           step == [l \in Int |-> [t \in S |->
                      IF l \in o + 1 .. MaxOrder
                      THEN [t EXCEPT ![P[l]] = ParentOrder(t, P[l - 1], l)] ELSE t]]
           above == CHOOSE f : f = [l \in o .. MaxOrder |-> IF l = o THEN b ELSE Parent(f[l - 1])]
           IsUp(g, A) == g = [l \in o .. MaxOrder |->
                               IF l = o THEN tree
                               ELSE [g[l - 1] EXCEPT ![A[l]] = ParentOrder(g[l - 1], A[l - 1], l)]]
           up == CHOOSE g : IsUp(g, above)
<1>1. o \in Int /\ MaxOrder \in Int /\ o <= MaxOrder
  BY LevelType, SizesAssumption
<1>2. step \in [Int -> [S -> S]]
  <2>1. ASSUME NEW l \in o + 1 .. MaxOrder, NEW t \in S
        PROVE  [t EXCEPT ![P[l]] = ParentOrder(t, P[l - 1], l)] \in S
    <3>1. /\ P[l] \in Nodes /\ P[l - 1] \in Nodes /\ Sibling(P[l - 1]) \in Nodes
          /\ Parent(P[l - 1]) = P[l] /\ l \in Int
      BY PathSteps, <1>1
    <3>2. ParentOrder(t, P[l - 1], l) = Merged(t[P[l - 1]], t[Sibling(P[l - 1])], t[P[l]], l)
      BY <3>1, Zenon DEF ParentOrder, Merged
    <3>3. t[P[l - 1]] \in Int /\ t[Sibling(P[l - 1])] \in Int /\ t[P[l]] \in Int
      BY <3>1
    <3>4. Merged(t[P[l - 1]], t[Sibling(P[l - 1])], t[P[l]], l) \in Int
      BY <3>1, <3>3, MergedType
    <3> QED
      BY <3>1, <3>2, <3>4
  <2> HIDE DEF o
  <2> QED
    BY <2>1
<1>3. PICK U : GoesUp(U, o, MaxOrder, S, tree, step)
  <2> HIDE DEF step, o
  <2> QED
    BY <1>1, <1>2, UpRecursion
<1>4. above = P
  <2>1. P = [l \in o .. MaxOrder |-> IF l = o THEN b ELSE Parent(P[l - 1])]
    <3>1. ASSUME NEW l \in o .. MaxOrder PROVE P[l] = IF l = o THEN b ELSE Parent(P[l - 1])
      BY <1>1 DEF IsPath
    <3> QED
      BY <3>1 DEF IsPath
  <2>2. above = [l \in o .. MaxOrder |-> IF l = o THEN b ELSE Parent(above[l - 1])]
    <3> HIDE DEF o
    <3> QED
      BY <2>1, Zenon
  <2>3. ASSUME NEW f, f = [l \in o .. MaxOrder |-> IF l = o THEN b ELSE Parent(f[l - 1])]
        PROVE  f = P
    <3> DEFINE T == {l \in o .. MaxOrder : f[l] = P[l]}
    <3>1. o \in T
      BY <1>1, <2>3 DEF IsPath
    <3>2. ASSUME NEW l \in o .. MaxOrder - 1, l \in T PROVE l + 1 \in T
      <4>1. l + 1 \in o .. MaxOrder /\ l + 1 # o /\ (l + 1) - 1 = l
        BY <1>1
      <4>2. f[l + 1] = Parent(f[l]) /\ P[l + 1] = Parent(P[l])
        <5> HIDE DEF o
        <5> QED
          BY <2>1, <2>3, <4>1
      <4> QED
        BY <3>2, <4>1, <4>2
    <3>3. o .. MaxOrder \subseteq T
      <4> HIDE DEF T, o
      <4> QED
        BY <1>1, <3>1, <3>2, UpInduction
    <3>4. \A l \in o .. MaxOrder : f[l] = P[l]
      BY <3>3
    <3>5. DOMAIN P = o .. MaxOrder
      BY DEF IsPath
    <3> HIDE DEF o, T
    <3> QED
      BY <2>1, <2>3, <3>4, <3>5
  <2> HIDE DEF above, o
  <2> QED
    BY <2>2, <2>3
<1>5. ASSUME NEW l \in o + 1 .. MaxOrder
      PROVE  U[l] = [U[l - 1] EXCEPT ![P[l]] = ParentOrder(U[l - 1], P[l - 1], l)]
  <2>1. l \in o .. MaxOrder /\ l # o /\ l - 1 \in o .. MaxOrder /\ l \in Int
    BY <1>1
  <2>2. U[l] = step[l][U[l - 1]] /\ U[l - 1] \in S
    <3> HIDE DEF step, o, S
    <3> QED
      BY <1>3, <2>1 DEF GoesUp
  <2> HIDE DEF S
  <2> QED
    BY <2>1, <2>2
<1>6. U[o] = tree /\ U \in [o .. MaxOrder -> S]
  <2>1. o \in o .. MaxOrder
    BY <1>1
  <2> HIDE DEF step, o, S
  <2> QED
    BY <1>3, <2>1 DEF GoesUp
<1>7. IsUp(U, P)
  <2>1. ASSUME NEW l \in o .. MaxOrder, l # o PROVE l \in o + 1 .. MaxOrder
    BY <1>1, <2>1
  <2> HIDE DEF o, S
  <2> QED
    BY <1>5, <1>6, <2>1
<1>8. IsUp(up, P)
  <2>1. IsUp(U, above)
    BY <1>4, <1>7
  <2>2. IsUp(up, above)
    <3> HIDE DEF above, IsUp
    <3> QED
      BY <2>1
  <2> QED
    BY <1>4, <2>2
<1>9. ASSUME NEW g, IsUp(g, P) PROVE g = U
  <2> DEFINE T == {l \in o .. MaxOrder : g[l] = U[l]}
  <2>1. o \in T
    <3>1. o \in o .. MaxOrder
      BY <1>1
    <3> HIDE DEF o
    <3> QED
      BY <1>6, <1>9, <3>1
  <2>2. ASSUME NEW l \in o .. MaxOrder - 1, l \in T PROVE l + 1 \in T
    <3>1. l + 1 \in o .. MaxOrder /\ l + 1 # o /\ (l + 1) - 1 = l /\ l + 1 \in o + 1 .. MaxOrder
      BY <1>1
    <3>2. g[l + 1] = [g[l] EXCEPT ![P[l + 1]] = ParentOrder(g[l], P[l], l + 1)]
      <4> HIDE DEF o
      <4> QED
        BY <1>9, <3>1
    <3>3. U[l + 1] = [U[l] EXCEPT ![P[l + 1]] = ParentOrder(U[l], P[l], l + 1)]
      <4> HIDE DEF o
      <4> QED
        BY <1>5, <3>1
    <3> HIDE DEF o
    <3> QED
      BY <2>2, <3>1, <3>2, <3>3
  <2>3. o .. MaxOrder \subseteq T
    <3> HIDE DEF T, o
    <3> QED
      BY <1>1, <2>1, <2>2, UpInduction
  <2>4. \A l \in o .. MaxOrder : g[l] = U[l]
    BY <2>3
  <2>5. g = [l \in o .. MaxOrder |-> g[l]]
    <3> HIDE DEF o
    <3> QED
      BY <1>9
  <2>6. U = [l \in o .. MaxOrder |-> U[l]]
    <3> HIDE DEF o, S
    <3> QED
      BY <1>6
  <2> HIDE DEF o, T, IsUp
  <2> QED
    BY <2>4, <2>5, <2>6
<1>10. Updated(tree, b, o) = up[MaxOrder]
  <2>1. ~(o > MaxOrder)
    BY <1>1
  <2> HIDE DEF o
  <2> QED
    BY <2>1, Zenon DEF Updated
<1>11. Updated(tree, b, o) = U[MaxOrder]
  <2> HIDE DEF up, IsUp
  <2> QED
    BY <1>8, <1>9, <1>10
<1>12. ByLevels(U, tree, b, P)
  <2> HIDE DEF step, above, up, IsUp
  <2> QED
    BY <1>5, <1>6, <1>11 DEF ByLevels
<1> QED
  BY <1>12

\* Nodes beside the path keep their order, those on it get what their children
\* make of them.
LEMMA UpdatedIs ==
  ASSUME NEW tree \in [Nodes -> Int], NEW b \in Nodes, NEW P, IsPath(P, b)
  PROVE  LET new == Updated(tree, b, Level(b))
         IN  /\ new \in [Nodes -> Int]
             /\ new[b] = tree[b]
             /\ \A n \in Nodes :
                  (\A l \in Level(b) + 1 .. MaxOrder : n # P[l]) => new[n] = tree[n]
             /\ \A l \in Level(b) + 1 .. MaxOrder :
                  new[P[l]] = Merged(new[P[l - 1]], tree[Sibling(P[l - 1])], tree[P[l]], l)
<1> DEFINE o == Level(b)
           Done(t, m) ==
             /\ t \in [Nodes -> Int]
             /\ t[b] = tree[b]
             /\ \A n \in Nodes : (\A l \in o + 1 .. m : n # P[l]) => t[n] = tree[n]
             /\ \A l \in o + 1 .. m :
                  t[P[l]] = Merged(t[P[l - 1]], tree[Sibling(P[l - 1])], tree[P[l]], l)
<1>1. o \in Int /\ MaxOrder \in Int /\ o <= MaxOrder
  BY LevelType, SizesAssumption
<1>2. PICK up : ByLevels(up, tree, b, P)
  BY UpdatedByLevels
<1> DEFINE T == {m \in o .. MaxOrder : Done(up[m], m)}
<1>3. o \in T
  <2>1. o \in o .. MaxOrder /\ o + 1 .. o = {}
    BY <1>1
  <2> QED
    BY <1>2, <2>1 DEF ByLevels
<1>4. ASSUME NEW m \in o .. MaxOrder - 1, m \in T PROVE m + 1 \in T
  <2> DEFINE t == up[m]
             p == P[m + 1]
             c == P[m]
             d == Sibling(P[m])
             u == [t EXCEPT ![p] = ParentOrder(t, c, m + 1)]
  <2>1. m \in Int /\ m + 1 \in o + 1 .. MaxOrder /\ (m + 1) - 1 = m /\ m + 1 \in o .. MaxOrder
    BY <1>1
  <2>2. up[m + 1] = u
    BY <1>2, <2>1 DEF ByLevels
  <2>3. Done(t, m)
    BY <1>4
  <2>4. /\ p \in Nodes /\ Level(p) = m + 1 /\ Parent(c) = p
        /\ c \in Nodes /\ Level(c) = m
        /\ d \in Nodes /\ Level(d) = m /\ c # d
    <3> HIDE DEF o
    <3> QED
      BY <2>1, PathSteps DEF o
  <2>5. \A l \in o .. m : P[l] \in Nodes /\ Level(P[l]) = l /\ P[l] # p
    <3>1. \A l \in o .. m : l \in o .. MaxOrder /\ l # m + 1
      BY <1>1, <2>1
    <3> QED
      BY <2>4, <3>1, PathType
  <2>6. b # p /\ P[o] = b
    <3>1. o # m + 1
      BY <1>1, <2>1
    <3> QED
      BY <2>4, <3>1 DEF IsPath
  <2>7. t[d] = tree[d] /\ t[p] = tree[p]
    <3>1. \A l \in o + 1 .. m : d # P[l] /\ p # P[l]
      <4>1. \A l \in o + 1 .. m : l \in o .. m
        BY <1>1
      <4> QED
        BY <2>4, <2>5, <4>1
    <3> QED
      BY <2>3, <2>4, <3>1
  <2>8. ParentOrder(t, c, m + 1) = Merged(t[c], tree[d], tree[p], m + 1)
    BY <2>4, <2>7, Zenon DEF ParentOrder, Merged
  <2>9. Merged(t[c], tree[d], tree[p], m + 1) \in Int
    <3>1. t[c] \in Int /\ tree[d] \in Int /\ tree[p] \in Int /\ m + 1 \in Int
      <4>1. t \in [Nodes -> Int]
        BY <2>3
      <4> HIDE DEF t, c, d, p
      <4> QED
        BY <2>1, <2>4, <4>1
    <3> QED
      BY <3>1, MergedType
  <2>10. /\ u \in [Nodes -> Int] /\ u[p] = Merged(t[c], tree[d], tree[p], m + 1)
         /\ \A n \in Nodes : n # p => u[n] = t[n]
    BY <2>3, <2>4, <2>8, <2>9
  <2> HIDE DEF u, t
  <2>11. u[b] = tree[b]
    BY <2>3, <2>6, <2>10
  <2>12. ASSUME NEW n \in Nodes, \A l \in o + 1 .. m + 1 : n # P[l] PROVE u[n] = tree[n]
    <3>1. n # p /\ \A l \in o + 1 .. m : n # P[l]
      BY <1>1, <2>1, <2>12
    <3> QED
      BY <2>3, <2>10, <3>1
  <2>13. ASSUME NEW l \in o + 1 .. m + 1
         PROVE  u[P[l]] = Merged(u[P[l - 1]], tree[Sibling(P[l - 1])], tree[P[l]], l)
    <3>1. CASE l = m + 1
      <4>1. c # p
        BY <2>1, <2>4
      <4> QED
        BY <2>1, <2>4, <2>10, <3>1, <4>1
    <3>2. CASE l # m + 1
      <4>1. l \in o + 1 .. m /\ l \in o .. m /\ l - 1 \in o .. m
        BY <1>1, <2>1, <3>2
      <4>2. u[P[l]] = t[P[l]] /\ u[P[l - 1]] = t[P[l - 1]]
        BY <2>5, <2>10, <4>1
      <4> QED
        BY <2>3, <4>1, <4>2
    <3> QED
      BY <3>1, <3>2
  <2>14. Done(u, m + 1)
    <3> HIDE DEF o
    <3> QED
      BY <2>10, <2>11, <2>12, <2>13
  <2> HIDE DEF Done
  <2> QED
    BY <2>1, <2>2, <2>14
<1>5. MaxOrder \in T
  <2> HIDE DEF T, o
  <2>1. o .. MaxOrder \subseteq T
    BY <1>1, <1>3, <1>4, UpInduction
  <2> QED
    BY <1>1, <2>1
<1>6. Done(up[MaxOrder], MaxOrder)
  BY <1>5
<1> QED
  BY <1>2, <1>6 DEF ByLevels

-----------------------------------------------------------------------------
(* The orders of a tree. F[b] are the orders of the free blocks below node *)
(* b, A the nodes that are in use.                                         *)

\* One set of orders is all below or all above the other.
Separated(G, H) ==
  \/ \A g \in G, h \in H : g < h
  \/ \A g \in G, h \in H : h < g

\* The order of a node of level l with these below it.
Says(v, G, l) == IF G = {} THEN v = FLIP_ORDER(l) ELSE v \in G /\ \A g \in G : g <= v

\* The halves of a block that is not split are as they were in the beginning.
Halves(F, b) == Level(b) > 0 => F[2 * b] = {Level(b) - 1} /\ F[2 * b + 1] = {Level(b) - 1}

InUse(F, A, b) == b \in A /\ F[b] = {} /\ Halves(F, b)
IsFree(F, A, b) == b \notin A /\ F[b] = {Level(b)} /\ Halves(F, b)
IsSplit(F, A, b) ==
  /\ b \notin A /\ Level(b) > 0
  /\ F[b] = F[2 * b] \cup F[2 * b + 1] /\ Separated(F[2 * b], F[2 * b + 1])

Tree(T, F, A) ==
  /\ T \in [Nodes -> Int]
  /\ DOMAIN F = Nodes
  /\ A \subseteq Nodes
  /\ \A b \in Nodes :
       /\ F[b] \subseteq 0 .. Level(b)
       /\ Says(T[b], F[b], Level(b))
       /\ InUse(F, A, b) \/ IsFree(F, A, b) \/ IsSplit(F, A, b)

LEMMA SaysOne ==
  ASSUME NEW G, G \subseteq Int, NEW v, NEW w, NEW l, Says(v, G, l), Says(w, G, l)
  PROVE  v = w
<1>1. CASE G = {}
  BY <1>1 DEF Says
<1>2. CASE G # {}
  <2>1. v \in G /\ w \in G /\ v <= w /\ w <= v
    BY <1>2 DEF Says
  <2> QED
    BY <2>1
<1> QED
  BY <1>1, <1>2

LEMMA SaysType ==
  ASSUME NEW G, G \subseteq Nat, NEW v, NEW l \in Nat, l > 0, Says(v, G, l - 1)
  PROVE  (G = {} => v < 0) /\ (G # {} => v \in G /\ v >= 0 /\ \A g \in G : g <= v)
<1>1. CASE G = {}
  <2>1. v = -(l - 1) - 1
    BY <1>1 DEF Says, FLIP_ORDER
  <2> QED
    BY <1>1, <2>1
<1>2. CASE G # {}
  <2>1. v \in G /\ \A g \in G : g <= v
    BY <1>2 DEF Says
  <2>2. v \in Nat
    BY <2>1
  <2> QED
    BY <1>2, <2>1, <2>2
<1> QED
  BY <1>1, <1>2

\* What siblings with separated orders make of their parent.
LEMMA MergedSays ==
  ASSUME NEW l \in Nat, NEW G, NEW H, G \subseteq Nat, H \subseteq Nat, Separated(G, H),
         NEW mine \in Int, NEW other \in Int, NEW old \in Int,
         Says(mine, G, l - 1), Says(other, H, l - 1), l > 0
  PROVE  Says(Merged(mine, other, old, l), G \cup H, l)
<1>1. (G = {} => mine < 0) /\ (G # {} => mine \in G /\ mine >= 0 /\ \A g \in G : g <= mine)
  BY SaysType
<1>2. (H = {} => other < 0) /\ (H # {} => other \in H /\ other >= 0 /\ \A h \in H : h <= other)
  BY SaysType
<1>3. CASE G = {} /\ H = {}
  BY <1>1, <1>2, <1>3 DEF Merged, Says
<1>4. CASE G # {} \/ H # {}
  <2>1. ~(other < 0 /\ mine < 0)
    BY <1>1, <1>2, <1>4
  <2>2. other # mine
    <3>1. G # {} /\ H # {} => other # mine
      BY <1>1, <1>2 DEF Separated
    <3> QED
      BY <1>1, <1>2, <1>4, <3>1
  <2>3. /\ Max({other, mine}) \in {other, mine}
        /\ other <= Max({other, mine}) /\ mine <= Max({other, mine})
    BY Larger
  <2> DEFINE v == Max({other, mine})
  <2>4. Merged(mine, other, old, l) = v
    BY <2>1, <2>2 DEF Merged
  <2>5. v \in {other, mine} /\ other <= v /\ mine <= v
    BY <2>3
  <2> HIDE DEF v
  <2>6. v \in G \cup H
    BY <1>1, <1>2, <1>4, <2>5
  <2>7. \A g \in G \cup H : g <= v
    BY <1>1, <1>2, <2>5
  <2> QED
    BY <1>4, <2>4, <2>6, <2>7 DEF Says
<1> QED
  BY <1>3, <1>4

-----------------------------------------------------------------------------
(* Which blocks are free.                                                  *)

HIDE DEF Nodes

\* A node with a free block of its own level is free.
LEMMA WholeIsFree ==
  ASSUME NEW T, NEW F, NEW A, Tree(T, F, A), NEW b \in Nodes, Level(b) \in F[b]
  PROVE  IsFree(F, A, b)
<1>1. F[b] \subseteq 0 .. Level(b) /\ (InUse(F, A, b) \/ IsFree(F, A, b) \/ IsSplit(F, A, b))
  BY DEF Tree
<1>2. ~InUse(F, A, b)
  BY DEF InUse
<1>3. ~IsSplit(F, A, b)
  <2> SUFFICES ASSUME IsSplit(F, A, b) PROVE FALSE
    OBVIOUS
  <2>1. Level(b) > 0 /\ Level(b) \in Nat
    BY LevelType DEF IsSplit
  <2>2. \A c \in {2 * b, 2 * b + 1} : F[c] \subseteq 0 .. Level(b) - 1
    BY <2>1, Children DEF Tree
  <2>3. Level(b) \notin 0 .. Level(b) - 1
    BY <2>1
  <2> QED
    BY <2>2, <2>3 DEF IsSplit
<1> QED
  BY <1>1, <1>2, <1>3

\* The nodes above one in use are split.
LEMMA AboveUse ==
  ASSUME NEW T, NEW F, NEW A, Tree(T, F, A), NEW c \in A, NEW P, IsPath(P, c),
         NEW l \in Level(c) + 1 .. MaxOrder
  PROVE  IsSplit(F, A, P[l])
<1> DEFINE S == {m \in Level(c) .. MaxOrder :
                   m \notin F[P[m]] /\ (m # Level(c) => IsSplit(F, A, P[m]))}
           o == Level(c)
<1>1. c \in Nodes /\ o \in Int /\ MaxOrder \in Int /\ o <= MaxOrder
  <2>1. c \in Nodes
    BY DEF Tree
  <2> QED
    BY <2>1, LevelType, SizesAssumption
<1>2. Level(c) \in S
  <2>1. P[o] = c /\ F[c] = {} /\ o \in o .. MaxOrder
    <3>1. ~IsFree(F, A, c) /\ ~IsSplit(F, A, c)
      BY DEF IsFree, IsSplit
    <3>2. InUse(F, A, c)
      BY <1>1, <3>1 DEF Tree
    <3> QED
      BY <1>1, <3>2 DEF InUse, IsPath
  <2> QED
    BY <2>1
<1>3. ASSUME NEW m \in o .. MaxOrder - 1, m \in S PROVE m + 1 \in S
  <2> DEFINE p == P[m + 1]
  <2>1. m \in Int /\ m + 1 \in o + 1 .. MaxOrder /\ (m + 1) - 1 = m /\ m + 1 \in o .. MaxOrder /\ m + 1 # o
    BY <1>1
  <2>2. /\ p \in Nodes /\ Level(p) = m + 1
        /\ P[m] = 2 * p \/ P[m] = 2 * p + 1
    <3> HIDE DEF o
    <3> QED
      BY <1>1, <2>1, PathSteps DEF o
  <2>3. Level(p) > 0
    <3>1. m >= 0
      BY <1>1, LevelType
    <3> QED
      BY <2>1, <2>2, <3>1
  <2>4. m \notin F[P[m]]
    BY <1>3
  <2> HIDE DEF p
  <2>5. ~Halves(F, p)
    <3>1. Level(p) - 1 = m
      BY <2>1, <2>2
    <3> QED
      BY <2>2, <2>3, <2>4, <3>1 DEF Halves
  <2>6. IsSplit(F, A, p)
    BY <2>2, <2>5 DEF Tree, InUse, IsFree
  <2>7. m + 1 \notin F[p]
    <3> SUFFICES ASSUME m + 1 \in F[p] PROVE FALSE
      OBVIOUS
    <3>1. IsFree(F, A, p)
      BY <2>2, WholeIsFree
    <3> QED
      BY <2>5, <3>1 DEF IsFree
  <2> QED
    BY <2>1, <2>6, <2>7 DEF p
<1>4. o .. MaxOrder \subseteq S
  <2> HIDE DEF S, o
  <2> QED
    BY <1>1, <1>2, <1>3, UpInduction DEF o
<1>5. l \in o .. MaxOrder /\ l # Level(c)
  BY <1>1
<1> QED
  BY <1>4, <1>5

\* Nodes in use do not overlap.
LEMMA UsedApart ==
  ASSUME NEW T, NEW F, NEW A, Tree(T, F, A), NEW b \in A, NEW c \in A, b # c
  PROVE  Covers(b) \cap Covers(c) = {}
<1>1. ASSUME NEW d \in A, NEW e \in A, d # e, Level(d) <= Level(e), Covers(d) \cap Covers(e) # {}
      PROVE  FALSE
  <2>1. d \in Nodes /\ e \in Nodes
    BY DEF Tree
  <2>2. PICK P : IsPath(P, d)
    BY <2>1, PathExists
  <2>3. P[Level(e)] = e
    BY <1>1, <2>1, <2>2, OverlapOnPath
  <2>4. Level(e) # Level(d)
    BY <1>1, <2>1, <2>2, <2>3 DEF IsPath
  <2>5. Level(e) \in Level(d) + 1 .. MaxOrder
    BY <1>1, <2>1, <2>4, LevelType, SizesAssumption
  <2>6. IsSplit(F, A, e)
    BY <2>2, <2>3, <2>5, AboveUse
  <2> QED
    BY <2>6 DEF IsSplit
<1>2. Level(b) \in Int /\ Level(c) \in Int
  <2>1. b \in Nodes /\ c \in Nodes
    BY DEF Tree
  <2> QED
    BY <2>1, LevelType
<1>3. Level(b) <= Level(c) \/ Level(c) <= Level(b)
  BY <1>2
<1> QED
  BY <1>1, <1>3

\* Nor does a free node overlap with one in use.
LEMMA FreeApart ==
  ASSUME NEW T, NEW F, NEW A, Tree(T, F, A), NEW b \in Nodes, NEW c \in A, NEW P, IsPath(P, b),
         IsFree(F, A, b), \A l \in Level(b) .. MaxOrder : P[l] \notin A
  PROVE  Covers(b) \cap Covers(c) = {}
<1> SUFFICES ASSUME Covers(b) \cap Covers(c) # {} PROVE FALSE
  OBVIOUS
<1>1. c \in Nodes
  BY DEF Tree
<1>2. Level(b) \in 0 .. MaxOrder /\ Level(c) \in 0 .. MaxOrder
  BY <1>1, LevelType
<1>3. CASE Level(b) <= Level(c)
  <2>1. P[Level(c)] = c /\ Level(c) \in Level(b) .. MaxOrder
    BY <1>1, <1>2, <1>3, OverlapOnPath
  <2> QED
    BY <2>1
<1>4. CASE Level(c) < Level(b)
  <2>1. PICK Q : IsPath(Q, c)
    BY <1>1, PathExists
  <2>2. Level(c) <= Level(b) /\ Covers(c) \cap Covers(b) # {} /\ Level(b) \in Level(c) + 1 .. MaxOrder
    BY <1>2, <1>4
  <2>3. Q[Level(b)] = b
    BY <1>1, <2>1, <2>2, OverlapOnPath
  <2>4. IsSplit(F, A, b)
    BY <2>1, <2>2, <2>3, AboveUse
  <2>5. Level(b) \in F[b]
    BY DEF IsFree
  <2>6. \A d \in {2 * b, 2 * b + 1} : F[d] \subseteq 0 .. Level(b) - 1
    BY <2>4, Children DEF IsSplit, Tree
  <2>7. Level(b) \notin 0 .. Level(b) - 1
    BY <1>2
  <2> QED
    BY <2>4, <2>5, <2>6, <2>7 DEF IsSplit
<1> QED
  BY <1>2, <1>3, <1>4

\* A node in use is marked with its order.
LEMMA UsedIsMarked ==
  ASSUME NEW T, NEW F, NEW A, Tree(T, F, A), NEW b \in A
  PROVE  b \in Nodes /\ T[b] = FLIP_ORDER(Level(b))
<1>1. b \in Nodes
  BY DEF Tree
<1>2. ~IsFree(F, A, b) /\ ~IsSplit(F, A, b)
  BY DEF IsFree, IsSplit
<1>3. InUse(F, A, b) /\ Says(T[b], F[b], Level(b))
  BY <1>1, <1>2 DEF Tree
<1> QED
  BY <1>1, <1>3 DEF InUse, Says

\* A node without a block in use is whole, in a free block or in one in use.
LEMMA WholeOrUsed ==
  ASSUME NEW T, NEW F, NEW A, Tree(T, F, A), NEW b \in Nodes,
         \A a \in A : ~(Covers(a) \subseteq Covers(b))
  PROVE  F[b] = {Level(b)}
<1> DEFINE Whole(c) == F[c] = {Level(c)} \/ \E a \in A : Covers(a) \subseteq Covers(c)
           S == {n \in 0 .. MaxOrder : \A c \in Nodes : Level(c) = n => Whole(c)}
<1>1. ASSUME NEW c \in Nodes, ~IsSplit(F, A, c) PROVE Whole(c)
  <2>1. InUse(F, A, c) \/ IsFree(F, A, c)
    BY <1>1 DEF Tree
  <2> QED
    BY <2>1 DEF InUse, IsFree
<1>2. 0 \in S
  <2>1. ASSUME NEW c \in Nodes, Level(c) = 0 PROVE Whole(c)
    <3>1. ~IsSplit(F, A, c)
      BY <2>1 DEF IsSplit
    <3> QED
      BY <1>1, <3>1
  <2>2. 0 \in 0 .. MaxOrder
    BY SizesAssumption
  <2> QED
    BY <2>1, <2>2
<1>3. ASSUME NEW n \in 0 .. MaxOrder - 1, n \in S PROVE n + 1 \in S
  <2>1. n + 1 \in 0 .. MaxOrder /\ n \in Int /\ (n + 1) - 1 = n /\ n + 1 > 0 /\ n < MaxOrder
    BY SizesAssumption
  <2>2. ASSUME NEW c \in Nodes, Level(c) = n + 1 PROVE Whole(c)
    <3>1. CASE ~IsSplit(F, A, c)
      BY <1>1, <3>1
    <3>2. CASE IsSplit(F, A, c)
      <4>1. PICK d \in {2 * c, 2 * c + 1} : F[d] # {n}
        <5>1. ~Separated({n}, {n})
          BY <2>1 DEF Separated
        <5> QED
          BY <3>2, <5>1 DEF IsSplit
      <4>2. d \in Nodes /\ Level(d) = n /\ Parent(d) = c
        <5>1. Level(c) > 0
          BY <2>1, <2>2
        <5> QED
          BY <2>1, <2>2, <5>1, Children
      <4>3. PICK a \in A : Covers(a) \subseteq Covers(d)
        BY <1>3, <4>1, <4>2
      <4>4. Covers(d) \subseteq Covers(c)
        BY <2>1, <4>2, CoveredByParent
      <4> QED
        BY <4>3, <4>4
    <3> QED
      BY <3>1, <3>2
  <2> HIDE DEF Whole
  <2> QED
    BY <2>1, <2>2
<1>4. 0 .. MaxOrder \subseteq S
  <2> HIDE DEF S
  <2>1. 0 \in Int /\ MaxOrder \in Int
    BY SizesAssumption
  <2> QED
    BY <1>2, <1>3, <2>1, UpInduction
<1>5. Level(b) \in 0 .. MaxOrder
  BY LevelType
<1>6. Whole(b)
  <2> HIDE DEF Whole
  <2> QED
    BY <1>4, <1>5
<1> QED
  BY <1>6

\* The order of the root is no less than that of any block that is free.
LEMMA RootKnows ==
  ASSUME NEW T, NEW F, NEW A, Tree(T, F, A), NEW b \in Nodes,
         \A a \in A : Covers(a) \cap Covers(b) = {}
  PROVE  Level(b) <= T[1]
<1>1. PICK P : IsPath(P, b)
  BY PathExists
<1> DEFINE S == {l \in Level(b) .. MaxOrder : \E y \in F[P[l]] : Level(b) <= y}
<1>2. Level(b) \in Nat /\ MaxOrder \in Nat /\ Level(b) <= MaxOrder
  BY LevelType, SizesAssumption
<1>3. Level(b) \in S
  <2>1. F[b] = {Level(b)}
    <3>1. ASSUME NEW a \in A PROVE ~(Covers(a) \subseteq Covers(b))
      <4>1. a \in Nodes
        BY DEF Tree
      <4>2. Covers(a) # {}
        BY <4>1, CoversSome
      <4>3. Covers(a) \cap Covers(b) = {}
        OBVIOUS
      <4> QED
        BY <4>2, <4>3
    <3> QED
      BY <3>1, WholeOrUsed
  <2>2. Level(b) \in Level(b) .. MaxOrder /\ P[Level(b)] = b /\ Level(b) <= Level(b)
    BY <1>1, <1>2 DEF IsPath
  <2> QED
    BY <2>1, <2>2
<1>4. ASSUME NEW l \in Level(b) .. MaxOrder - 1, l \in S PROVE l + 1 \in S
  <2> DEFINE p == P[l + 1]
             c == P[l]
  <2>1. l \in Int /\ l + 1 \in Level(b) + 1 .. MaxOrder /\ (l + 1) - 1 = l /\ l + 1 \in Level(b) .. MaxOrder
    BY <1>2
  <2>2. /\ p \in Nodes /\ Level(p) = l + 1
        /\ c = 2 * p \/ c = 2 * p + 1
    BY <1>1, <2>1, PathSteps
  <2>3. PICK y \in F[c] : Level(b) <= y
    BY <1>4
  <2>4. Covers(b) \subseteq Covers(p)
    BY <1>1, <2>1, PathType
  <2> HIDE DEF p, c
  <2>5. p \notin A
    <3>1. Covers(b) # {}
      BY CoversSome
    <3> QED
      BY <2>4, <3>1
  <2>6. CASE IsFree(F, A, p)
    <3>1. l + 1 \in F[p] /\ Level(b) <= l + 1
      BY <1>2, <2>1, <2>2, <2>6 DEF IsFree
    <3> QED
      BY <2>1, <3>1 DEF p
  <2>7. CASE IsSplit(F, A, p)
    <3>1. y \in F[p]
      BY <2>2, <2>3, <2>7 DEF IsSplit
    <3> QED
      BY <2>1, <2>3, <3>1 DEF p
  <2> QED
    BY <2>2, <2>5, <2>6, <2>7 DEF Tree, InUse
<1>5. MaxOrder \in S
  <2> HIDE DEF S
  <2>1. Level(b) \in Int /\ MaxOrder \in Int
    BY <1>2
  <2>2. Level(b) .. MaxOrder \subseteq S
    BY <1>3, <1>4, <2>1, UpInduction
  <2> QED
    BY <1>2, <2>2
<1>6. PICK y \in F[1] : Level(b) <= y
  <2>1. P[MaxOrder] = 1
    BY <1>1, PathType
  <2> QED
    BY <1>5, <2>1
<1>7. F[1] \subseteq 0 .. Level(1) /\ Says(T[1], F[1], Level(1)) /\ T[1] \in Int
  BY RootLevel DEF Tree
<1>8. y <= T[1] /\ y \in Int
  BY <1>6, <1>7, RootLevel, SizesAssumption DEF Says
<1> QED
  BY <1>2, <1>6, <1>7, <1>8

-----------------------------------------------------------------------------
(* get_emi_buf.                                                            *)

\* c is the child of b to go to for a block of order o.
BestChild(c, b, o) ==
  /\ c \in {2 * b, 2 * b + 1}
  /\ \A d \in {2 * b, 2 * b + 1} : o <= order[d] => o <= order[c] /\ order[c] <= order[d]

LEMMA DescendIs ==
  ASSUME order \in [Nodes -> Int], NEW b \in Nodes, Level(b) > 0, NEW o \in Int
  PROVE  BestChild(Descend(b, o), b, o)
<1> DEFINE fitting == {c \in {2 * b, 2 * b + 1} : order[c] >= o}
           Best(c) == \A d \in fitting \ {c} :
                        order[c] < order[d] \/ (order[c] = order[d] /\ c < d)
<1>1. 2 * b \in Nodes /\ 2 * b + 1 \in Nodes /\ 2 * b \in Int /\ 2 * b < 2 * b + 1
  <2>1. b \in Int
    BY DEF Nodes
  <2> QED
    BY <2>1, Children
<1>2. order[2 * b] \in Int /\ order[2 * b + 1] \in Int
  BY <1>1
<1>3. CASE fitting = {}
  <2>1. Descend(b, o) = 2 * b + 1
    BY <1>3, Zenon DEF Descend
  <2>2. \A d \in {2 * b, 2 * b + 1} : ~(o <= order[d])
    BY <1>2, <1>3
  <2> QED
    BY <2>1, <2>2 DEF BestChild
<1>4. CASE fitting # {}
  <2>1. Descend(b, o) = CHOOSE c \in fitting : Best(c)
    BY <1>4, Zenon DEF Descend
  <2>2. \E c \in fitting : Best(c)
    <3>1. CASE 2 * b \in fitting /\ 2 * b + 1 \in fitting
      <4>1. Best(2 * b) \/ Best(2 * b + 1)
        BY <1>1, <1>2
      <4> HIDE DEF fitting, Best
      <4> QED
        BY <3>1, <4>1
    <3>2. ASSUME NEW c \in {2 * b, 2 * b + 1}, fitting = {c} PROVE Best(c)
      <4> HIDE DEF fitting
      <4> QED
        BY <3>2
    <3>3. \/ 2 * b \in fitting /\ 2 * b + 1 \in fitting
          \/ \E c \in {2 * b, 2 * b + 1} : fitting = {c}
      BY <1>4
    <3> HIDE DEF Best, fitting
    <3> QED
      BY <3>1, <3>2, <3>3
  <2>3. Descend(b, o) \in fitting /\ Best(Descend(b, o))
    <3> HIDE DEF fitting, Best
    <3> QED
      BY <2>1, <2>2
  <2> DEFINE e == Descend(b, o)
  <2>4. e \in {2 * b, 2 * b + 1} /\ o <= order[e] /\ order[e] \in Int
    BY <1>2, <2>3
  <2>5. ASSUME NEW d \in {2 * b, 2 * b + 1}, o <= order[d] PROVE order[e] <= order[d]
    <3>1. d \in fitting /\ order[d] \in Int
      BY <1>2, <2>5
    <3>2. CASE d = e
      BY <2>4, <3>2
    <3>3. CASE d # e
      <4>1. order[e] < order[d] \/ order[e] = order[d]
        <5> HIDE DEF e, fitting
        <5> QED
          BY <2>3, <3>1, <3>3 DEF e
      <4> QED
        BY <2>4, <3>1, <4>1
    <3> QED
      BY <3>2, <3>3
  <2> HIDE DEF e
  <2>6. BestChild(e, b, o)
    BY <2>4, <2>5 DEF BestChild
  <2> QED
    BY <2>6 DEF e
<1> QED
  BY <1>3, <1>4

\* The way down for a block of order o.
IsDescent(P, o) ==
  /\ IsPath(P, Fit(o)) /\ Fit(o) \in Nodes /\ Level(Fit(o)) = o
  /\ \A l \in o + 1 .. MaxOrder : BestChild(P[l - 1], P[l], o)

LEMMA FitIs ==
  ASSUME order \in [Nodes -> Int], NEW o \in 0 .. MaxOrder
  PROVE  \E P : IsDescent(P, o)
<1> DEFINE step == [n \in Int |-> [c \in Nodes |-> IF Level(c) > o THEN Descend(c, o) ELSE c]]
           IsDown(f) == f = [l \in o .. MaxOrder |-> IF l = MaxOrder THEN 1 ELSE Descend(f[l + 1], o)]
           down == CHOOSE f : IsDown(f)
<1>1. o \in Int /\ o >= 0 /\ MaxOrder \in Int /\ o <= MaxOrder /\ 1 \in Nodes
  BY SizesAssumption, RootLevel
<1>2. ASSUME NEW c \in Nodes, Level(c) > o
      PROVE  /\ BestChild(Descend(c, o), c, o)
             /\ Descend(c, o) \in Nodes /\ Level(Descend(c, o)) = Level(c) - 1
             /\ Parent(Descend(c, o)) = c
  <2>1. Level(c) > 0
    BY <1>1, <1>2, LevelType
  <2>2. BestChild(Descend(c, o), c, o)
    BY <1>1, <2>1, DescendIs
  <2>3. Descend(c, o) \in {2 * c, 2 * c + 1}
    BY <2>2 DEF BestChild
  <2> QED
    BY <2>1, <2>2, <2>3, Children
<1>3. step \in [Int -> [Nodes -> Nodes]]
  BY <1>2
<1>4. PICK P : GoesDown(P, o, MaxOrder, Nodes, 1, step)
  <2> HIDE DEF step
  <2> QED
    BY <1>1, <1>3, DownRecursion
<1>5. P \in [o .. MaxOrder -> Nodes]
  <2> HIDE DEF step
  <2> QED
    BY <1>4 DEF GoesDown
<1>6. P[MaxOrder] = 1
  <2>1. MaxOrder \in o .. MaxOrder
    BY <1>1
  <2> HIDE DEF step
  <2> QED
    BY <1>4, <2>1 DEF GoesDown
<1>7. ASSUME NEW l \in o + 1 .. MaxOrder
      PROVE  P[l] \in Nodes /\ (Level(P[l]) = l => P[l - 1] = Descend(P[l], o))
  <2>1. l - 1 \in o .. MaxOrder /\ l - 1 # MaxOrder /\ (l - 1) + 1 = l /\ l > o /\ l \in o .. MaxOrder /\ l - 1 \in Int
    BY <1>1
  <2>2. P[l - 1] = step[l - 1][P[l]]
    <3> HIDE DEF step
    <3> QED
      BY <1>4, <2>1 DEF GoesDown
  <2>3. P[l] \in Nodes
    BY <1>5, <2>1
  <2> QED
    BY <2>1, <2>2, <2>3
<1>8. \A l \in o .. MaxOrder : Level(P[l]) = l
  <2> DEFINE S == {l \in o .. MaxOrder : Level(P[l]) = l}
  <2>1. MaxOrder \in S
    BY <1>1, <1>6, RootLevel
  <2>2. ASSUME NEW l \in o + 1 .. MaxOrder, l \in S PROVE l - 1 \in S
    <3>1. l - 1 \in o .. MaxOrder /\ l > o
      BY <1>1
    <3>2. P[l - 1] = Descend(P[l], o) /\ P[l] \in Nodes /\ Level(P[l]) = l
      BY <1>7, <2>2
    <3>3. Level(P[l - 1]) = l - 1
      BY <1>2, <3>1, <3>2
    <3> QED
      BY <3>1, <3>3
  <2>3. o .. MaxOrder \subseteq S
    <3> HIDE DEF S
    <3> QED
      BY <1>1, <2>1, <2>2, DownInduction
  <2> QED
    BY <2>3
<1>9. ASSUME NEW l \in o + 1 .. MaxOrder
      PROVE  /\ P[l - 1] = Descend(P[l], o) /\ P[l] = Parent(P[l - 1])
             /\ BestChild(P[l - 1], P[l], o)
  <2>1. l > o /\ l \in o .. MaxOrder
    BY <1>1
  <2>2. Level(P[l]) = l
    BY <1>8, <2>1
  <2>3. P[l - 1] = Descend(P[l], o) /\ P[l] \in Nodes
    BY <1>7, <2>2
  <2> QED
    BY <1>2, <2>1, <2>2, <2>3
<1>10. IsDown(P)
  <2>1. ASSUME NEW l \in o .. MaxOrder
        PROVE  P[l] = IF l = MaxOrder THEN 1 ELSE Descend(P[l + 1], o)
    <3>1. l # MaxOrder => l + 1 \in o + 1 .. MaxOrder /\ (l + 1) - 1 = l
      BY <1>1
    <3> QED
      BY <1>6, <1>9, <3>1
  <2> QED
    BY <1>5, <2>1
<1>11. IsDown(down)
  <2> HIDE DEF IsDown
  <2> QED
    BY <1>10
<1>12. down = P
  <2> DEFINE S == {l \in o .. MaxOrder : down[l] = P[l]}
  <2> HIDE DEF down
  <2>1. MaxOrder \in S
    <3>1. MaxOrder \in o .. MaxOrder
      BY <1>1
    <3> QED
      BY <1>10, <1>11, <3>1
  <2>2. ASSUME NEW l \in o + 1 .. MaxOrder, l \in S PROVE l - 1 \in S
    <3>1. l - 1 \in o .. MaxOrder /\ l - 1 # MaxOrder /\ (l - 1) + 1 = l
      BY <1>1
    <3>2. down[l - 1] = Descend(down[l], o) /\ P[l - 1] = Descend(P[l], o)
      BY <1>10, <1>11, <3>1
    <3> QED
      BY <2>2, <3>1, <3>2
  <2>3. o .. MaxOrder \subseteq S
    <3> HIDE DEF S
    <3> QED
      BY <1>1, <2>1, <2>2, DownInduction
  <2>4. \A l \in o .. MaxOrder : down[l] = P[l]
    BY <2>3
  <2>5. down = [l \in o .. MaxOrder |-> down[l]] /\ P = [l \in o .. MaxOrder |-> P[l]]
    BY <1>5, <1>11
  <2> HIDE DEF S, IsDown
  <2> QED
    BY <2>4, <2>5
<1>13. Fit(o) = P[o]
  <2>1. ~(o > MaxOrder)
    BY <1>1
  <2>2. Fit(o) = down[o]
    BY <2>1, Zenon DEF Fit
  <2> QED
    BY <1>12, <2>2
<1>14. Fit(o) \in Nodes /\ Level(Fit(o)) = o
  <2>1. o \in o .. MaxOrder
    BY <1>1
  <2> QED
    BY <1>5, <1>8, <1>13, <2>1
<1>15. IsPath(P, Fit(o))
  <2>1. P \in [o .. MaxOrder -> Int]
    BY <1>5 DEF Nodes
  <2> HIDE DEF step, down, IsDown
  <2> QED
    BY <1>9, <1>13, <1>14, <2>1 DEF IsPath
<1>16. IsDescent(P, o)
  <2> HIDE DEF step, down, IsDown
  <2> QED
    BY <1>9, <1>14, <1>15 DEF IsDescent
<1> QED
  BY <1>16

\* P leads to the block of order o that is handed out, x is the order of the
\* free block it is cut from: the smallest that holds it.
Fitted(P, x, o, F, A) ==
  /\ o \in 0 .. MaxOrder
  /\ IsPath(P, Fit(o)) /\ Fit(o) \in Nodes /\ Level(Fit(o)) = o
  /\ x \in o .. MaxOrder
  /\ \A l \in x + 1 .. MaxOrder : IsSplit(F, A, P[l]) /\ x \in F[P[l]]
  /\ \A l \in o .. x : IsFree(F, A, P[l])
  /\ \A l \in x .. MaxOrder : \A y \in F[P[l]] : o <= y => x <= y

LEMMA BestFit ==
  ASSUME NEW F, NEW A, Tree(order, F, A), NEW o \in Nat, o <= order[1]
  PROVE  \E P, x : Fitted(P, x, o, F, A)
<1>1. /\ order \in [Nodes -> Int] /\ MaxOrder \in Nat
      /\ \A b \in Nodes : /\ F[b] \subseteq 0 .. Level(b)
                          /\ F[b] # {} => order[b] \in F[b] /\ \A y \in F[b] : y <= order[b]
                          /\ F[b] = {} => order[b] < 0
  <2>1. order \in [Nodes -> Int] /\ MaxOrder \in Nat
    BY SizesAssumption DEF Tree
  <2>2. ASSUME NEW b \in Nodes
        PROVE  /\ F[b] \subseteq 0 .. Level(b)
               /\ F[b] # {} => order[b] \in F[b] /\ \A y \in F[b] : y <= order[b]
               /\ F[b] = {} => order[b] < 0
    <3>1. F[b] \subseteq 0 .. Level(b) /\ Says(order[b], F[b], Level(b)) /\ Level(b) \in Nat
      BY LevelType DEF Tree
    <3> QED
      BY <3>1 DEF Says, FLIP_ORDER
  <2> QED
    BY <2>1, <2>2
<1> DEFINE Y == {y \in F[1] : o <= y}
<1>2. order[1] \in Y /\ Y \subseteq Nat /\ Y \subseteq 0 .. MaxOrder
  BY <1>1, RootLevel
<1>3. PICK x \in Y : \A y \in Y : x <= y
  <2> HIDE DEF Y
  <2> QED
    BY <1>2, LeastNumber
<1>4. x \in o .. MaxOrder /\ o \in 0 .. MaxOrder /\ x \in Int /\ x \in F[1] /\ \A y \in F[1] : o <= y => x <= y
  <2>1. x \in 0 .. MaxOrder /\ x \in F[1] /\ o <= x
    BY <1>2, <1>3
  <2>2. \A y \in F[1] : o <= y => x <= y
    BY <1>3
  <2> QED
    BY <1>1, <2>1, <2>2
<1>5. PICK P : IsDescent(P, o)
  BY <1>1, <1>4, FitIs
<1>6. IsPath(P, Fit(o)) /\ Fit(o) \in Nodes /\ Level(Fit(o)) = o
  BY <1>5 DEF IsDescent
<1> DEFINE Least(l) == x \in F[P[l]] /\ \A y \in F[P[l]] : o <= y => x <= y
           S == {l \in x .. MaxOrder : Least(l)}
<1>7. MaxOrder \in S
  <2>1. MaxOrder \in x .. MaxOrder /\ P[MaxOrder] = 1
    BY <1>1, <1>4, <1>6, PathType
  <2> QED
    BY <1>4, <2>1
<1>8. ASSUME NEW l \in x + 1 .. MaxOrder, Least(l) PROVE IsSplit(F, A, P[l]) /\ Least(l - 1)
  <2> DEFINE p == P[l]
             c == P[l - 1]
             d == Sibling(P[l - 1])
  <2>1. l \in o + 1 .. MaxOrder /\ l \in Int /\ x < l
    BY <1>1, <1>4
  <2>2. /\ p \in Nodes /\ Level(p) = l /\ c \in Nodes /\ d \in Nodes
        /\ \/ c = 2 * p /\ d = 2 * p + 1
           \/ c = 2 * p + 1 /\ d = 2 * p
    BY <1>6, <2>1, PathSteps
  <2>3. BestChild(c, p, o)
    BY <1>5, <2>1 DEF IsDescent
  <2>4. x \in F[p] /\ \A y \in F[p] : o <= y => x <= y
    BY <1>8
  <2> HIDE DEF p, c, d
  <2>5. IsSplit(F, A, p)
    <3>1. ~InUse(F, A, p) /\ ~IsFree(F, A, p)
      BY <2>1, <2>2, <2>4 DEF InUse, IsFree
    <3> QED
      BY <2>2, <3>1 DEF Tree
  <2>6. F[p] = F[c] \cup F[d] /\ (Separated(F[c], F[d]) \/ Separated(F[d], F[c]))
    BY <2>2, <2>5 DEF IsSplit
  <2>7. \/ \A y \in F[c], z \in F[d] : y < z
        \/ \A y \in F[c], z \in F[d] : z < y
    BY <2>6 DEF Separated
  <2>8. o <= order[d] => o <= order[c] /\ order[c] <= order[d]
    BY <2>2, <2>3 DEF BestChild
  <2>9. x \in F[c]
    <3> SUFFICES ASSUME x \in F[d], x \notin F[c] PROVE FALSE
      BY <2>4, <2>6
    <3>1. order[c] \in Int /\ order[d] \in Int
      BY <1>1, <2>2
    <3>2. order[d] \in F[d] /\ x <= order[d]
      BY <1>1, <2>2
    <3>3. o <= order[d]
      BY <1>4, <3>1, <3>2
    <3>4. order[c] \in F[c]
      BY <1>1, <2>2, <2>8, <3>1, <3>3
    <3>5. x <= order[c]
      BY <2>4, <2>6, <2>8, <3>3, <3>4
    <3>6. order[c] < x \/ order[d] < order[c]
      BY <2>7, <3>2, <3>4
    <3> QED
      BY <1>4, <2>8, <3>1, <3>3, <3>5, <3>6
  <2> QED
    BY <2>4, <2>5, <2>6, <2>9 DEF p, c
<1>9. x .. MaxOrder \subseteq S
  <2>1. ASSUME NEW l \in x + 1 .. MaxOrder, l \in S PROVE l - 1 \in S
    <3>1. l - 1 \in x .. MaxOrder
      BY <1>1, <1>4
    <3> QED
      BY <1>8, <2>1, <3>1
  <2>2. x \in Int /\ MaxOrder \in Int
    BY <1>1, <1>4
  <2> HIDE DEF S
  <2> QED
    BY <1>7, <2>1, <2>2, DownInduction
<1>10. \A l \in x .. MaxOrder : Least(l)
  BY <1>9
<1>11. ASSUME NEW l \in x + 1 .. MaxOrder PROVE IsSplit(F, A, P[l]) /\ x \in F[P[l]]
  <2>1. l \in x .. MaxOrder
    BY <1>1, <1>4
  <2> QED
    BY <1>8, <1>10, <2>1
<1> DEFINE R == {l \in o .. x : IsFree(F, A, P[l])}
<1>12. x \in R
  <2>1. x \in x .. MaxOrder /\ x \in o .. x /\ x \in o .. MaxOrder
    BY <1>1, <1>4
  <2>2. P[x] \in Nodes /\ Level(P[x]) = x /\ x \in F[P[x]]
    BY <1>6, <1>10, <2>1, PathType
  <2> QED
    BY <2>1, <2>2, WholeIsFree
<1>13. ASSUME NEW l \in o + 1 .. x, l \in R PROVE l - 1 \in R
  <2>1. l - 1 \in o .. x /\ l \in o + 1 .. MaxOrder /\ l > 0 /\ l - 1 \in o .. MaxOrder
    BY <1>1, <1>4
  <2>2. /\ P[l] \in Nodes /\ Level(P[l]) = l /\ P[l - 1] \in Nodes /\ Level(P[l - 1]) = l - 1
        /\ P[l - 1] \in {2 * P[l], 2 * P[l] + 1}
    BY <1>6, <2>1, PathSteps
  <2>3. F[P[l - 1]] = {l - 1}
    BY <1>13, <2>1, <2>2 DEF IsFree, Halves
  <2> QED
    BY <2>1, <2>2, <2>3, WholeIsFree
<1>14. \A l \in o .. x : IsFree(F, A, P[l])
  <2>1. o \in Int /\ x \in Int
    BY <1>4
  <2>2. o .. x \subseteq R
    <3> HIDE DEF R
    <3> QED
      BY <1>12, <1>13, <2>1, DownInduction
  <2> QED
    BY <2>2
<1>15. Fitted(P, x, o, F, A)
  <2> HIDE DEF S, R, Y
  <2> QED
    BY <1>4, <1>6, <1>10, <1>11, <1>14 DEF Fitted
<1> QED
  BY <1>15

-----------------------------------------------------------------------------
(* A block is cut from a free one, and the halves merge when it is freed.  *)

LEMMA SeparatedBoth ==
  ASSUME NEW G, NEW H, Separated(G, H)
  PROVE  Separated(H, G)
BY DEF Separated

\* The orders of the free blocks once a block of order o is cut from one of x.
Cut(F, P, x, o) ==
  [n \in Nodes |->
     IF \A l \in o .. MaxOrder : n # P[l] THEN F[n]
     ELSE IF Level(n) <= x THEN o .. Level(n) - 1
     ELSE (F[n] \ {x}) \cup o .. x - 1]

\* What Fitted says of the path and of the nodes beside it.
LEMMA FittedPath ==
  ASSUME NEW F, NEW A, NEW P, NEW x, NEW o, Fitted(P, x, o, F, A)
  PROVE  /\ o \in Nat /\ x \in Nat /\ MaxOrder \in Nat /\ o <= x /\ x <= MaxOrder
         /\ P[o] = Fit(o) /\ Fit(o) \in Nodes /\ Level(Fit(o)) = o
         /\ \A l \in o .. MaxOrder : P[l] \in Nodes /\ Level(P[l]) = l
         /\ \A l \in o + 1 .. MaxOrder :
              LET d == Sibling(P[l - 1])
              IN  /\ d \in Nodes /\ Level(d) = l - 1 /\ Parent(P[l - 1]) = P[l]
                  /\ \A m \in o .. MaxOrder : d # P[m]
                  /\ \/ P[l - 1] = 2 * P[l] /\ d = 2 * P[l] + 1
                     \/ P[l - 1] = 2 * P[l] + 1 /\ d = 2 * P[l]
<1>1. /\ o \in Nat /\ x \in Nat /\ MaxOrder \in Nat /\ o <= x /\ x <= MaxOrder
      /\ P[o] = Fit(o) /\ Fit(o) \in Nodes /\ Level(Fit(o)) = o /\ IsPath(P, Fit(o))
  BY SizesAssumption DEF Fitted, IsPath
<1>2. \A l \in o .. MaxOrder : P[l] \in Nodes /\ Level(P[l]) = l
  BY <1>1, PathType
<1>3. ASSUME NEW l \in o + 1 .. MaxOrder
      PROVE  LET d == Sibling(P[l - 1])
             IN  /\ d \in Nodes /\ Level(d) = l - 1 /\ Parent(P[l - 1]) = P[l]
                 /\ \A m \in o .. MaxOrder : d # P[m]
                 /\ \/ P[l - 1] = 2 * P[l] /\ d = 2 * P[l] + 1
                    \/ P[l - 1] = 2 * P[l] + 1 /\ d = 2 * P[l]
  <2> DEFINE c == P[l - 1]
             d == Sibling(c)
  <2>1. /\ d \in Nodes /\ Level(d) = l - 1 /\ c # d /\ Parent(c) = P[l]
        /\ \/ c = 2 * P[l] /\ d = 2 * P[l] + 1
           \/ c = 2 * P[l] + 1 /\ d = 2 * P[l]
    BY <1>1, PathSteps
  <2>2. ASSUME NEW m \in o .. MaxOrder PROVE d # P[m]
    BY <1>2, <2>1
  <2> QED
    BY <2>1, <2>2
<1> QED
  BY <1>1, <1>2, <1>3

LEMMA CutIs ==
  ASSUME NEW F, NEW A, NEW P, NEW x, NEW o, NEW T, Tree(T, F, A), Fitted(P, x, o, F, A)
  PROVE  LET G == Cut(F, P, x, o)
         IN  /\ \A n \in Nodes : (\A l \in o .. MaxOrder : n # P[l]) => G[n] = F[n]
             /\ \A l \in o .. x : G[P[l]] = o .. l - 1 /\ F[P[l]] = {l}
             /\ \A l \in x .. MaxOrder : G[P[l]] = (F[P[l]] \ {x}) \cup o .. x - 1
<1> DEFINE G == Cut(F, P, x, o)
<1>1. /\ o \in Nat /\ x \in Nat /\ MaxOrder \in Nat /\ o <= x /\ x <= MaxOrder
      /\ \A l \in o .. MaxOrder : P[l] \in Nodes /\ Level(P[l]) = l
  BY FittedPath
<1>2. \A n \in Nodes : (\A l \in o .. MaxOrder : n # P[l]) => G[n] = F[n]
  BY DEF Cut
<1>3. ASSUME NEW l \in o .. MaxOrder
      PROVE  G[P[l]] = IF l <= x THEN o .. l - 1 ELSE (F[P[l]] \ {x}) \cup o .. x - 1
  <2>1. P[l] \in Nodes /\ Level(P[l]) = l
    BY <1>1
  <2>2. ~ \A m \in o .. MaxOrder : P[l] # P[m]
    OBVIOUS
  <2> QED
    BY <2>1, <2>2, Zenon DEF Cut
<1>4. ASSUME NEW l \in o .. x PROVE G[P[l]] = o .. l - 1 /\ F[P[l]] = {l}
  <2>1. l \in o .. MaxOrder /\ l <= x
    BY <1>1
  <2>2. IsFree(F, A, P[l])
    BY DEF Fitted
  <2>3. F[P[l]] = {Level(P[l])}
    BY <2>2 DEF IsFree
  <2> HIDE DEF G
  <2> QED
    BY <1>1, <1>3, <2>1, <2>3
<1>5. ASSUME NEW l \in x .. MaxOrder PROVE G[P[l]] = (F[P[l]] \ {x}) \cup o .. x - 1
  <2>1. CASE l = x
    <3>1. l \in o .. x
      BY <1>1, <2>1
    <3>2. G[P[l]] = o .. x - 1 /\ F[P[l]] = {x}
      BY <1>4, <2>1, <3>1
    <3> HIDE DEF G
    <3> QED
      BY <3>2
  <2>2. CASE l # x
    <3>1. l \in o .. MaxOrder /\ ~(l <= x)
      BY <1>1, <2>2
    <3> HIDE DEF G
    <3> QED
      BY <1>3, <3>1
  <2> QED
    BY <2>1, <2>2
<1> QED
  BY <1>2, <1>4, <1>5

\* Above the block that is cut, the orders of siblings stay separated.
LEMMA CutSplits ==
  ASSUME NEW F, NEW A, NEW P, NEW x, NEW o, NEW T, Tree(T, F, A), Fitted(P, x, o, F, A),
         NEW l \in o + 1 .. MaxOrder
  PROVE  LET G == Cut(F, P, x, o)
             c == P[l - 1]
             d == Sibling(c)
         IN  G[P[l]] = G[c] \cup F[d] /\ Separated(G[c], F[d]) /\ G[d] = F[d]
<1> DEFINE G == Cut(F, P, x, o)
           p == P[l]
           c == P[l - 1]
           d == Sibling(c)
<1>1. /\ o \in Nat /\ x \in Nat /\ MaxOrder \in Nat /\ o <= x /\ x <= MaxOrder
      /\ p \in Nodes /\ Level(p) = l /\ d \in Nodes /\ Level(d) = l - 1
      /\ \A m \in o .. MaxOrder : d # P[m]
      /\ \/ c = 2 * p /\ d = 2 * p + 1
         \/ c = 2 * p + 1 /\ d = 2 * p
  <2>1. o \in Nat /\ x \in Nat /\ MaxOrder \in Nat /\ o <= x /\ x <= MaxOrder
    BY FittedPath
  <2>2. l \in o .. MaxOrder
    BY <2>1
  <2> QED
    BY <2>1, <2>2, FittedPath
<1>2. G[d] = F[d]
  BY <1>1, CutIs
<1>3. CASE l <= x
  <2>1. l \in o .. x /\ l - 1 \in o .. x /\ l > 0
    BY <1>1, <1>3
  <2>2. G[p] = o .. l - 1 /\ G[c] = o .. (l - 1) - 1
    BY <2>1, CutIs
  <2>3. F[d] = {l - 1}
    <3>1. IsFree(F, A, p)
      BY <2>1 DEF Fitted
    <3> HIDE DEF p, c, d
    <3> QED
      BY <1>1, <2>1, <3>1 DEF IsFree, Halves
  <2>4. o .. l - 1 = (o .. (l - 1) - 1) \cup {l - 1}
    BY <1>1, <2>1
  <2>5. Separated(o .. (l - 1) - 1, {l - 1})
    BY <1>1 DEF Separated
  <2> HIDE DEF G, p, c, d
  <2> QED
    BY <1>2, <2>2, <2>3, <2>4, <2>5 DEF G, p, c, d
<1>4. CASE x < l
  <2>1. l \in x + 1 .. MaxOrder /\ l \in x .. MaxOrder /\ l - 1 \in x .. MaxOrder
    BY <1>1, <1>4
  <2>2. /\ G[p] = (F[p] \ {x}) \cup o .. x - 1
        /\ G[c] = (F[c] \ {x}) \cup o .. x - 1
    BY <2>1, CutIs
  <2>3. IsSplit(F, A, p)
    BY <2>1 DEF Fitted
  <2>4. x \in F[c]
    <3>1. CASE l - 1 = x
      <4>1. x \in o .. x
        BY <1>1
      <4> QED
        BY <3>1, <4>1, CutIs
    <3>2. CASE l - 1 # x
      <4>1. l - 1 \in x + 1 .. MaxOrder
        BY <1>1, <2>1, <3>2
      <4> QED
        BY <4>1 DEF Fitted
    <3> QED
      BY <3>1, <3>2
  <2>5. \A y \in F[p] : o <= y => x <= y
    BY <2>1 DEF Fitted
  <2>6. F[p] \subseteq 0 .. l
    BY <1>1 DEF Tree
  <2> HIDE DEF G, p, c, d
  <2>7. F[p] = F[c] \cup F[d] /\ Separated(F[c], F[d])
    <3>1. F[p] = F[c] \cup F[d] /\ (Separated(F[c], F[d]) \/ Separated(F[d], F[c]))
      BY <1>1, <2>3 DEF IsSplit
    <3> QED
      BY <3>1, SeparatedBoth
  <2>8. \A y \in F[p] : y \in Int /\ (y < o \/ x <= y)
    BY <1>1, <2>5, <2>6
  <2>9. x \notin F[d]
    BY <1>1, <2>4, <2>7 DEF Separated
  <2>10. G[p] = G[c] \cup F[d]
    BY <2>2, <2>7, <2>9
  <2>11. Separated(G[c], F[d])
    <3>1. CASE \A g \in F[c], h \in F[d] : g < h
      <4>1. ASSUME NEW g \in G[c], NEW h \in F[d] PROVE g < h
        <5>1. x < h /\ h \in Int
          BY <2>4, <2>7, <2>8, <3>1
        <5>2. g \in F[c] \/ (g \in Int /\ g < x)
          BY <1>1, <2>2
        <5> QED
          BY <1>1, <3>1, <5>1, <5>2
      <4> QED
        BY <4>1 DEF Separated
    <3>2. CASE \A g \in F[c], h \in F[d] : h < g
      <4>1. ASSUME NEW g \in G[c], NEW h \in F[d] PROVE h < g
        <5>1. h < o /\ h \in Int
          <6>1. h < x /\ h \in F[p]
            BY <2>4, <2>7, <3>2
          <6> QED
            BY <1>1, <2>8, <6>1
        <5>2. g \in F[c] \/ (g \in Int /\ o <= g)
          BY <1>1, <2>2
        <5> QED
          BY <1>1, <3>2, <5>1, <5>2
      <4> QED
        BY <4>1 DEF Separated
    <3> QED
      BY <2>7, <3>1, <3>2 DEF Separated
  <2> QED
    BY <1>2, <2>10, <2>11 DEF G, p, c, d
<1>5. l <= x \/ x < l
  BY <1>1
<1> QED
  BY <1>3, <1>4, <1>5

\* The orders that emi_alloc leaves.
Allocated(o) == Updated([order EXCEPT ![Fit(o)] = FLIP_ORDER(o)], Fit(o), o)

\* They are those of the tree with the block cut from the free one.
LEMMA CutSays ==
  ASSUME NEW F, NEW A, NEW P, NEW x, NEW o, Tree(order, F, A), Fitted(P, x, o, F, A)
  PROVE  LET b == Fit(o)
             new == Allocated(o)
         IN  /\ new \in [Nodes -> Int]
             /\ new[b] = FLIP_ORDER(o)
             /\ \A n \in Nodes : (\A l \in o .. MaxOrder : n # P[l]) => new[n] = order[n]
             /\ \A n \in Nodes : Says(new[n], Cut(F, P, x, o)[n], Level(n))
<1> DEFINE b == Fit(o)
           tree == [order EXCEPT ![b] = FLIP_ORDER(o)]
           new == Updated(tree, b, o)
           G == Cut(F, P, x, o)
<1>1. /\ o \in Nat /\ x \in Nat /\ MaxOrder \in Nat /\ o <= x /\ x <= MaxOrder
      /\ P[o] = b /\ b \in Nodes /\ Level(b) = o
  BY FittedPath
<1>2. /\ order \in [Nodes -> Int]
      /\ \A n \in Nodes : F[n] \subseteq 0 .. Level(n) /\ Says(order[n], F[n], Level(n))
  BY DEF Tree
<1>3. /\ tree \in [Nodes -> Int] /\ tree[b] = FLIP_ORDER(o)
      /\ \A n \in Nodes : n # b => tree[n] = order[n]
  BY <1>1, <1>2 DEF FLIP_ORDER
<1>4. IsPath(P, b)
  BY DEF Fitted
<1> HIDE DEF b, tree
<1>5. /\ new \in [Nodes -> Int]
      /\ new[b] = tree[b]
      /\ \A n \in Nodes :
           (\A l \in o + 1 .. MaxOrder : n # P[l]) => new[n] = tree[n]
      /\ \A l \in o + 1 .. MaxOrder :
           new[P[l]] = Merged(new[P[l - 1]], tree[Sibling(P[l - 1])], tree[P[l]], l)
  BY <1>1, <1>3, <1>4, UpdatedIs
<1> HIDE DEF new
<1>6. ASSUME NEW n \in Nodes, \A l \in o .. MaxOrder : n # P[l]
      PROVE  new[n] = order[n] /\ Says(new[n], G[n], Level(n))
  <2>1. (\A l \in o + 1 .. MaxOrder : n # P[l]) /\ n # P[o]
    BY <1>1, <1>6
  <2>2. new[n] = order[n]
    BY <1>1, <1>3, <1>5, <2>1
  <2>3. G[n] = F[n]
    BY <1>6, CutIs
  <2> QED
    BY <1>2, <2>2, <2>3
<1> DEFINE S == {l \in o .. MaxOrder : Says(new[P[l]], G[P[l]], l)}
<1>7. o \in S
  <2>1. o \in o .. x /\ o \in o .. MaxOrder /\ o .. o - 1 = {}
    BY <1>1
  <2>2. G[P[o]] = {}
    BY <2>1, CutIs
  <2> QED
    BY <1>1, <1>3, <1>5, <2>1, <2>2 DEF Says
<1>8. ASSUME NEW k \in o .. MaxOrder - 1, k \in S PROVE k + 1 \in S
  <2> DEFINE l == k + 1
             p == P[l]
             c == P[k]
             d == Sibling(c)
  <2>1. l \in o + 1 .. MaxOrder /\ l - 1 = k /\ l \in Nat /\ k \in Int /\ l > 0 /\ l \in o .. MaxOrder /\ k \in o .. MaxOrder
    BY <1>1
  <2> HIDE DEF l
  <2>2. /\ d \in Nodes /\ Level(d) = k /\ \A m \in o .. MaxOrder : d # P[m]
        /\ c \in Nodes /\ Level(c) = k /\ p \in Nodes
    BY <2>1, FittedPath
  <2>3. G[p] = G[c] \cup F[d] /\ Separated(G[c], F[d])
    BY <2>1, CutSplits
  <2>4. new[p] = Merged(new[c], tree[d], tree[p], l)
    BY <1>5, <2>1
  <2>5. Says(new[c], G[c], k)
    BY <1>8
  <2>6. tree[d] = order[d] /\ d # b
    <3>1. o \in o .. MaxOrder
      BY <1>1
    <3> QED
      BY <1>1, <1>3, <2>2, <3>1
  <2>7. Says(tree[d], F[d], k)
    BY <1>2, <2>2, <2>6
  <2>8. F[d] \subseteq Nat
    BY <1>2, <2>2
  <2>9. G[c] \subseteq Nat
    <3>1. F[c] \subseteq Nat
      BY <1>2, <2>2
    <3>2. k <= x \/ x <= k
      BY <1>1, <2>1
    <3>3. k \in o .. x => G[c] = o .. k - 1
      BY CutIs
    <3>4. k \in x .. MaxOrder => G[c] = (F[c] \ {x}) \cup o .. x - 1
      BY CutIs
    <3> HIDE DEF G, c
    <3> QED
      BY <1>1, <2>1, <3>1, <3>2, <3>3, <3>4
  <2>10. new[c] \in Int /\ tree[d] \in Int /\ tree[p] \in Int
    BY <1>3, <1>5, <2>2
  <2> HIDE DEF G, p, c, d
  <2>11. Says(Merged(new[c], tree[d], tree[p], l), G[c] \cup F[d], l)
    BY <2>1, <2>3, <2>5, <2>7, <2>8, <2>9, <2>10, MergedSays
  <2>12. Says(new[p], G[p], l)
    BY <2>3, <2>4, <2>11
  <2> QED
    BY <2>1, <2>12 DEF l, p, G
<1>9. \A l \in o .. MaxOrder : Says(new[P[l]], G[P[l]], l)
  <2>1. o \in Int /\ MaxOrder \in Int
    BY <1>1
  <2>2. o .. MaxOrder \subseteq S
    <3> HIDE DEF S
    <3> QED
      BY <1>7, <1>8, <2>1, UpInduction
  <2> QED
    BY <2>2
<1>10. ASSUME NEW n \in Nodes PROVE Says(new[n], G[n], Level(n))
  <2>1. CASE \A l \in o .. MaxOrder : n # P[l]
    BY <1>6, <2>1
  <2>2. CASE \E l \in o .. MaxOrder : n = P[l]
    <3>1. PICK l \in o .. MaxOrder : n = P[l]
      BY <2>2
    <3>2. Level(n) = l
      BY <3>1, FittedPath
    <3> QED
      BY <1>9, <3>1, <3>2
  <2> QED
    BY <2>1, <2>2
<1> HIDE DEF G
<1>11. new[b] = FLIP_ORDER(o)
  BY <1>3, <1>5
<1> QED
  BY <1>5, <1>6, <1>10, <1>11 DEF b, tree, new, G, Allocated

\* When it is freed the orders are what they were.
LEMMA FreeRestores ==
  ASSUME NEW F, NEW A, NEW P, NEW x, NEW o, Tree(order, F, A), Fitted(P, x, o, F, A)
  PROVE  LET b == Fit(o)
             new == Allocated(o)
         IN  Updated([new EXCEPT ![b] = o], b, o) = order
<1> DEFINE b == Fit(o)
           new == Allocated(o)
           tree == [new EXCEPT ![b] = o]
           old == Updated(tree, b, o)
           G == Cut(F, P, x, o)
<1>1. /\ o \in Nat /\ x \in Nat /\ MaxOrder \in Nat /\ o <= x /\ x <= MaxOrder
      /\ P[o] = b /\ b \in Nodes /\ Level(b) = o
  BY FittedPath
<1>2. /\ order \in [Nodes -> Int]
      /\ \A n \in Nodes : F[n] \subseteq 0 .. Level(n) /\ Says(order[n], F[n], Level(n))
  BY DEF Tree
<1>3. /\ new \in [Nodes -> Int]
      /\ \A n \in Nodes : (\A l \in o .. MaxOrder : n # P[l]) => new[n] = order[n]
      /\ \A n \in Nodes : Says(new[n], G[n], Level(n))
  BY CutSays
<1>4. IsPath(P, b)
  BY DEF Fitted
<1> HIDE DEF b, new
<1>5. /\ tree \in [Nodes -> Int] /\ tree[b] = o
      /\ \A n \in Nodes : n # b => tree[n] = new[n]
  BY <1>1, <1>3
<1> HIDE DEF tree
<1>6. /\ old \in [Nodes -> Int]
      /\ old[b] = tree[b]
      /\ \A n \in Nodes :
           (\A l \in o + 1 .. MaxOrder : n # P[l]) => old[n] = tree[n]
      /\ \A l \in o + 1 .. MaxOrder :
           old[P[l]] = Merged(old[P[l - 1]], tree[Sibling(P[l - 1])], tree[P[l]], l)
  BY <1>1, <1>4, <1>5, UpdatedIs
<1> HIDE DEF old
<1>7. ASSUME NEW n \in Nodes, \A l \in o .. MaxOrder : n # P[l] PROVE old[n] = order[n]
  <2>1. (\A l \in o + 1 .. MaxOrder : n # P[l]) /\ n # P[o]
    BY <1>1, <1>7
  <2> QED
    BY <1>1, <1>3, <1>5, <1>6, <1>7, <2>1
<1> DEFINE S == {l \in o .. MaxOrder : old[P[l]] = order[P[l]]}
<1>8. o \in S
  <2>1. o \in o .. x /\ o \in o .. MaxOrder
    BY <1>1
  <2>2. F[b] = {o}
    BY <1>1, <2>1, CutIs
  <2>3. order[b] = o
    BY <1>1, <1>2, <2>2 DEF Says
  <2> QED
    BY <1>1, <1>5, <1>6, <2>1, <2>3
<1>9. ASSUME NEW k \in o .. MaxOrder - 1, k \in S PROVE k + 1 \in S
  <2> DEFINE l == k + 1
             p == P[l]
             c == P[k]
             d == Sibling(c)
  <2>1. l \in o + 1 .. MaxOrder /\ l - 1 = k /\ l \in Nat /\ k \in Int /\ l > 0 /\ l \in o .. MaxOrder /\ k \in o .. MaxOrder
    BY <1>1
  <2> HIDE DEF l
  <2>2. /\ d \in Nodes /\ Level(d) = k /\ \A m \in o .. MaxOrder : d # P[m]
        /\ c \in Nodes /\ Level(c) = k /\ p \in Nodes /\ Level(p) = l
        /\ \/ c = 2 * p /\ d = 2 * p + 1
           \/ c = 2 * p + 1 /\ d = 2 * p
    BY <2>1, FittedPath
  <2>3. p # b /\ d # b
    <3>1. o \in o .. MaxOrder /\ l # o
      BY <1>1, <2>1
    <3> QED
      BY <1>1, <2>2, <3>1
  <2>4. tree[d] = order[d] /\ tree[p] = new[p]
    BY <1>3, <1>5, <2>2, <2>3
  <2>5. old[p] = Merged(order[c], order[d], new[p], l)
    <3>1. old[p] = Merged(old[P[l - 1]], tree[Sibling(P[l - 1])], tree[P[l]], l)
      BY <1>6, <2>1
    <3>2. old[c] = order[c]
      BY <1>9
    <3> QED
      BY <2>1, <2>4, <3>1, <3>2
  <2>6. Says(order[c], F[c], k) /\ Says(order[d], F[d], k) /\ Says(order[p], F[p], l)
    BY <1>2, <2>2
  <2>7. order[c] \in Int /\ order[d] \in Int /\ new[p] \in Int
    BY <1>2, <1>3, <2>2
  <2>8. CASE l <= x
    <3>1. l \in o .. x /\ k \in o .. x /\ l > 0
      BY <1>1, <2>1, <2>8
    <3>2. F[p] = {l} /\ G[p] = o .. l - 1
      BY <3>1, CutIs
    <3>3. IsFree(F, A, p)
      BY <3>1 DEF Fitted
    <3> HIDE DEF G, p, c, d
    <3>4. F[c] = {k} /\ F[d] = {k}
      BY <2>1, <2>2, <3>3 DEF IsFree, Halves
    <3>5. order[c] = k /\ order[d] = k /\ order[p] = l
      BY <2>6, <3>2, <3>4 DEF Says
    <3>6. new[p] = l - 1
      <4>1. Says(new[p], o .. l - 1, l)
        BY <1>3, <2>2, <3>2
      <4>2. l - 1 \in o .. l - 1
        BY <1>1, <2>1
      <4> QED
        BY <2>1, <2>7, <4>1, <4>2 DEF Says
    <3>7. old[p] = new[p] + 1
      BY <1>1, <2>1, <2>5, <3>5 DEF Merged
    <3>8. old[p] = order[p]
      BY <2>1, <3>5, <3>6, <3>7
    <3> QED
      BY <2>1, <3>8 DEF l, p
  <2>9. CASE x < l
    <3>1. l \in x + 1 .. MaxOrder
      BY <1>1, <2>1, <2>9
    <3>2. IsSplit(F, A, p)
      BY <3>1 DEF Fitted
    <3> HIDE DEF G, p, c, d
    <3>3. F[p] = F[c] \cup F[d] /\ Separated(F[c], F[d])
      <4>1. F[p] = F[c] \cup F[d] /\ (Separated(F[c], F[d]) \/ Separated(F[d], F[c]))
        BY <2>2, <3>2 DEF IsSplit
      <4> QED
        BY <4>1, SeparatedBoth
    <3>4. F[c] \subseteq Nat /\ F[d] \subseteq Nat
      BY <1>2, <2>2
    <3>5. Says(old[p], F[p], l)
      BY <2>1, <2>5, <2>6, <2>7, <3>3, <3>4, MergedSays
    <3>6. F[p] \subseteq Int
      BY <3>3, <3>4
    <3>7. old[p] = order[p]
      BY <2>6, <3>5, <3>6, SaysOne
    <3> QED
      BY <2>1, <3>7 DEF l, p
  <2> QED
    BY <1>1, <2>1, <2>8, <2>9
<1>10. \A l \in o .. MaxOrder : old[P[l]] = order[P[l]]
  <2>1. o \in Int /\ MaxOrder \in Int
    BY <1>1
  <2>2. o .. MaxOrder \subseteq S
    <3> HIDE DEF S
    <3> QED
      BY <1>8, <1>9, <2>1, UpInduction
  <2> QED
    BY <2>2
<1>11. \A n \in Nodes : old[n] = order[n]
  BY <1>7, <1>10
<1>12. old = order
  <2> HIDE DEF S, G
  <2> QED
    BY <1>2, <1>6, <1>11
<1> QED
  BY <1>12 DEF old, tree, new, b

\* And they are a tree again.
LEMMA CutIsTree ==
  ASSUME NEW F, NEW A, NEW P, NEW x, NEW o, Tree(order, F, A), Fitted(P, x, o, F, A)
  PROVE  Fit(o) \notin A /\ Tree(Allocated(o), Cut(F, P, x, o), A \cup {Fit(o)})
<1> DEFINE b == Fit(o)
           new == Allocated(o)
           G == Cut(F, P, x, o)
           B == A \cup {b}
<1>1. /\ o \in Nat /\ x \in Nat /\ MaxOrder \in Nat /\ o <= x /\ x <= MaxOrder
      /\ P[o] = b /\ b \in Nodes /\ Level(b) = o
  BY FittedPath
<1>2. /\ A \subseteq Nodes
      /\ \A n \in Nodes : /\ F[n] \subseteq 0 .. Level(n)
                          /\ InUse(F, A, n) \/ IsFree(F, A, n) \/ IsSplit(F, A, n)
  BY DEF Tree
<1>3. new \in [Nodes -> Int] /\ \A n \in Nodes : Says(new[n], G[n], Level(n))
  BY CutSays
<1>4. DOMAIN G = Nodes
  BY DEF Cut
<1>5. \A n \in Nodes : (\A l \in o .. MaxOrder : n # P[l]) => G[n] = F[n]
  BY CutIs
<1>6. \A l \in o .. x : G[P[l]] = o .. l - 1 /\ F[P[l]] = {l} /\ IsFree(F, A, P[l])
  <2>1. \A l \in o .. x : G[P[l]] = o .. l - 1 /\ F[P[l]] = {l}
    BY CutIs
  <2>2. \A l \in o .. x : IsFree(F, A, P[l])
    BY DEF Fitted
  <2> QED
    BY <2>1, <2>2
<1>7. \A l \in x .. MaxOrder : G[P[l]] = (F[P[l]] \ {x}) \cup o .. x - 1
  BY CutIs
<1>8. b \notin A
  <2>1. o \in o .. x
    BY <1>1
  <2> QED
    BY <1>1, <1>6, <2>1 DEF IsFree
<1> HIDE DEF b, new, G
<1>9. ASSUME NEW n \in Nodes, \A l \in o .. MaxOrder : n # P[l]
      PROVE  /\ G[n] \subseteq 0 .. Level(n)
             /\ InUse(G, B, n) \/ IsFree(G, B, n) \/ IsSplit(G, B, n)
  <2>1. G[n] = F[n]
    BY <1>5, <1>9
  <2>2. n # b
    <3>1. o \in o .. MaxOrder
      BY <1>1
    <3> QED
      BY <1>1, <1>9, <3>1
  <2>3. ASSUME Level(n) > 0, NEW c \in {2 * n, 2 * n + 1} PROVE G[c] = F[c]
    <3>1. c \in Nodes /\ Parent(c) = n /\ Level(c) = Level(n) - 1
      BY <2>3, Children
    <3>2. ASSUME NEW l \in o .. MaxOrder PROVE c # P[l]
      <4> SUFFICES ASSUME c = P[l] PROVE FALSE
        OBVIOUS
      <4>1. Level(c) = l
        BY FittedPath
      <4>2. l + 1 \in o + 1 .. MaxOrder /\ (l + 1) - 1 = l /\ l + 1 \in o .. MaxOrder
        BY <1>1, <3>1, <4>1, LevelType
      <4>3. Parent(c) = P[l + 1]
        BY <4>2, FittedPath
      <4> QED
        BY <1>9, <3>1, <4>2, <4>3
    <3> QED
      BY <1>5, <3>1, <3>2
  <2>4. Level(n) > 0 => G[2 * n] = F[2 * n] /\ G[2 * n + 1] = F[2 * n + 1]
    BY <2>3
  <2>5. n \in B <=> n \in A
    BY <2>2
  <2> QED
    BY <1>2, <2>1, <2>4, <2>5 DEF InUse, IsFree, IsSplit, Halves
<1>10. /\ G[b] \subseteq 0 .. Level(b)
       /\ InUse(G, B, b)
  <2>1. o \in o .. x /\ o .. o - 1 = {}
    BY <1>1
  <2>2. G[b] = {} /\ IsFree(F, A, b)
    BY <1>1, <1>6, <2>1
  <2>3. ASSUME Level(b) > 0, NEW c \in {2 * b, 2 * b + 1} PROVE G[c] = F[c]
    <3>1. c \in Nodes /\ Level(c) = o - 1
      BY <1>1, <2>3, Children
    <3>2. \A l \in o .. MaxOrder : Level(P[l]) = l /\ l # o - 1
      BY <1>1, FittedPath
    <3> QED
      BY <1>5, <3>1, <3>2
  <2>4. Halves(G, b)
    BY <2>2, <2>3 DEF IsFree, Halves
  <2> QED
    BY <2>2, <2>4 DEF InUse
<1>11. ASSUME NEW l \in o + 1 .. MaxOrder
       PROVE  /\ G[P[l]] \subseteq 0 .. Level(P[l])
              /\ IsSplit(G, B, P[l])
  <2> DEFINE p == P[l]
             c == P[l - 1]
             d == Sibling(c)
  <2>1. l \in o .. MaxOrder /\ l \in Nat /\ l > 0 /\ l # o
    BY <1>1
  <2>2. /\ p \in Nodes /\ Level(p) = l
        /\ \/ c = 2 * p /\ d = 2 * p + 1
           \/ c = 2 * p + 1 /\ d = 2 * p
    BY <2>1, FittedPath
  <2>3. G[p] = G[c] \cup G[d] /\ Separated(G[c], G[d])
    <3>1. G[p] = G[c] \cup F[d] /\ Separated(G[c], F[d]) /\ G[d] = F[d]
      BY CutSplits DEF G
    <3> QED
      BY <3>1
  <2>4. l <= x => l \in o .. x
    BY <1>1, <2>1
  <2>5. ~(l <= x) => l \in x .. MaxOrder /\ l \in x + 1 .. MaxOrder
    BY <1>1, <2>1
  <2>6. p \notin A
    <3>1. l <= x => IsFree(F, A, p)
      BY <1>6, <2>4
    <3>2. ~(l <= x) => IsSplit(F, A, p)
      BY <2>5 DEF Fitted
    <3> QED
      BY <3>1, <3>2 DEF IsFree, IsSplit
  <2>7. G[p] \subseteq 0 .. l
    <3>1. l <= x => G[p] = o .. l - 1
      BY <1>6, <2>4
    <3>2. ~(l <= x) => G[p] = (F[p] \ {x}) \cup o .. x - 1
      BY <1>7, <2>5
    <3>3. F[p] \subseteq 0 .. l
      BY <1>2, <2>2
    <3> HIDE DEF p
    <3> QED
      BY <1>1, <2>1, <3>1, <3>2, <3>3
  <2>8. p # b
    BY <1>1, <2>1, <2>2
  <2> HIDE DEF p, c, d
  <2>9. Separated(G[2 * p], G[2 * p + 1]) /\ G[p] = G[2 * p] \cup G[2 * p + 1]
    <3>1. Separated(G[d], G[c])
      BY <2>3, SeparatedBoth
    <3> QED
      BY <2>2, <2>3, <3>1
  <2>10. IsSplit(G, B, p)
    BY <2>1, <2>2, <2>6, <2>8, <2>9 DEF IsSplit
  <2> QED
    BY <2>2, <2>7, <2>10 DEF p
<1>12. ASSUME NEW n \in Nodes
       PROVE  /\ G[n] \subseteq 0 .. Level(n)
              /\ InUse(G, B, n) \/ IsFree(G, B, n) \/ IsSplit(G, B, n)
  <2>1. CASE \A l \in o .. MaxOrder : n # P[l]
    BY <1>9, <2>1
  <2>2. CASE \E l \in o .. MaxOrder : n = P[l]
    <3>1. PICK l \in o .. MaxOrder : n = P[l]
      BY <2>2
    <3>2. l = o \/ l \in o + 1 .. MaxOrder
      BY <1>1
    <3> QED
      BY <1>1, <1>10, <1>11, <3>1, <3>2
  <2> QED
    BY <2>1, <2>2
<1>13. B \subseteq Nodes
  BY <1>1, <1>2
<1>14. Tree(new, G, B)
  <2> HIDE DEF B
  <2> QED
    BY <1>3, <1>4, <1>12, <1>13 DEF Tree
<1> QED
  BY <1>8, <1>14 DEF b, new, G

-----------------------------------------------------------------------------
(* size_to_order.                                                          *)

\* k is the number of bits of n.
HasBits(n, k) == n < 2 ^ k /\ (k > 0 => 2 ^ (k - 1) <= n)

LEMMA SomeBits ==
  ASSUME NEW n \in Nat
  PROVE  \E k \in Nat : HasBits(n, k)
<1> DEFINE S == {m \in Nat : \E k \in Nat : HasBits(m, k)}
<1>1. 0 \in S
  <2>1. 2 ^ 0 = 1
    OBVIOUS
  <2>2. HasBits(0, 0)
    BY <2>1 DEF HasBits
  <2> QED
    BY <2>2
<1>2. ASSUME NEW m \in 0 .. n - 1, m \in S PROVE m + 1 \in S
  <2>1. PICK k \in Nat : HasBits(m, k)
    BY <1>2
  <2>2. /\ 2 ^ k \in Nat /\ 2 ^ (k + 1) = 2 * 2 ^ k /\ 2 ^ k # 0
        /\ m \in Nat /\ m + 1 \in Nat /\ k + 1 \in Nat /\ k + 1 > 0 /\ (k + 1) - 1 = k
    BY Doubling
  <2>3. CASE m + 1 < 2 ^ k
    <3>1. k > 0 => 2 ^ (k - 1) <= m + 1
      <4> SUFFICES ASSUME k > 0 PROVE 2 ^ (k - 1) <= m + 1
        OBVIOUS
      <4>1. k - 1 \in Nat
        OBVIOUS
      <4>2. 2 ^ (k - 1) \in Nat /\ 2 ^ (k - 1) <= m
        BY <2>1, <4>1, PowerType DEF HasBits
      <4> QED
        BY <2>2, <4>2
    <3>2. HasBits(m + 1, k)
      BY <2>3, <3>1 DEF HasBits
    <3> QED
      BY <2>2, <3>2
  <2>4. CASE ~(m + 1 < 2 ^ k)
    <3>1. m + 1 < 2 ^ (k + 1) /\ 2 ^ k <= m + 1
      BY <2>1, <2>2, <2>4 DEF HasBits
    <3>2. HasBits(m + 1, k + 1)
      BY <2>2, <3>1, Zenon DEF HasBits
    <3> QED
      BY <2>2, <3>2
  <2> QED
    BY <2>3, <2>4
<1>3. n \in S
  <2> HIDE DEF S
  <2>1. 0 \in Int /\ n \in Int
    OBVIOUS
  <2>2. 0 .. n \subseteq S
    BY <1>1, <1>2, <2>1, UpInduction
  <2> QED
    BY <2>2
<1> QED
  BY <1>3

LEMMA OneBits ==
  ASSUME NEW n \in Nat, NEW j \in Nat, NEW k \in Nat, HasBits(n, j), HasBits(n, k)
  PROVE  j = k
<1>1. ASSUME NEW a \in Nat, NEW c \in Nat, a < c, HasBits(n, a), HasBits(n, c) PROVE FALSE
  <2>1. c > 0 /\ c - 1 \in Nat /\ (c - 1 = a \/ a < c - 1)
    BY <1>1
  <2>2. 2 ^ (c - 1) <= n /\ n < 2 ^ a
    BY <1>1, <2>1 DEF HasBits
  <2>3. 2 ^ a \in Nat /\ 2 ^ (c - 1) \in Nat
    BY <2>1, PowerType
  <2>4. 2 ^ a <= 2 ^ (c - 1)
    <3>1. CASE c - 1 = a
      BY <2>3, <3>1
    <3>2. CASE a < c - 1
      <4>1. 2 * 2 ^ a <= 2 ^ (c - 1)
        BY <2>1, <3>2, PowersGrow
      <4> QED
        BY <2>3, <4>1
    <3> QED
      BY <2>1, <3>1, <3>2
  <2> QED
    BY <2>2, <2>3, <2>4
<1>2. j < k \/ k < j \/ j = k
  OBVIOUS
<1> QED
  BY <1>1, <1>2

\* Half the number has a bit less.
LEMMA HalfBits ==
  ASSUME NEW n \in Nat \ {0}, NEW k \in Nat, HasBits(n \div 2, k)
  PROVE  HasBits(n, k + 1)
<1> DEFINE h == n \div 2
<1>1. h \in Nat /\ (n = 2 * h \/ n = 2 * h + 1)
  OBVIOUS
<1>2. h < 2 ^ k /\ (k > 0 => 2 ^ (k - 1) <= h)
  BY DEF HasBits
<1> HIDE DEF h
<1>3. 2 ^ k \in Nat /\ 2 ^ (k + 1) = 2 * 2 ^ k
  BY Doubling
<1>4. n < 2 ^ (k + 1)
  BY <1>1, <1>2, <1>3
<1>5. 2 ^ k <= n
  <2>1. CASE k = 0
    <3>1. 2 ^ 0 = 1
      OBVIOUS
    <3> QED
      BY <2>1, <3>1
  <2>2. CASE k > 0
    <3>1. k - 1 \in Nat /\ (k - 1) + 1 = k
      BY <2>2
    <3>2. 2 ^ (k - 1) \in Nat /\ 2 ^ k = 2 * 2 ^ (k - 1)
      BY <3>1, Doubling
    <3> QED
      BY <1>1, <1>2, <2>2, <3>2
  <2> QED
    BY <2>1, <2>2
<1>6. (k + 1) - 1 = k
  OBVIOUS
<1> QED
  BY <1>4, <1>5, <1>6, Zenon DEF HasBits

\* What the loop of size_to_order counts.
LEMMA CountsBits ==
  ASSUME NEW u \in Nat, NEW f,
         f = [n \in 0 .. u |-> IF n = 0 THEN 0 ELSE 1 + f[n \div 2]]
  PROVE  \A n \in 0 .. u : f[n] \in Nat /\ HasBits(n, f[n])
<1> DEFINE S == {n \in 0 .. u : ~(f[n] \in Nat /\ HasBits(n, f[n]))}
<1> SUFFICES ASSUME S # {} PROVE FALSE
  OBVIOUS
<1>1. PICK n \in S : \A m \in S : n <= m
  <2>1. S \subseteq Nat
    OBVIOUS
  <2> HIDE DEF S
  <2> QED
    BY <2>1, LeastNumber
<1>2. n \in 0 .. u /\ f[n] = IF n = 0 THEN 0 ELSE 1 + f[n \div 2]
  OBVIOUS
<1>3. CASE n = 0
  <2>1. 2 ^ 0 = 1
    OBVIOUS
  <2>2. HasBits(0, 0)
    BY <2>1 DEF HasBits
  <2>3. f[n] = 0
    BY <1>2, <1>3
  <2> QED
    BY <1>3, <2>2, <2>3
<1>4. CASE n # 0
  <2> DEFINE h == n \div 2
  <2>1. h \in 0 .. u /\ h < n /\ ~(n <= h) /\ n \in Nat \ {0}
    BY <1>2, <1>4
  <2>2. f[h] \in Nat /\ HasBits(h, f[h])
    BY <1>1, <2>1
  <2>3. HasBits(n, f[h] + 1)
    BY <2>1, <2>2, HalfBits
  <2>4. f[n] = f[h] + 1 /\ f[n] \in Nat
    BY <1>2, <1>4, <2>2
  <2> QED
    BY <2>3, <2>4
<1> QED
  BY <1>3, <1>4

\* The blocks of the order of a size hold it, those of the order below do not.
LEMMA OrderHolds ==
  ASSUME NEW size \in Nat \ {0}
  PROVE  LET o == size_to_order(size)
         IN  /\ o \in Nat
             /\ size <= Unit * 2 ^ o
             /\ o > 0 => size > Unit * 2 ^ (o - 1)
<1> DEFINE u == (size - 1) \div Unit
           IsBits(f) == f = [n \in 0 .. u |-> IF n = 0 THEN 0 ELSE 1 + f[n \div 2]]
           bits == CHOOSE f : IsBits(f)
           Bits(n) == CHOOSE k : k \in Nat /\ HasBits(n, k)
           g == [n \in 0 .. u |-> Bits(n)]
           o == size_to_order(size)
<1>1. /\ Unit \in Nat \ {0} /\ u \in Nat
      /\ u * Unit <= size - 1 /\ size - 1 < u * Unit + Unit
  BY SizesAssumption
<1>2. o = bits[u]
  BY Zenon DEF size_to_order
<1> HIDE DEF u, o
<1>3. \A n \in Nat : Bits(n) \in Nat /\ HasBits(n, Bits(n))
  <2>1. ASSUME NEW n \in Nat PROVE Bits(n) \in Nat /\ HasBits(n, Bits(n))
    <3>1. \E k : k \in Nat /\ HasBits(n, k)
      BY SomeBits
    <3> QED
      BY <3>1, Zenon
  <2> QED
    BY <2>1
<1> HIDE DEF Bits
<1>4. IsBits(g)
  <2>1. ASSUME NEW n \in 0 .. u PROVE Bits(n) = IF n = 0 THEN 0 ELSE 1 + g[n \div 2]
    <3>1. n \in Nat /\ Bits(n) \in Nat /\ HasBits(n, Bits(n))
      BY <1>1, <1>3
    <3>2. CASE n = 0
      <4>1. 2 ^ 0 = 1
        OBVIOUS
      <4>2. HasBits(0, 0)
        BY <4>1 DEF HasBits
      <4>3. Bits(n) = 0
        BY <3>1, <3>2, <4>2, OneBits
      <4> QED
        BY <3>2, <4>3
    <3>3. CASE n # 0
      <4> DEFINE h == n \div 2
      <4>1. h \in 0 .. u /\ h \in Nat /\ n \in Nat \ {0}
        BY <1>1, <3>1, <3>3
      <4>2. HasBits(n, Bits(h) + 1) /\ Bits(h) + 1 \in Nat
        BY <1>3, <4>1, HalfBits
      <4>3. Bits(n) = Bits(h) + 1
        BY <3>1, <4>2, OneBits
      <4>4. g[h] = Bits(h) /\ Bits(h) \in Nat
        BY <1>3, <4>1
      <4> QED
        BY <3>3, <4>3, <4>4
    <3> QED
      BY <3>2, <3>3
  <2> QED
    BY <2>1
<1>5. IsBits(bits)
  <2> HIDE DEF IsBits, g
  <2> QED
    BY <1>4
<1>6. bits[u] \in Nat /\ HasBits(u, bits[u])
  <2>1. u \in 0 .. u
    BY <1>1
  <2> HIDE DEF bits
  <2> QED
    BY <1>1, <1>5, <2>1, CountsBits
<1>7. o \in Nat /\ u < 2 ^ o /\ (o > 0 => 2 ^ (o - 1) <= u)
  BY <1>2, <1>6 DEF HasBits
<1>8. size <= Unit * 2 ^ o
  <2> DEFINE v == 2 ^ o
  <2>1. v \in Nat /\ u + 1 <= v
    BY <1>1, <1>7, PowerType
  <2> HIDE DEF v
  <2>2. u * Unit + Unit <= Unit * v
    <3>1. PICK d \in Nat : v = u + 1 + d
      <4>1. v - u - 1 \in Nat /\ v = u + 1 + (v - u - 1)
        BY <1>1, <2>1
      <4> QED
        BY <4>1
    <3>2. Unit * v = u * Unit + Unit + Unit * d /\ Unit * d \in Nat
      BY <1>1, <3>1
    <3> QED
      BY <1>1, <3>2
  <2>3. u * Unit \in Nat /\ Unit * v \in Nat
    BY <1>1, <2>1
  <2>4. size <= Unit * v
    BY <1>1, <2>2, <2>3
  <2> QED
    BY <2>4 DEF v
<1>9. ASSUME o > 0 PROVE size > Unit * 2 ^ (o - 1)
  <2> DEFINE v == 2 ^ (o - 1)
  <2>1. v \in Nat /\ v <= u
    <3>1. o - 1 \in Nat
      BY <1>7, <1>9
    <3> QED
      BY <1>7, <1>9, <3>1, PowerType
  <2> HIDE DEF v
  <2>2. Unit * v <= u * Unit
    <3>1. PICK d \in Nat : u = v + d
      <4>1. u - v \in Nat /\ u = v + (u - v)
        BY <1>1, <2>1
      <4> QED
        BY <4>1
    <3>2. u * Unit = Unit * v + Unit * d /\ Unit * d \in Nat
      BY <1>1, <2>1, <3>1
    <3>3. Unit * v \in Nat
      BY <1>1, <2>1
    <3> QED
      BY <3>2, <3>3
  <2>3. u * Unit \in Nat /\ Unit * v \in Nat
    BY <1>1, <2>1
  <2>4. size > Unit * v
    BY <1>1, <2>2, <2>3
  <2> QED
    BY <2>4 DEF v
<1> QED
  BY <1>7, <1>8, <1>9 DEF o

\* A block that holds a size is of its order at least.
LEMMA LargeEnough ==
  ASSUME NEW size \in Nat \ {0}, NEW l \in Nat, size <= Unit * 2 ^ l
  PROVE  size_to_order(size) <= l
<1> DEFINE o == size_to_order(size)
<1>1. o \in Nat /\ (o > 0 => size > Unit * 2 ^ (o - 1)) /\ Unit \in Nat \ {0}
  BY OrderHolds, SizesAssumption
<1> HIDE DEF o
<1> SUFFICES ASSUME ~(o <= l) PROVE FALSE
  BY DEF o
<1>2. o > 0 /\ o - 1 \in Nat /\ (l = o - 1 \/ l < o - 1)
  BY <1>1
<1> DEFINE v == 2 ^ l
           w == 2 ^ (o - 1)
<1>3. v \in Nat /\ w \in Nat
  BY <1>2, PowerType
<1>4. v <= w
  <2>1. CASE l = o - 1
    BY <1>3, <2>1
  <2>2. CASE l < o - 1
    <3>1. 2 * v <= w
      BY <1>2, <2>2, PowersGrow
    <3> HIDE DEF v, w
    <3> QED
      BY <1>3, <3>1
  <2> QED
    BY <1>2, <2>1, <2>2
<1>5. size <= Unit * v /\ size > Unit * w
  BY <1>1, <1>2
<1> HIDE DEF v, w
<1>6. Unit * v <= Unit * w
  <2>1. PICK d \in Nat : w = v + d
    <3>1. w - v \in Nat /\ w = v + (w - v)
      BY <1>3, <1>4
    <3> QED
      BY <3>1
  <2>2. Unit * w = Unit * v + Unit * d /\ Unit * d \in Nat /\ Unit * v \in Nat
    BY <1>1, <1>3, <2>1
  <2> QED
    BY <2>2
<1>7. Unit * v \in Nat /\ Unit * w \in Nat
  BY <1>1, <1>3
<1> QED
  BY <1>5, <1>6, <1>7

-----------------------------------------------------------------------------
(* The invariant: freeing the areas from the last to the first goes back   *)
(* through the orders that were.                                           *)

\* The nodes of the first i areas in use.
Bufs(areas, i) == {areas[j].buf : j \in 1 .. i}

\* trees[i] are the orders when i of the areas were handed out, frees[i] the
\* orders of the free blocks then.
Stack(trees, frees, tree, areas) ==
  /\ trees[0] = [b \in Nodes |-> Level(b)]
  /\ trees[Len(areas)] = tree
  /\ \A i \in 0 .. Len(areas) : Tree(trees[i], frees[i], Bufs(areas, i))
  /\ \A i \in 1 .. Len(areas) :
       LET b == areas[i].buf
       IN  /\ b \notin Bufs(areas, i - 1)
           /\ Updated([trees[i] EXCEPT ![b] = Level(b)], b, Level(b)) = trees[i - 1]

BuddyInv ==
  /\ live \in Seq([buf : Nodes, size : Nat])
  /\ SmallestBlock
  /\ \E trees, frees : Stack(trees, frees, order, live)

\* In the beginning every node is free.
LEMMA NewTree == Tree([b \in Nodes |-> Level(b)], [b \in Nodes |-> {Level(b)}], {})
<1> DEFINE T == [b \in Nodes |-> Level(b)]
           F == [b \in Nodes |-> {Level(b)}]
<1>1. T \in [Nodes -> Int]
  BY LevelType
<1>2. ASSUME NEW b \in Nodes
      PROVE  /\ F[b] \subseteq 0 .. Level(b)
             /\ Says(T[b], F[b], Level(b))
             /\ IsFree(F, {}, b)
  <2>1. Level(b) \in Nat
    BY LevelType
  <2>2. Halves(F, b)
    BY Children DEF Halves
  <2> QED
    BY <2>1, <2>2 DEF Says, IsFree
<1> HIDE DEF T, F
<1>3. Tree(T, F, {})
  BY <1>1, <1>2 DEF Tree, F
<1> QED
  BY <1>3 DEF T, F

LEMMA BuddyInit == Init => BuddyInv
<1> SUFFICES ASSUME Init PROVE BuddyInv
  OBVIOUS
<1>1. live = <<>> /\ order = [b \in Nodes |-> Level(b)] /\ Len(live) = 0
  BY DEF Init
<1>2. live \in Seq([buf : Nodes, size : Nat]) /\ SmallestBlock
  BY <1>1 DEF SmallestBlock
<1> DEFINE trees == [i \in {0} |-> [b \in Nodes |-> Level(b)]]
           frees == [i \in {0} |-> [b \in Nodes |-> {Level(b)}]]
<1>3. trees[0] = [b \in Nodes |-> Level(b)] /\ frees[0] = [b \in Nodes |-> {Level(b)}]
  OBVIOUS
<1>4. 0 .. 0 = {0} /\ 1 .. 0 = {} /\ Bufs(live, 0) = {}
  BY DEF Bufs
<1> HIDE DEF trees, frees
<1>5. Tree(trees[0], frees[0], Bufs(live, 0))
  BY <1>3, <1>4, NewTree
<1>6. Stack(trees, frees, order, live)
  BY <1>1, <1>3, <1>4, <1>5 DEF Stack
<1> QED
  BY <1>2, <1>6 DEF BuddyInv

LEMMA BuddyAlloc ==
  ASSUME BuddyInv, NEW size \in Sizes, Alloc(size)
  PROVE  BuddyInv'
<1> DEFINE o == size_to_order(size + Header)
           b == Fit(o)
           k == Len(live)
           Area == [buf : Nodes, size : Nat]
           area == [buf |-> b, size |-> size]
<1>1. size \in Nat \ {0} /\ size + Header \in Nat \ {0} /\ live \in Seq(Area)
  BY SizesAssumption DEF Alloc, BuddyInv
<1>2. /\ o \in Nat
      /\ size + Header <= Unit * 2 ^ o
      /\ o > 0 => size + Header > Unit * 2 ^ (o - 1)
  BY <1>1, OrderHolds
<1>3. order[1] >= o /\ live' = Append(live, area) /\ order' = Allocated(o)
  BY DEF Alloc, SetOrder, Allocated
<1> HIDE DEF o
<1>4. PICK trees, frees : Stack(trees, frees, order, live)
  BY DEF BuddyInv
<1>5. k \in Nat /\ DOMAIN live = 1 .. k
  BY <1>1
<1>6. Tree(order, frees[k], Bufs(live, k))
  <2>1. k \in 0 .. k
    BY <1>5
  <2> QED
    BY <1>4, <2>1 DEF Stack
<1>7. \E P, x : Fitted(P, x, o, frees[k], Bufs(live, k))
  <2>1. Tree(order, frees[k], Bufs(live, k)) /\ o \in Nat
    BY <1>2, <1>6
  <2>2. o <= order[1]
    <3>1. order[1] \in Int
      BY <1>6, RootLevel DEF Tree
    <3> QED
      BY <1>2, <1>3, <3>1
  <2> QED
    BY <2>1, <2>2, BestFit
<1>8. PICK P, x : Fitted(P, x, o, frees[k], Bufs(live, k))
  BY <1>7
<1>9. b \in Nodes /\ Level(b) = o
  BY <1>8, FittedPath
<1>10. /\ b \notin Bufs(live, k)
       /\ Tree(order', Cut(frees[k], P, x, o), Bufs(live, k) \cup {b})
  BY <1>3, <1>6, <1>8, CutIsTree
<1>11. Updated([order' EXCEPT ![b] = o], b, o) = order
  BY <1>3, <1>6, <1>8, FreeRestores
<1> HIDE DEF b
<1>12. /\ live' \in Seq(Area) /\ Len(live') = k + 1
       /\ live'[k + 1] = area
       /\ \A i \in 1 .. k : live'[i] = live[i]
  BY <1>1, <1>3, <1>9
<1>13. SmallestBlock'
  <2>1. ASSUME NEW i \in 1 .. k + 1
        PROVE  LET l == Level(live'[i].buf)
                   bytes == live'[i].size + Header
               IN  bytes <= Unit * 2 ^ l /\ (l > 0 => bytes > Unit * 2 ^ (l - 1))
    <3>1. CASE i = k + 1
      BY <1>2, <1>9, <1>12, <3>1
    <3>2. CASE i # k + 1
      <4>1. i \in 1 .. k
        BY <1>5, <3>2
      <4> QED
        BY <1>5, <1>12, <4>1 DEF BuddyInv, SmallestBlock
    <3> QED
      BY <3>1, <3>2
  <2>2. DOMAIN live' = 1 .. k + 1
    BY <1>12
  <2> QED
    BY <2>1, <2>2 DEF SmallestBlock
<1> DEFINE trees2 == [i \in 0 .. k + 1 |-> IF i = k + 1 THEN order' ELSE trees[i]]
           frees2 == [i \in 0 .. k + 1 |-> IF i = k + 1 THEN Cut(frees[k], P, x, o) ELSE frees[i]]
<1>14. /\ trees2[k + 1] = order' /\ frees2[k + 1] = Cut(frees[k], P, x, o)
       /\ \A i \in 0 .. k : trees2[i] = trees[i] /\ frees2[i] = frees[i]
  <2>1. k + 1 \in 0 .. k + 1 /\ \A i \in 0 .. k : i \in 0 .. k + 1 /\ i # k + 1
    BY <1>5
  <2> QED
    BY <2>1
<1> HIDE DEF trees2, frees2, area, Area
<1>15. /\ \A i \in 0 .. k : Bufs(live', i) = Bufs(live, i)
       /\ Bufs(live', k + 1) = Bufs(live, k) \cup {b}
  <2>1. ASSUME NEW i \in 0 .. k PROVE Bufs(live', i) = Bufs(live, i)
    <3>1. \A j \in 1 .. i : live'[j] = live[j]
      BY <1>5, <1>12
    <3> QED
      BY <3>1 DEF Bufs
  <2>2. 1 .. k + 1 = 1 .. k \cup {k + 1}
    BY <1>5
  <2>3. live'[k + 1].buf = b
    BY <1>12 DEF area
  <2> QED
    BY <1>12, <2>1, <2>2, <2>3 DEF Bufs
<1>16. Stack(trees2, frees2, order', live')
  <2>1. trees2[0] = [n \in Nodes |-> Level(n)] /\ trees2[Len(live')] = order'
    <3>1. 0 \in 0 .. k
      BY <1>5
    <3> QED
      BY <1>4, <1>12, <1>14, <3>1 DEF Stack
  <2>2. ASSUME NEW i \in 0 .. k + 1 PROVE Tree(trees2[i], frees2[i], Bufs(live', i))
    <3>1. CASE i = k + 1
      BY <1>10, <1>14, <1>15, <3>1
    <3>2. CASE i # k + 1
      <4>1. i \in 0 .. k
        BY <1>5, <3>2
      <4> QED
        BY <1>4, <1>14, <1>15, <4>1 DEF Stack
    <3> QED
      BY <3>1, <3>2
  <2>3. ASSUME NEW i \in 1 .. k + 1
        PROVE  LET c == live'[i].buf
               IN  /\ c \notin Bufs(live', i - 1)
                   /\ Updated([trees2[i] EXCEPT ![c] = Level(c)], c, Level(c)) = trees2[i - 1]
    <3>1. CASE i = k + 1
      <4>1. live'[i].buf = b /\ i - 1 = k /\ k \in 0 .. k
        BY <1>5, <1>12, <3>1 DEF area
      <4>2. trees2[i] = order' /\ trees2[i - 1] = order /\ Bufs(live', i - 1) = Bufs(live, k)
        BY <1>4, <1>14, <1>15, <3>1, <4>1 DEF Stack
      <4> QED
        BY <1>9, <1>10, <1>11, <4>1, <4>2
    <3>2. CASE i # k + 1
      <4>1. i \in 1 .. k /\ i \in 0 .. k /\ i - 1 \in 0 .. k
        BY <1>5, <3>2
      <4>2. /\ live'[i] = live[i] /\ trees2[i] = trees[i] /\ trees2[i - 1] = trees[i - 1]
            /\ Bufs(live', i - 1) = Bufs(live, i - 1)
        BY <1>12, <1>14, <1>15, <4>1
      <4> QED
        BY <1>4, <4>1, <4>2 DEF Stack
    <3> QED
      BY <3>1, <3>2
  <2> QED
    BY <1>12, <2>1, <2>2, <2>3 DEF Stack
<1> QED
  BY <1>12, <1>13, <1>16 DEF BuddyInv, Area

\* The area freed is the last.
LEMMA BuddyFree ==
  ASSUME Nested, BuddyInv, NEW i \in DOMAIN live, Free(i)
  PROVE  BuddyInv'
<1> DEFINE k == Len(live)
           b == live[k].buf
           Area == [buf : Nodes, size : Nat]
<1>1. /\ live \in Seq(Area) /\ k \in Nat /\ DOMAIN live = 1 .. k
      /\ i = k /\ k \in 1 .. k /\ k > 0
  BY DEF BuddyInv, Free
<1>2. PICK trees, frees : Stack(trees, frees, order, live)
  BY DEF BuddyInv
<1>3. Tree(order, frees[k], Bufs(live, k)) /\ b \in Bufs(live, k)
  <2>1. k \in 0 .. k
    BY <1>1
  <2> QED
    BY <1>1, <1>2, <2>1 DEF Stack, Bufs
<1>4. FLIP_ORDER(order[b]) = Level(b)
  <2>1. order[b] = FLIP_ORDER(Level(b)) /\ b \in Nodes
    BY <1>3, UsedIsMarked
  <2> QED
    BY <2>1, LevelType DEF FLIP_ORDER
<1>5. order' = trees[k - 1]
  <2>1. order' = Updated([order EXCEPT ![b] = Level(b)], b, Level(b))
    BY <1>1, <1>4 DEF Free, SetOrder
  <2> HIDE DEF b
  <2>2. trees[k] = order /\ Updated([trees[k] EXCEPT ![b] = Level(b)], b, Level(b)) = trees[k - 1]
    BY <1>1, <1>2 DEF Stack, b
  <2> QED
    BY <2>1, <2>2
<1>6. /\ live' \in Seq(Area) /\ Len(live') = k - 1
      /\ \A j \in 1 .. k - 1 : live'[j] = live[j]
  <2>1. live' = SubSeq(live, 1, k - 1) \o SubSeq(live, k + 1, k)
    BY <1>1 DEF Free, RemoveAt
  <2> HIDE DEF Area
  <2>2. SubSeq(live, k + 1, k) = <<>>
    BY <1>1
  <2>3. live' = SubSeq(live, 1, k - 1)
    BY <1>1, <2>1, <2>2
  <2> QED
    BY <1>1, <2>3
<1>7. SmallestBlock'
  <2>1. DOMAIN live' = 1 .. k - 1 /\ \A j \in 1 .. k - 1 : j \in DOMAIN live
    BY <1>1, <1>6
  <2> QED
    BY <1>6, <2>1 DEF BuddyInv, SmallestBlock
<1>8. \A j \in 0 .. k - 1 : Bufs(live', j) = Bufs(live, j)
  <2>1. ASSUME NEW j \in 0 .. k - 1 PROVE Bufs(live', j) = Bufs(live, j)
    <3>1. \A m \in 1 .. j : live'[m] = live[m]
      BY <1>1, <1>6
    <3> QED
      BY <3>1 DEF Bufs
  <2> QED
    BY <2>1
<1>9. Stack(trees, frees, order', live')
  <2>1. trees[0] = [n \in Nodes |-> Level(n)] /\ trees[Len(live')] = order'
    BY <1>2, <1>5, <1>6 DEF Stack
  <2>2. ASSUME NEW j \in 0 .. k - 1 PROVE Tree(trees[j], frees[j], Bufs(live', j))
    <3>1. j \in 0 .. k
      BY <1>1
    <3> QED
      BY <1>2, <1>8, <3>1 DEF Stack
  <2>3. ASSUME NEW j \in 1 .. k - 1
        PROVE  LET c == live'[j].buf
               IN  /\ c \notin Bufs(live', j - 1)
                   /\ Updated([trees[j] EXCEPT ![c] = Level(c)], c, Level(c)) = trees[j - 1]
    <3>1. j \in 1 .. k /\ j - 1 \in 0 .. k - 1
      BY <1>1
    <3>2. live'[j] = live[j] /\ Bufs(live', j - 1) = Bufs(live, j - 1)
      BY <1>6, <1>8, <3>1
    <3> QED
      BY <1>2, <3>1, <3>2 DEF Stack
  <2> QED
    BY <1>6, <2>1, <2>2, <2>3 DEF Stack
<1> QED
  BY <1>6, <1>7, <1>9 DEF BuddyInv

LEMMA BuddyStep ==
  ASSUME Nested, BuddyInv, [Next]_vars
  PROVE  BuddyInv'
<1>1. ASSUME NEW size \in Sizes, Alloc(size) PROVE BuddyInv'
  BY <1>1, BuddyAlloc
<1>2. ASSUME UNCHANGED vars PROVE BuddyInv'
  BY <1>2 DEF vars, BuddyInv, SmallestBlock
<1>3. ASSUME NEW size \in Sizes, Refuse(size) PROVE BuddyInv'
  BY <1>2, <1>3 DEF Refuse
<1>4. ASSUME NEW i \in DOMAIN live, Free(i) PROVE BuddyInv'
  BY <1>4, BuddyFree
<1> QED
  BY <1>1, <1>2, <1>3, <1>4 DEF Next

LEMMA BuddyInvariant == ASSUME Nested PROVE Spec => []BuddyInv
<1>1. Init => BuddyInv
  BY BuddyInit
<1>2. BuddyInv /\ [Next]_vars => BuddyInv'
  BY BuddyStep
<1> QED
  BY <1>1, <1>2, PTL DEF Spec

-----------------------------------------------------------------------------
(* What the invariant says of the areas in use.                            *)

LEMMA TreeNow ==
  ASSUME BuddyInv
  PROVE  /\ live \in Seq([buf : Nodes, size : Nat])
         /\ \E F : Tree(order, F, {live[i].buf : i \in DOMAIN live})
<1> DEFINE k == Len(live)
<1>1. live \in Seq([buf : Nodes, size : Nat]) /\ k \in Nat /\ DOMAIN live = 1 .. k /\ k \in 0 .. k
  BY DEF BuddyInv
<1>2. PICK trees, frees : Stack(trees, frees, order, live)
  BY DEF BuddyInv
<1>3. Tree(order, frees[k], Bufs(live, k))
  BY <1>1, <1>2 DEF Stack
<1> QED
  BY <1>1, <1>3 DEF Bufs

\* No node is in use twice.
LEMMA BufsDiffer ==
  ASSUME BuddyInv, NEW i \in DOMAIN live, NEW j \in DOMAIN live, i # j
  PROVE  live[i].buf # live[j].buf
<1> DEFINE k == Len(live)
<1>1. k \in Nat /\ DOMAIN live = 1 .. k
  BY DEF BuddyInv
<1>2. PICK trees, frees : Stack(trees, frees, order, live)
  BY DEF BuddyInv
<1>3. ASSUME NEW l \in 1 .. k, NEW m \in 1 .. k, l < m PROVE live[l].buf # live[m].buf
  <2>1. live[m].buf \notin Bufs(live, m - 1)
    BY <1>2 DEF Stack
  <2>2. l \in 1 .. m - 1
    BY <1>1, <1>3
  <2> QED
    BY <2>1, <2>2 DEF Bufs
<1>4. i \in 1 .. k /\ j \in 1 .. k /\ (i < j \/ j < i)
  BY <1>1
<1> QED
  BY <1>3, <1>4

LEMMA InvTypes == BuddyInv => TypeOK
<1> SUFFICES ASSUME BuddyInv PROVE TypeOK
  OBVIOUS
<1>1. live \in Seq([buf : Nodes, size : Nat])
  BY TreeNow
<1>2. PICK F : Tree(order, F, {live[i].buf : i \in DOMAIN live})
  BY TreeNow
<1>3. order \in [Nodes -> Int]
  BY <1>2 DEF Tree
<1>4. ASSUME NEW i \in DOMAIN live
      PROVE  order[live[i].buf] = FLIP_ORDER(Level(live[i].buf))
  BY <1>2, UsedIsMarked
<1> QED
  BY <1>1, <1>3, <1>4 DEF TypeOK

LEMMA InvApart == BuddyInv => NoOverlap
<1> SUFFICES ASSUME BuddyInv, NEW i \in DOMAIN live, NEW j \in DOMAIN live, i # j
             PROVE  Covers(live[i].buf) \cap Covers(live[j].buf) = {}
  BY DEF NoOverlap
<1>1. PICK F : Tree(order, F, {live[n].buf : n \in DOMAIN live})
  BY TreeNow
<1>2. live[i].buf # live[j].buf
  BY BufsDiffer
<1> QED
  BY <1>1, <1>2, UsedApart

LEMMA InvRefuses == BuddyInv => RefusesWhenFull
<1> SUFFICES ASSUME BuddyInv, NEW size \in Sizes \ {0}
             PROVE  order[1] < size_to_order(size + Header) <=> ~Fits(size)
  BY DEF RefusesWhenFull
<1> DEFINE o == size_to_order(size + Header)
           A == {live[i].buf : i \in DOMAIN live}
<1>1. size + Header \in Nat \ {0} /\ Unit \in Nat \ {0}
  BY SizesAssumption
<1>2. /\ o \in Nat
      /\ size + Header <= Unit * 2 ^ o
      /\ o > 0 => size + Header > Unit * 2 ^ (o - 1)
  BY <1>1, OrderHolds
<1>3. PICK F : Tree(order, F, A)
  BY TreeNow
<1>4. order[1] \in Int
  BY <1>3, RootLevel DEF Tree
<1>5. FreeLeaves = Covers(1) \ UNION {Covers(a) : a \in A}
  BY DEF FreeLeaves
<1> HIDE DEF o, A
<1>6. ASSUME o <= order[1] PROVE Fits(size)
  <2>1. PICK P, x : Fitted(P, x, o, F, A)
    BY <1>2, <1>3, <1>6, BestFit
  <2> DEFINE b == Fit(o)
  <2>2. /\ b \in Nodes /\ Level(b) = o /\ P[o] = b /\ IsPath(P, b)
        /\ o <= x /\ x <= MaxOrder /\ x \in Nat /\ MaxOrder \in Nat
    <3>1. /\ b \in Nodes /\ Level(b) = o /\ P[o] = b
          /\ o <= x /\ x <= MaxOrder /\ x \in Nat /\ MaxOrder \in Nat
      BY <2>1, FittedPath
    <3>2. IsPath(P, b)
      BY <2>1 DEF Fitted
    <3> QED
      BY <3>1, <3>2
  <2> HIDE DEF b
  <2>3. ASSUME NEW l \in o .. MaxOrder PROVE P[l] \notin A
    <3>1. CASE l <= x
      <4>1. l \in o .. x
        BY <1>2, <2>2, <3>1
      <4> QED
        BY <2>1, <4>1 DEF Fitted, IsFree
    <3>2. CASE x < l
      <4>1. l \in x + 1 .. MaxOrder
        BY <1>2, <2>2, <3>2
      <4> QED
        BY <2>1, <4>1 DEF Fitted, IsSplit
    <3> QED
      BY <1>2, <2>2, <3>1, <3>2
  <2>4. IsFree(F, A, b)
    <3>1. o \in o .. x
      BY <1>2, <2>2
    <3> QED
      BY <2>1, <2>2, <3>1 DEF Fitted
  <2>5. ASSUME NEW a \in A PROVE Covers(b) \cap Covers(a) = {}
    BY <1>3, <2>2, <2>3, <2>4, FreeApart
  <2>6. Covers(b) \subseteq Covers(1)
    <3>1. MaxOrder \in Level(b) .. MaxOrder
      BY <1>2, <2>2
    <3> QED
      BY <2>2, <3>1, PathType
  <2>7. Covers(b) \subseteq FreeLeaves
    BY <1>5, <2>5, <2>6
  <2> QED
    BY <1>2, <2>2, <2>7 DEF Fits
<1>7. ASSUME Fits(size) PROVE o <= order[1]
  <2>1. PICK b \in Nodes : size + Header <= Unit * 2 ^ Level(b) /\ Covers(b) \subseteq FreeLeaves
    BY <1>7 DEF Fits
  <2>2. \A a \in A : Covers(a) \cap Covers(b) = {}
    BY <1>5, <2>1
  <2>3. Level(b) <= order[1] /\ Level(b) \in Nat
    BY <1>3, <2>2, RootKnows, LevelType
  <2>4. o <= Level(b)
    BY <1>1, <2>1, <2>3, LargeEnough DEF o
  <2> QED
    BY <1>2, <1>4, <2>3, <2>4
<1> QED
  BY <1>2, <1>4, <1>6, <1>7 DEF o

LEMMA InvMerged == BuddyInv => AllMerged
<1> SUFFICES ASSUME BuddyInv, live = <<>>, NEW b \in Nodes PROVE order[b] = Level(b)
  BY DEF AllMerged
<1>1. PICK trees, frees : Stack(trees, frees, order, live)
  BY DEF BuddyInv
<1>2. Len(live) = 0
  OBVIOUS
<1>3. order = [n \in Nodes |-> Level(n)]
  BY <1>1, <1>2 DEF Stack
<1> QED
  BY <1>3

-----------------------------------------------------------------------------
(* Areas of one order, freed in any order. The orders of the nodes above   *)
(* need not be those of any free block then: a parent with equal children  *)
(* is raised each time. But they still tell whether there is one.          *)

\* The order of all areas.
OfOrder(q) == \A size \in Sizes \ {0} : size_to_order(size + Header) = q

\* The blocks of order q are in use or free, and a node above them has an
\* order from q on if and only if a child has.
Equals(T, A, q) ==
  /\ T \in [Nodes -> Int]
  /\ \A b \in Nodes :
       /\ Level(b) = q => T[b] = IF b \in A THEN FLIP_ORDER(q) ELSE q
       /\ Level(b) >= q => T[b] >= q \/ T[b] < 0
       /\ Level(b) > q => (T[b] >= q <=> T[2 * b] >= q \/ T[2 * b + 1] >= q)

\* The nodes in use below a node.
Under(A, b) == {a \in A : Covers(a) \subseteq Covers(b)}

\* The order of a node is right if nothing below it is in use, or one block.
Exact(T, A, q) ==
  \A b \in Nodes :
    /\ Level(b) < q \/ Under(A, b) = {} => T[b] = Level(b)
    /\ Level(b) > q /\ (\E a \in A : Under(A, b) = {a}) => T[b] = Level(b) - 1

\* The nodes in use.
Used == {live[i].buf : i \in DOMAIN live}

EqualAreas(q) ==
  /\ live \in Seq([buf : Nodes, size : Nat])
  /\ SmallestBlock
  /\ \A i \in DOMAIN live : Level(live[i].buf) = q
  /\ \A i, j \in DOMAIN live : i # j => live[i].buf # live[j].buf
  /\ Equals(order, Used, q)
  /\ Exact(order, Used, q)

EqualInv ==
  \E q \in Nat : OfOrder(q) /\ EqualAreas(q) /\ (MaxOrder < q => order[1] < q)

\* A node whose children tell whether there is a block tells it too.
LEMMA MergedTells ==
  ASSUME NEW mine \in Int, NEW other \in Int, NEW old \in Int,
         NEW l \in Nat, NEW q \in Nat,
         mine >= q \/ mine < 0, other >= q \/ other < 0, other >= q => old >= q
  PROVE  LET m == Merged(mine, other, old, l)
         IN  /\ m \in Int
             /\ m >= q \/ m < 0
             /\ m >= q <=> mine >= q \/ other >= q
<1> DEFINE m == Merged(mine, other, old, l)
<1>1. CASE other < 0 /\ mine < 0
  <2>1. m = -l - 1
    BY <1>1 DEF Merged, FLIP_ORDER
  <2> HIDE DEF m
  <2> QED
    BY <1>1, <2>1 DEF m
<1>2. CASE ~(other < 0 /\ mine < 0) /\ other = mine
  <2>1. m = old + 1 /\ other >= q /\ old >= q
    BY <1>2 DEF Merged
  <2> HIDE DEF m
  <2> QED
    BY <1>2, <2>1 DEF m
<1>3. CASE ~(other < 0 /\ mine < 0) /\ other # mine
  <2>1. m = Max({other, mine})
    BY <1>3, Zenon DEF Merged
  <2>2. m \in {other, mine} /\ other <= m /\ mine <= m
    BY <2>1, Larger
  <2> HIDE DEF m
  <2> QED
    BY <1>3, <2>2 DEF m
<1> QED
  BY <1>1, <1>2, <1>3

\* What marking a block of order q does: nodes beside its path keep their
\* order, those on it get what their children make of them.
IsMarked(new, T, b, v, q, P) ==
  /\ new \in [Nodes -> Int]
  /\ new[b] = v
  /\ \A n \in Nodes : (\A l \in q .. MaxOrder : n # P[l]) => new[n] = T[n]
  /\ \A l \in q + 1 .. MaxOrder :
       LET c == P[l - 1]
           d == Sibling(c)
       IN  /\ new[d] = T[d]
           /\ new[P[l]] = Merged(new[c], T[d], T[P[l]], l)

LEMMA MarkedIs ==
  ASSUME NEW T \in [Nodes -> Int], NEW b \in Nodes, NEW v \in Int,
         NEW q, Level(b) = q, NEW P, IsPath(P, b)
  PROVE  IsMarked(Updated([T EXCEPT ![b] = v], b, q), T, b, v, q, P)
<1> DEFINE tree == [T EXCEPT ![b] = v]
           new == Updated(tree, b, q)
<1>1. q \in Int /\ MaxOrder \in Int /\ q <= MaxOrder /\ q \in q .. MaxOrder
  BY LevelType, SizesAssumption
<1>2. tree \in [Nodes -> Int] /\ tree[b] = v /\ \A n \in Nodes : n # b => tree[n] = T[n]
  OBVIOUS
<1> HIDE DEF tree
<1>3. /\ new \in [Nodes -> Int]
      /\ new[b] = v
      /\ \A n \in Nodes : (\A l \in q + 1 .. MaxOrder : n # P[l]) => new[n] = tree[n]
      /\ \A l \in q + 1 .. MaxOrder :
           new[P[l]] = Merged(new[P[l - 1]], tree[Sibling(P[l - 1])], tree[P[l]], l)
  BY <1>2, UpdatedIs
<1> HIDE DEF new
<1>4. (\A l \in q .. MaxOrder : P[l] \in Nodes /\ Level(P[l]) = l) /\ P[q] = b
  BY PathType DEF IsPath
<1>5. ASSUME NEW n \in Nodes, \A l \in q .. MaxOrder : n # P[l]
      PROVE  new[n] = T[n] /\ tree[n] = T[n]
  <2>1. (\A l \in q + 1 .. MaxOrder : l \in q .. MaxOrder) /\ n # b
    BY <1>1, <1>4, <1>5
  <2> QED
    BY <1>2, <1>3, <1>5, <2>1
<1>6. ASSUME NEW l \in q + 1 .. MaxOrder
      PROVE  LET c == P[l - 1]
                 d == Sibling(c)
             IN  new[d] = T[d] /\ new[P[l]] = Merged(new[c], T[d], T[P[l]], l)
  <2> DEFINE p == P[l]
             c == P[l - 1]
             d == Sibling(c)
  <2>1. l \in Int /\ l > q /\ l \in Level(b) + 1 .. MaxOrder
    BY <1>1
  <2>2. p \in Nodes /\ Level(p) = l /\ d \in Nodes /\ Level(d) = l - 1 /\ c # d
    BY <2>1, PathSteps
  <2>3. ASSUME NEW m \in q .. MaxOrder, d = P[m] PROVE FALSE
    <3>1. m = l - 1
      BY <1>4, <2>2, <2>3
    <3> QED
      BY <2>2, <2>3, <3>1
  <2>4. new[d] = T[d] /\ tree[d] = T[d]
    BY <1>5, <2>2, <2>3
  <2>5. p # b
    BY <2>1, <2>2
  <2>6. tree[p] = T[p]
    BY <1>2, <2>2, <2>5
  <2> QED
    BY <1>3, <2>4, <2>6
<1>7. IsMarked(new, T, b, v, q, P)
  BY <1>3, <1>5, <1>6 DEF IsMarked
<1> QED
  BY <1>7 DEF new, tree

\* Marking a block of order q and its ancestors keeps this.
LEMMA EqualUpdate ==
  ASSUME NEW T, NEW A, NEW B, NEW q \in Nat, NEW b \in Nodes, NEW v,
         Equals(T, A, q), Level(b) = q,
         v = IF b \in B THEN FLIP_ORDER(q) ELSE q,
         \A n \in Nodes \ {b} : n \in A <=> n \in B
  PROVE  Equals(Updated([T EXCEPT ![b] = v], b, q), B, q)
<1> DEFINE new == Updated([T EXCEPT ![b] = v], b, q)
<1>1. q \in Int /\ MaxOrder \in Int /\ 0 <= q /\ q <= MaxOrder
  BY LevelType, SizesAssumption
<1>2. v \in Int /\ (v >= q \/ v < 0)
  BY DEF FLIP_ORDER
<1>3. T \in [Nodes -> Int]
  BY DEF Equals
<1>4. PICK P : IsPath(P, b)
  BY PathExists
<1>5. IsMarked(new, T, b, v, q, P)
  BY <1>2, <1>3, <1>4, MarkedIs
<1> HIDE DEF new
<1>6. /\ new \in [Nodes -> Int] /\ new[b] = v
      /\ \A n \in Nodes : (\A l \in q .. MaxOrder : n # P[l]) => new[n] = T[n]
  BY <1>5 DEF IsMarked
<1>7. \A l \in q .. MaxOrder : P[l] \in Nodes /\ Level(P[l]) = l
  BY <1>4, PathType
<1>8. P[q] = b
  BY <1>4 DEF IsPath
\* One step on the path.
<1>9. ASSUME NEW l \in q + 1 .. MaxOrder,
              new[P[l - 1]] >= q \/ new[P[l - 1]] < 0
       PROVE  LET p == P[l]
                  c == P[l - 1]
                  d == Sibling(c)
              IN  /\ new[p] >= q \/ new[p] < 0
                  /\ new[p] >= q <=> new[c] >= q \/ new[d] >= q
                  /\ \/ c = 2 * p /\ d = 2 * p + 1
                     \/ c = 2 * p + 1 /\ d = 2 * p
  <2> DEFINE p == P[l]
             c == P[l - 1]
             d == Sibling(c)
  <2>1. l \in Nat /\ l > q
    BY <1>1
  <2>2. /\ p \in Nodes /\ Level(p) = l
        /\ c \in Nodes /\ Level(c) = l - 1
        /\ d \in Nodes /\ Level(d) = l - 1
        /\ \/ c = 2 * p /\ d = 2 * p + 1
           \/ c = 2 * p + 1 /\ d = 2 * p
    <3>1. l \in Level(b) + 1 .. MaxOrder
      OBVIOUS
    <3> QED
      BY <1>4, <3>1, PathSteps
  <2>3. new[p] = Merged(new[c], T[d], T[p], l) /\ new[d] = T[d]
    BY <1>5 DEF IsMarked
  <2>4. /\ T[d] >= q \/ T[d] < 0
        /\ T[p] >= q <=> T[c] >= q \/ T[d] >= q
    <3>1. Level(d) >= q /\ Level(p) > q
      BY <2>1, <2>2
    <3> QED
      BY <2>2, <3>1 DEF Equals
  <2>5. new[c] \in Int /\ T[d] \in Int /\ T[p] \in Int
    BY <1>3, <1>6, <2>2
  <2> HIDE DEF p, c, d
  <2>6. new[c] >= q \/ new[c] < 0
    BY <1>9 DEF c
  <2> DEFINE m == Merged(new[c], T[d], T[p], l)
  <2>7. /\ m \in Int
        /\ m >= q \/ m < 0
        /\ m >= q <=> new[c] >= q \/ T[d] >= q
    <3>1. T[d] >= q => T[p] >= q
      BY <2>4
    <3>2. T[d] >= q \/ T[d] < 0
      BY <2>4
    <3> QED
      BY <2>1, <2>5, <2>6, <3>1, <3>2, MergedTells
  <2> QED
    BY <2>2, <2>3, <2>7 DEF p, c, d
<1>10. \A l \in q .. MaxOrder : new[P[l]] >= q \/ new[P[l]] < 0
  <2> DEFINE S == {l \in Int : new[P[l]] >= q \/ new[P[l]] < 0}
  <2>1. q \in S
    BY <1>1, <1>2, <1>6, <1>8
  <2>2. ASSUME NEW l \in q .. MaxOrder - 1, l \in S PROVE l + 1 \in S
    <3>1. l + 1 \in q + 1 .. MaxOrder /\ (l + 1) - 1 = l
      BY <1>1
    <3> QED
      BY <1>9, <2>2, <3>1
  <2> HIDE DEF S
  <2>3. q .. MaxOrder \subseteq S
    BY <1>1, <2>1, <2>2, UpInduction
  <2> QED
    BY <2>3 DEF S
<1>11. ASSUME NEW n \in Nodes, Level(n) = q
       PROVE  new[n] = IF n \in B THEN FLIP_ORDER(q) ELSE q
  <2>1. CASE n = b
    BY <1>6, <2>1
  <2>2. CASE n # b
    <3>1. \A l \in q .. MaxOrder : n # P[l]
      BY <1>7, <1>8, <1>11, <2>2
    <3>2. new[n] = T[n]
      BY <1>6, <3>1
    <3> QED
      BY <1>11, <2>2, <3>2 DEF Equals
  <2> QED
    BY <2>1, <2>2
<1>12. ASSUME NEW n \in Nodes, Level(n) >= q PROVE new[n] >= q \/ new[n] < 0
  <2>1. CASE \E l \in q .. MaxOrder : n = P[l]
    BY <1>10, <2>1
  <2>2. CASE \A l \in q .. MaxOrder : n # P[l]
    <3>1. new[n] = T[n]
      BY <1>6, <2>2
    <3> QED
      BY <1>12, <3>1 DEF Equals
  <2> QED
    BY <2>1, <2>2
<1>13. ASSUME NEW n \in Nodes, Level(n) > q
       PROVE  new[n] >= q <=> new[2 * n] >= q \/ new[2 * n + 1] >= q
  <2>1. Level(n) \in 0 .. MaxOrder
    BY LevelType
  <2>2. CASE \E l \in q .. MaxOrder : n = P[l]
    <3>1. PICK l \in q .. MaxOrder : n = P[l]
      BY <2>2
    <3>2. l = Level(n)
      BY <1>7, <3>1
    <3>3. l \in q + 1 .. MaxOrder /\ l - 1 \in q .. MaxOrder
      BY <1>1, <1>13, <2>1, <3>2
    <3>4. new[P[l - 1]] >= q \/ new[P[l - 1]] < 0
      BY <1>10, <3>3
    <3> QED
      BY <1>9, <3>1, <3>3, <3>4
  <2>3. CASE \A l \in q .. MaxOrder : n # P[l]
    <3>1. ASSUME NEW c \in {2 * n, 2 * n + 1} PROVE new[c] = T[c]
      <4>1. c \in Nodes /\ Level(c) = Level(n) - 1 /\ Parent(c) = n
        BY <1>1, <1>13, <2>1, Children
      <4>2. ASSUME NEW l \in q .. MaxOrder, c = P[l] PROVE FALSE
        <5>1. l = Level(n) - 1
          BY <1>7, <4>1, <4>2
        <5>2. l + 1 \in Level(b) + 1 .. MaxOrder /\ l + 1 \in q .. MaxOrder /\ (l + 1) - 1 = l
          BY <1>1, <2>1, <5>1
        <5>3. P[l + 1] = Parent(P[l])
          BY <1>4, <5>2 DEF IsPath
        <5> QED
          BY <2>3, <4>1, <4>2, <5>2, <5>3
      <4> QED
        BY <1>6, <4>1, <4>2
    <3>2. new[n] = T[n]
      BY <1>6, <2>3
    <3>3. T[n] >= q <=> T[2 * n] >= q \/ T[2 * n + 1] >= q
      BY <1>13 DEF Equals
    <3> QED
      BY <3>1, <3>2, <3>3
  <2> QED
    BY <2>2, <2>3
<1>14. Equals(new, B, q)
  BY <1>6, <1>11, <1>12, <1>13 DEF Equals
<1> QED
  BY <1>14 DEF new

\* What is below a node is below one of its children.
LEMMA UnderSplits ==
  ASSUME NEW A, NEW q \in Nat, \A a \in A : a \in Nodes /\ Level(a) = q,
         NEW b \in Nodes, Level(b) > q
  PROVE  /\ Under(A, b) = Under(A, 2 * b) \cup Under(A, 2 * b + 1)
         /\ Under(A, 2 * b) \cap Under(A, 2 * b + 1) = {}
<1> DEFINE s == 2 * b
           d == 2 * b + 1
           l == Level(b)
<1>1. l \in Nat /\ l > 0 /\ l <= MaxOrder /\ MaxOrder \in Int
  BY LevelType, SizesAssumption
<1>2. /\ s \in Nodes /\ Level(s) = l - 1 /\ Parent(s) = b
      /\ d \in Nodes /\ Level(d) = l - 1 /\ Parent(d) = b
  BY <1>1, Children
<1>3. s # d
  <2>1. b \in Int
    BY DEF Nodes
  <2> QED
    BY <2>1
<1>4. Covers(s) \subseteq Covers(b) /\ Covers(d) \subseteq Covers(b)
  <2>1. Level(s) < MaxOrder /\ Level(d) < MaxOrder
    BY <1>1, <1>2
  <2> HIDE DEF s, d
  <2> QED
    BY <1>2, <2>1, CoveredByParent
<1>5. ASSUME NEW a \in A, Covers(a) \subseteq Covers(b)
      PROVE  Covers(a) \subseteq Covers(s) \/ Covers(a) \subseteq Covers(d)
  <2>1. a \in Nodes /\ Level(a) = q /\ Covers(a) # {}
    BY CoversSome
  <2>2. PICK P : IsPath(P, a)
    BY <2>1, PathExists
  <2>3. P[l] = b
    <3>1. Level(a) <= Level(b) /\ Covers(a) \cap Covers(b) # {}
      BY <1>1, <1>5, <2>1
    <3> QED
      BY <2>1, <2>2, <3>1, OverlapOnPath
  <2>4. l \in Level(a) + 1 .. MaxOrder /\ l - 1 \in Level(a) .. MaxOrder
    BY <1>1, <2>1
  <2>5. P[l - 1] = s \/ P[l - 1] = d
    BY <2>1, <2>2, <2>3, <2>4, PathSteps
  <2>6. Covers(a) \subseteq Covers(P[l - 1])
    BY <2>1, <2>2, <2>4, PathType
  <2> QED
    BY <2>5, <2>6
<1>6. ASSUME NEW a \in A, Covers(a) \subseteq Covers(s), Covers(a) \subseteq Covers(d)
      PROVE  FALSE
  <2>1. PICK n : n \in Covers(a)
    BY CoversSome
  <2> QED
    BY <1>2, <1>3, <1>6, <2>1, OneCovers
<1> HIDE DEF s, d
<1>7. /\ Under(A, b) = Under(A, s) \cup Under(A, d)
      /\ Under(A, s) \cap Under(A, d) = {}
  BY <1>4, <1>5, <1>6 DEF Under
<1> QED
  BY <1>7 DEF s, d

\* Below a block of order q there is that block at most.
LEMMA UnderBlock ==
  ASSUME NEW A, NEW q \in Nat, \A a \in A : a \in Nodes /\ Level(a) = q,
         NEW b \in Nodes, Level(b) = q
  PROVE  Under(A, b) = A \cap {b}
<1>1. ASSUME NEW a \in A, Covers(a) \subseteq Covers(b) PROVE a = b
  <2>1. PICK n : n \in Covers(a)
    BY CoversSome
  <2> QED
    BY <1>1, <2>1, OneCovers
<1> QED
  BY <1>1 DEF Under

\* Below a node beside the path of b everything is as it was.
LEMMA UnderBeside ==
  ASSUME NEW A, NEW B, NEW b \in Nodes, A \ {b} = B \ {b}, NEW P, IsPath(P, b),
         NEW n \in Nodes, Level(b) <= Level(n), P[Level(n)] # n
  PROVE  Under(A, n) = Under(B, n)
<1>1. ~(Covers(b) \subseteq Covers(n))
  <2>1. Covers(b) # {}
    BY CoversSome
  <2>2. Covers(b) \cap Covers(n) = {}
    BY OverlapOnPath
  <2> QED
    BY <2>1, <2>2
<1>2. \A a : a # b => (a \in A <=> a \in B)
  OBVIOUS
<1> QED
  BY <1>1, <1>2 DEF Under

\* A block that is used or freed leaves the orders of such nodes right.
LEMMA ExactUpdate ==
  ASSUME NEW T, NEW A, NEW B, NEW q \in Nat, NEW b \in Nodes, NEW v,
         Equals(T, A, q), Exact(T, A, q), Level(b) = q,
         v = IF b \in B THEN FLIP_ORDER(q) ELSE q,
         A \ {b} = B \ {b}, b \in A <=> b \notin B,
         \A a \in A \cup B : a \in Nodes /\ Level(a) = q
  PROVE  Exact(Updated([T EXCEPT ![b] = v], b, q), B, q)
<1> DEFINE new == Updated([T EXCEPT ![b] = v], b, q)
           Empty(n) == Under(B, n) = {}
           Single(n) == \E a \in B : Under(B, n) = {a}
<1>1. q \in Int /\ MaxOrder \in Int /\ 0 <= q /\ q <= MaxOrder
  BY LevelType, SizesAssumption
<1>2. v \in Int /\ T \in [Nodes -> Int]
  BY DEF FLIP_ORDER, Equals
<1>3. PICK P : IsPath(P, b)
  BY PathExists
<1>4. IsMarked(new, T, b, v, q, P)
  BY <1>2, <1>3, MarkedIs
<1> HIDE DEF new
<1>5. /\ new \in [Nodes -> Int] /\ new[b] = v
      /\ \A n \in Nodes : (\A l \in q .. MaxOrder : n # P[l]) => new[n] = T[n]
  BY <1>4 DEF IsMarked
<1>6. (\A l \in q .. MaxOrder : P[l] \in Nodes /\ Level(P[l]) = l) /\ P[q] = b
  <2>1. P[q] = b
    BY <1>3 DEF IsPath
  <2> QED
    BY <1>3, <2>1, PathType
\* The nodes beside the path.
<1>7. ASSUME NEW n \in Nodes, \A l \in q .. MaxOrder : n # P[l]
      PROVE  /\ Level(n) < q \/ Empty(n) => new[n] = Level(n)
             /\ Level(n) > q /\ Single(n) => new[n] = Level(n) - 1
  <2>1. new[n] = T[n] /\ Level(n) \in 0 .. MaxOrder
    BY <1>5, <1>7, LevelType
  <2>2. CASE Level(n) < q
    BY <1>1, <2>1, <2>2 DEF Exact
  <2>3. CASE ~(Level(n) < q)
    <3>1. P[Level(n)] # n /\ Level(b) <= Level(n)
      BY <1>1, <1>7, <2>1, <2>3
    <3>2. Under(A, n) = Under(B, n)
      BY <1>3, <3>1, UnderBeside
    <3>3. Single(n) => \E a \in A : Under(A, n) = {a}
      <4>1. Under(A, n) \subseteq A
        BY DEF Under
      <4> QED
        BY <3>2, <4>1
    <3> QED
      BY <2>1, <2>3, <3>2, <3>3 DEF Exact
  <2> QED
    BY <2>2, <2>3
\* The nodes of the path.
<1> DEFINE Right(n) ==
             /\ Empty(n) => new[n] = Level(n)
             /\ Level(n) > q /\ Single(n) => new[n] = Level(n) - 1
           S == {l \in Int : Right(P[l])}
<1>8. q \in S
  <2>1. Under(B, b) = B \cap {b}
    BY UnderBlock
  <2>2. Empty(b) => new[b] = q
    BY <1>5, <2>1
  <2> QED
    BY <1>1, <1>6, <2>2
<1>9. ASSUME NEW l \in q + 1 .. MaxOrder, l - 1 \in S PROVE l \in S
  <2> DEFINE p == P[l]
             c == P[l - 1]
             d == Sibling(c)
             old == T[p]
  <2>1. l \in Nat /\ l > q /\ l - 1 \in q .. MaxOrder /\ l \in q .. MaxOrder
        /\ l \in Level(b) + 1 .. MaxOrder
    BY <1>1
  <2>2. /\ p \in Nodes /\ Level(p) = l
        /\ c \in Nodes /\ Level(c) = l - 1
        /\ d \in Nodes /\ Level(d) = l - 1 /\ c # d
        /\ \/ c = 2 * p /\ d = 2 * p + 1
           \/ c = 2 * p + 1 /\ d = 2 * p
    BY <1>3, <2>1, PathSteps
  <2>3. new[p] = Merged(new[c], new[d], old, l) /\ new[d] = T[d]
    BY <1>4 DEF IsMarked
  <2>4. new[c] \in Int /\ new[d] \in Int /\ old \in Int
    BY <1>2, <1>5, <2>2
  <2>5. Right(c)
    BY <1>9
  <2>6. Right(d)
    <3>1. ASSUME NEW m \in q .. MaxOrder, d = P[m] PROVE FALSE
      <4>1. m = l - 1
        BY <1>6, <2>2, <3>1
      <4> QED
        BY <2>2, <3>1, <4>1
    <3> QED
      BY <1>7, <2>2, <3>1
  <2> HIDE DEF p, c, d
  <2>7. /\ Under(B, p) = Under(B, c) \cup Under(B, d)
        /\ Under(B, c) \cap Under(B, d) = {}
    <3>1. /\ Under(B, p) = Under(B, 2 * p) \cup Under(B, 2 * p + 1)
          /\ Under(B, 2 * p) \cap Under(B, 2 * p + 1) = {}
      BY <2>1, <2>2, UnderSplits
    <3>2. CASE c = 2 * p /\ d = 2 * p + 1
      BY <3>1, <3>2, Zenon
    <3>3. CASE c = 2 * p + 1 /\ d = 2 * p
      BY <3>1, <3>3
    <3> QED
      BY <2>2, <3>2, <3>3
\* A block in use alone has this order.
  <2>8. ASSUME NEW n \in {c, d}, Single(n) PROVE new[n] < l - 1
    <3>1. n \in Nodes /\ Level(n) = l - 1
      BY <2>2
    <3>2. Right(n)
      BY <2>5, <2>6
    <3>3. CASE l - 1 > q
      <4>1. new[n] = Level(n) - 1
        BY <2>8, <3>1, <3>2, <3>3
      <4> QED
        BY <2>1, <3>1, <4>1
    <3>4. CASE l - 1 = q
      <4>1. Under(B, n) = B \cap {n}
        BY <3>1, <3>4, UnderBlock
      <4>2. n \in B
        BY <2>8, <4>1
      <4>3. new[n] = FLIP_ORDER(q)
        <5>1. CASE n = b
          BY <1>5, <4>2, <5>1
        <5>2. CASE n # b
          <6>1. n = d
            BY <1>6, <2>1, <3>4, <5>2 DEF c
          <6>2. n \in A
            BY <4>2, <5>2
          <6>3. T[n] = FLIP_ORDER(q)
            BY <3>1, <3>4, <6>2 DEF Equals
          <6> QED
            BY <2>3, <6>1, <6>3
        <5> QED
          BY <5>1, <5>2
      <4> QED
        BY <2>1, <3>4, <4>3 DEF FLIP_ORDER
    <3> QED
      BY <2>1, <3>3, <3>4
  <2>9. ASSUME Empty(p) PROVE new[p] = l
    <3>1. Empty(c) /\ Empty(d)
      BY <2>7, <2>9
    <3>2. new[c] = l - 1 /\ new[d] = l - 1
      BY <2>2, <2>5, <2>6, <3>1
    <3>3. Covers(b) \subseteq Covers(p)
      BY <1>3, <2>1, PathType DEF p
    <3>4. b \in A /\ Under(A, p) = {b}
      <4>1. b \notin B
        BY <2>9, <3>3 DEF Under
      <4>2. \A a : a # b => (a \in A <=> a \in B)
        OBVIOUS
      <4> QED
        BY <2>9, <3>3, <4>1, <4>2 DEF Under
    <3>5. old = l - 1
      BY <2>1, <2>2, <3>4 DEF Exact
    <3> QED
      BY <2>1, <2>3, <3>2, <3>5 DEF Merged
  <2>10. ASSUME Single(p) PROVE new[p] = l - 1
    <3>1. (Single(c) /\ Empty(d)) \/ (Empty(c) /\ Single(d))
      <4>1. PICK a \in B : Under(B, p) = {a}
        BY <2>10
      <4> QED
        BY <2>7, <4>1
    <3>2. \/ new[c] < l - 1 /\ new[d] = l - 1
          \/ new[c] = l - 1 /\ new[d] < l - 1
      <4>1. CASE Single(c) /\ Empty(d)
        BY <2>2, <2>6, <2>8, <4>1
      <4>2. CASE Empty(c) /\ Single(d)
        BY <2>2, <2>5, <2>8, <4>2
      <4> QED
        BY <3>1, <4>1, <4>2
    <3>3. new[p] = Max({new[d], new[c]})
      <4>1. ~(new[d] < 0 /\ new[c] < 0) /\ new[d] # new[c]
        BY <2>1, <2>4, <3>2
      <4> QED
        BY <2>3, <4>1, Zenon DEF Merged
    <3>4. new[p] \in {new[d], new[c]} /\ new[d] <= new[p] /\ new[c] <= new[p]
      BY <2>4, <3>3, Larger
    <3> QED
      BY <2>1, <2>4, <3>2, <3>4
  <2> HIDE DEF Empty, Single
  <2>11. Right(p)
    BY <2>2, <2>9, <2>10
  <2> QED
    BY <2>1, <2>11 DEF p
<1> HIDE DEF S
<1>10. q .. MaxOrder \subseteq S
  <2>1. ASSUME NEW l \in q .. MaxOrder - 1, l \in S PROVE l + 1 \in S
    <3>1. l + 1 \in q + 1 .. MaxOrder /\ (l + 1) - 1 = l
      BY <1>1
    <3> QED
      BY <1>9, <2>1, <3>1
  <2> QED
    BY <1>1, <1>8, <2>1, UpInduction
<1>11. ASSUME NEW n \in Nodes
       PROVE  /\ Level(n) < q \/ Empty(n) => new[n] = Level(n)
              /\ Level(n) > q /\ Single(n) => new[n] = Level(n) - 1
  <2>1. CASE \A l \in q .. MaxOrder : n # P[l]
    BY <1>7, <2>1
  <2>2. CASE \E l \in q .. MaxOrder : n = P[l]
    <3>1. PICK l \in q .. MaxOrder : n = P[l]
      BY <2>2
    <3>2. Right(n)
      BY <1>10, <3>1 DEF S
    <3>3. ~(Level(n) < q)
      BY <1>1, <1>6, <3>1
    <3> QED
      BY <3>2, <3>3
  <2> QED
    BY <2>1, <2>2
<1>12. Exact(new, B, q)
  BY <1>11 DEF Exact
<1> QED
  BY <1>12 DEF new

\* If the root has an order from q on, a block of order q is found.
LEMMA EqualFit ==
  ASSUME NEW A, NEW q \in Nat, q <= MaxOrder, Equals(order, A, q), order[1] >= q
  PROVE  Fit(q) \in Nodes /\ Level(Fit(q)) = q /\ Fit(q) \notin A
<1>1. MaxOrder \in Int /\ q \in 0 .. MaxOrder /\ order \in [Nodes -> Int]
  BY SizesAssumption DEF Equals
<1>2. PICK P : IsDescent(P, q)
  BY <1>1, FitIs
<1>3. /\ Fit(q) \in Nodes /\ Level(Fit(q)) = q /\ IsPath(P, Fit(q))
      /\ \A l \in q + 1 .. MaxOrder : BestChild(P[l - 1], P[l], q)
  BY <1>2 DEF IsDescent
<1>4. /\ \A l \in q .. MaxOrder : P[l] \in Nodes /\ Level(P[l]) = l
      /\ P[MaxOrder] = 1 /\ P[q] = Fit(q)
  BY <1>3, PathType DEF IsPath
<1> DEFINE S == {l \in Int : order[P[l]] >= q}
<1>5. MaxOrder \in S
  BY <1>1, <1>4
<1>6. ASSUME NEW l \in q + 1 .. MaxOrder, l \in S PROVE l - 1 \in S
  <2> DEFINE p == P[l]
  <2>1. p \in Nodes /\ Level(p) > q /\ order[p] >= q /\ l - 1 \in q .. MaxOrder
    BY <1>1, <1>4, <1>6
  <2>2. order[2 * p] >= q \/ order[2 * p + 1] >= q
    BY <2>1 DEF Equals
  <2>3. BestChild(P[l - 1], p, q)
    BY <1>3
  <2>4. 2 * p \in Nodes /\ 2 * p + 1 \in Nodes
    BY <1>1, <2>1, Children, LevelType
  <2>5. order[2 * p] \in Int /\ order[2 * p + 1] \in Int
    BY <1>1, <2>4
  <2> HIDE DEF p
  <2>6. q <= order[P[l - 1]]
    BY <2>2, <2>3, <2>5 DEF BestChild
  <2>7. order[P[l - 1]] \in Int
    BY <1>1, <1>4, <2>1
  <2> QED
    BY <2>6, <2>7
<1>7. q \in S
  <2> HIDE DEF S
  <2>1. q .. MaxOrder \subseteq S
    BY <1>1, <1>5, <1>6, DownInduction
  <2> QED
    BY <1>1, <2>1
<1>8. order[Fit(q)] >= q
  BY <1>4, <1>7
<1>9. Fit(q) \notin A
  <2>1. FLIP_ORDER(q) < q
    BY DEF FLIP_ORDER
  <2>2. order[Fit(q)] = IF Fit(q) \in A THEN FLIP_ORDER(q) ELSE q
    BY <1>3 DEF Equals
  <2>3. FLIP_ORDER(q) \in Int
    BY DEF FLIP_ORDER
  <2> HIDE DEF FLIP_ORDER
  <2> QED
    BY <1>8, <2>1, <2>2, <2>3
<1> QED
  BY <1>3, <1>9

\* Below every node from order q on there is one of order q.
LEMMA OneBelow ==
  ASSUME NEW q \in Nat, NEW b \in Nodes, Level(b) >= q
  PROVE  \E c \in Nodes : Level(c) = q /\ Covers(c) \subseteq Covers(b)
<1> DEFINE S == {l \in Int : \A n \in Nodes : Level(n) = l =>
                    \E c \in Nodes : Level(c) = q /\ Covers(c) \subseteq Covers(n)}
<1>1. Level(b) \in 0 .. MaxOrder /\ MaxOrder \in Int /\ q \in Int /\ q \in q .. MaxOrder
  BY LevelType, SizesAssumption
<1>2. q \in S
  OBVIOUS
<1>3. ASSUME NEW l \in q .. MaxOrder - 1, l \in S PROVE l + 1 \in S
  <2>1. ASSUME NEW n \in Nodes, Level(n) = l + 1
        PROVE  \E c \in Nodes : Level(c) = q /\ Covers(c) \subseteq Covers(n)
    <3> DEFINE d == 2 * n
    <3>1. l \in Nat /\ Level(n) > 0 /\ (l + 1) - 1 = l /\ l < MaxOrder
      BY <1>1, <2>1
    <3>2. d \in Nodes /\ Level(d) = l /\ Parent(d) = n
      BY <2>1, <3>1, Children
    <3> HIDE DEF d
    <3>3. Covers(d) \subseteq Covers(n)
      BY <3>1, <3>2, CoveredByParent
    <3>4. PICK c \in Nodes : Level(c) = q /\ Covers(c) \subseteq Covers(d)
      BY <1>3, <3>2
    <3> QED
      BY <3>3, <3>4
  <2> QED
    BY <1>1, <2>1
<1> HIDE DEF S
<1>4. q .. MaxOrder \subseteq S
  BY <1>1, <1>2, <1>3, UpInduction
<1>5. Level(b) \in S
  BY <1>1, <1>4
<1> QED
  BY <1>5 DEF S

\* If a block of order q is free the root knows.
LEMMA EqualRoot ==
  ASSUME NEW T, NEW A, NEW q \in Nat, Equals(T, A, q),
         NEW b \in Nodes, Level(b) = q, b \notin A
  PROVE  T[1] >= q
<1>1. q \in Int /\ MaxOrder \in Int /\ q <= MaxOrder /\ q \in 0 .. MaxOrder
  BY LevelType, SizesAssumption
<1>2. PICK P : IsPath(P, b)
  BY PathExists
<1>3. /\ \A l \in q .. MaxOrder : P[l] \in Nodes /\ Level(P[l]) = l
      /\ P[MaxOrder] = 1 /\ P[q] = b
  BY <1>2, PathType DEF IsPath
<1> DEFINE S == {l \in Int : T[P[l]] >= q}
<1>4. q \in S
  <2>1. T[b] = q
    BY DEF Equals
  <2> QED
    BY <1>1, <1>3, <2>1
<1>5. ASSUME NEW l \in q .. MaxOrder - 1, l \in S PROVE l + 1 \in S
  <2> DEFINE p == P[l + 1]
  <2>1. l + 1 \in Level(b) + 1 .. MaxOrder /\ l + 1 \in q .. MaxOrder /\ (l + 1) - 1 = l /\ l + 1 > q
    BY <1>1
  <2>2. p \in Nodes /\ Level(p) = l + 1
    BY <1>3, <2>1
  <2>3. P[l] = 2 * p \/ P[l] = 2 * p + 1
    BY <1>2, <2>1, PathSteps
  <2>4. T[p] >= q <=> T[2 * p] >= q \/ T[2 * p + 1] >= q
    BY <2>1, <2>2 DEF Equals
  <2> HIDE DEF p
  <2>5. T[p] >= q
    BY <1>5, <2>3, <2>4
  <2> QED
    BY <2>1, <2>5 DEF p
<1> HIDE DEF S
<1>6. q .. MaxOrder \subseteq S
  BY <1>1, <1>4, <1>5, UpInduction
<1>7. MaxOrder \in S
  BY <1>1, <1>6
<1> QED
  BY <1>3, <1>7 DEF S

\* The node of an area in use.
LEMMA AreaNode ==
  ASSUME live \in Seq([buf : Nodes, size : Nat]), NEW i \in DOMAIN live
  PROVE  live[i].buf \in Nodes
<1> DEFINE Area == [buf : Nodes, size : Nat]
<1>1. live \in Seq(Area)
  OBVIOUS
<1> HIDE DEF Area
<1>2. live[i] \in Area
  BY <1>1
<1> QED
  BY <1>2 DEF Area

\* They are of one order.
LEMMA UsedNodes ==
  ASSUME NEW q, EqualAreas(q)
  PROVE  \A a \in Used : a \in Nodes /\ Level(a) = q
<1>1. live \in Seq([buf : Nodes, size : Nat])
  BY DEF EqualAreas
<1>2. ASSUME NEW i \in DOMAIN live PROVE live[i].buf \in Nodes /\ Level(live[i].buf) = q
  <2>1. live[i].buf \in Nodes
    BY <1>1, AreaNode
  <2>2. Level(live[i].buf) = q
    BY DEF EqualAreas
  <2> QED
    BY <2>1, <2>2
<1> QED
  BY <1>2 DEF Used

\* RemoveAt leaves the other elements in their order.
LEMMA RemoveAtIs ==
  ASSUME NEW S, NEW s \in Seq(S), NEW i \in 1 .. Len(s)
  PROVE  LET r == RemoveAt(s, i)
         IN  /\ r \in Seq(S) /\ Len(r) = Len(s) - 1
             /\ \A j \in 1 .. Len(s) - 1 : r[j] = IF j < i THEN s[j] ELSE s[j + 1]
<1> DEFINE k == Len(s)
           u == SubSeq(s, 1, i - 1)
           w == SubSeq(s, i + 1, k)
<1>1. RemoveAt(s, i) = u \o w
  BY DEF RemoveAt
<1>2. k \in Nat /\ i \in Nat /\ 1 <= i /\ i <= k
  OBVIOUS
<1>3. u \in Seq(S) /\ Len(u) = i - 1 /\ \A j \in 1 .. i - 1 : u[j] = s[j]
  OBVIOUS
<1>4. w \in Seq(S) /\ Len(w) = k - i /\ \A j \in 1 .. k - i : w[j] = s[i + j]
  OBVIOUS
<1> HIDE DEF u, w
<1>5. u \o w \in Seq(S) /\ Len(u \o w) = k - 1
  <2>1. u \o w \in Seq(S) /\ Len(u \o w) = Len(u) + Len(w)
    BY <1>3, <1>4, ConcatProperties
  <2> HIDE DEF k
  <2> QED
    BY <1>2, <1>3, <1>4, <2>1
<1>6. ASSUME NEW j \in 1 .. k - 1
      PROVE  (u \o w)[j] = IF j < i THEN s[j] ELSE s[j + 1]
  <2>1. CASE j < i
    <3>1. j \in 1 .. i - 1 /\ j \in 1 .. Len(u)
      BY <1>2, <1>3, <2>1
    <3>2. (u \o w)[j] = u[j]
      BY <1>3, <1>4, <3>1
    <3> QED
      BY <1>3, <2>1, <3>1, <3>2
  <2>2. CASE ~(j < i)
    <3> DEFINE m == j - (i - 1)
    <3>1. m \in 1 .. k - i /\ i + m = j + 1 /\ j > Len(u) /\ j <= Len(u) + Len(w) /\ j - Len(u) = m
      BY <1>2, <1>3, <1>4, <2>2
    <3> HIDE DEF m
    <3>2. (u \o w)[j] = w[m]
      BY <1>3, <1>4, <3>1
    <3> QED
      BY <1>4, <2>2, <3>1, <3>2
  <2> QED
    BY <2>1, <2>2
<1> QED
  BY <1>1, <1>5, <1>6

LEMMA EqualInit ==
  ASSUME OneOrder, Init
  PROVE  EqualInv
<1>1. PICK q \in Nat : OfOrder(q)
  <2>1. CASE Sizes \ {0} = {}
    <3>1. OfOrder(0)
      BY <2>1 DEF OfOrder
    <3> QED
      BY <3>1
  <2>2. CASE Sizes \ {0} # {}
    <3>1. PICK s \in Sizes \ {0} : TRUE
      BY <2>2
    <3>2. s + Header \in Nat \ {0}
      BY <3>1, SizesAssumption
    <3> DEFINE q == size_to_order(s + Header)
    <3>3. q \in Nat
      BY <3>2, OrderHolds
    <3> HIDE DEF q
    <3>4. OfOrder(q)
      BY DEF OfOrder, OneOrder, q
    <3> QED
      BY <3>3, <3>4
  <2> QED
    BY <2>1, <2>2
<1>2. live = <<>> /\ order = [b \in Nodes |-> Level(b)] /\ MaxOrder \in Nat
  BY SizesAssumption DEF Init
<1>3. Used = {}
  BY <1>2 DEF Used
<1>4. order \in [Nodes -> Int] /\ \A b \in Nodes : order[b] = Level(b)
  BY <1>2, LevelType
<1>5. ASSUME NEW b \in Nodes
      PROVE  /\ Level(b) = q => order[b] = IF b \in {} THEN FLIP_ORDER(q) ELSE q
             /\ Level(b) >= q => order[b] >= q \/ order[b] < 0
             /\ Level(b) > q => (order[b] >= q <=> order[2 * b] >= q \/ order[2 * b + 1] >= q)
  <2>1. ASSUME Level(b) > q PROVE order[b] >= q /\ order[2 * b] >= q
    <3> DEFINE c == 2 * b
    <3>1. Level(b) \in Nat /\ Level(b) > 0
      BY <2>1, LevelType
    <3>2. c \in Nodes /\ Level(c) = Level(b) - 1
      BY <3>1, Children
    <3> HIDE DEF c
    <3>3. order[c] >= q /\ order[b] >= q
      BY <1>4, <2>1, <3>1, <3>2
    <3> QED
      BY <3>3 DEF c
  <2>2. Level(b) = q => order[b] = q
    BY <1>4
  <2>3. Level(b) >= q => order[b] >= q
    BY <1>4
  <2> QED
    BY <2>1, <2>2, <2>3
<1>6. Equals(order, {}, q)
  BY <1>4, <1>5 DEF Equals
<1>7. live \in Seq([buf : Nodes, size : Nat]) /\ DOMAIN live = {}
  BY <1>2
<1>8. EqualAreas(q)
  <2>1. Exact(order, {}, q)
    BY <1>4 DEF Exact
  <2> QED
    BY <1>3, <1>6, <1>7, <2>1 DEF EqualAreas, SmallestBlock
<1>9. MaxOrder < q => order[1] < q
  BY <1>4, RootLevel
<1> QED
  BY <1>1, <1>8, <1>9 DEF EqualInv

LEMMA EqualAlloc ==
  ASSUME NEW q \in Nat, OfOrder(q), EqualAreas(q), MaxOrder < q => order[1] < q,
         NEW size \in Sizes, Alloc(size)
  PROVE  EqualAreas(q)' /\ q <= MaxOrder
<1> DEFINE b == Fit(q)
           k == Len(live)
           Area == [buf : Nodes, size : Nat]
           area == [buf |-> b, size |-> size]
<1>1. size \in Nat \ {0} /\ size + Header \in Nat \ {0} /\ live \in Seq(Area)
  BY SizesAssumption DEF Alloc, EqualAreas
<1>2. size_to_order(size + Header) = q
  BY <1>1 DEF OfOrder
<1>3. size + Header <= Unit * 2 ^ q /\ (q > 0 => size + Header > Unit * 2 ^ (q - 1))
  BY <1>1, <1>2, OrderHolds
<1>4. /\ order[1] >= q /\ live' = Append(live, area)
      /\ order' = Updated([order EXCEPT ![b] = FLIP_ORDER(q)], b, q)
  BY <1>2, Zenon DEF Alloc, SetOrder
<1>5. Equals(order, Used, q) /\ order[1] \in Int /\ MaxOrder \in Int
  BY RootLevel, SizesAssumption DEF EqualAreas, Equals
<1>6. q <= MaxOrder
  BY <1>4, <1>5
<1>7. b \in Nodes /\ Level(b) = q /\ b \notin Used
  BY <1>4, <1>5, <1>6, EqualFit
<1> HIDE DEF b
<1>8. Equals(order', Used \cup {b}, q) /\ Exact(order', Used \cup {b}, q)
  <2>1. FLIP_ORDER(q) = IF b \in Used \cup {b} THEN FLIP_ORDER(q) ELSE q
    OBVIOUS
  <2>2. \A n \in Nodes \ {b} : n \in Used <=> n \in Used \cup {b}
    OBVIOUS
  <2>3. /\ Exact(order, Used, q)
        /\ Used \ {b} = (Used \cup {b}) \ {b} /\ (b \in Used <=> b \notin Used \cup {b})
        /\ \A a \in Used \cup (Used \cup {b}) : a \in Nodes /\ Level(a) = q
    BY <1>7, UsedNodes DEF EqualAreas
  <2> QED
    BY <1>4, <1>5, <1>7, <2>1, <2>2, <2>3, EqualUpdate, ExactUpdate
<1>9. /\ live' \in Seq(Area) /\ DOMAIN live' = 1 .. k + 1
      /\ live'[k + 1].buf = b /\ live'[k + 1].size = size
      /\ \A i \in 1 .. k : live'[i] = live[i]
      /\ DOMAIN live = 1 .. k /\ k \in Nat
  BY <1>1, <1>4, <1>7
<1>10. 1 .. k + 1 = (1 .. k) \cup {k + 1}
  BY <1>9
<1>11. Used' = Used \cup {b}
  BY <1>9, <1>10 DEF Used
<1>12. SmallestBlock'
  <2>1. ASSUME NEW i \in 1 .. k + 1
        PROVE  LET l == Level(live'[i].buf)
                   bytes == live'[i].size + Header
               IN  bytes <= Unit * 2 ^ l /\ (l > 0 => bytes > Unit * 2 ^ (l - 1))
    <3>1. CASE i = k + 1
      BY <1>3, <1>7, <1>9, <3>1
    <3>2. CASE i \in 1 .. k
      BY <1>9, <3>2 DEF EqualAreas, SmallestBlock
    <3> QED
      BY <1>10, <3>1, <3>2
  <2> QED
    BY <1>9, <2>1 DEF SmallestBlock
<1>13. \A i \in DOMAIN live' : Level(live'[i].buf) = q
  BY <1>7, <1>9, <1>10 DEF EqualAreas
<1>14. \A i, j \in DOMAIN live' : i # j => live'[i].buf # live'[j].buf
  <2>1. \A i \in 1 .. k : live'[i].buf # b
    BY <1>7, <1>9 DEF Used
  <2>2. \A i, j \in 1 .. k : i # j => live'[i].buf # live'[j].buf
    BY <1>9 DEF EqualAreas
  <2> QED
    BY <1>9, <1>10, <2>1, <2>2
<1> QED
  BY <1>6, <1>8, <1>9, <1>11, <1>12, <1>13, <1>14 DEF EqualAreas

LEMMA EqualFree ==
  ASSUME NEW q \in Nat, EqualAreas(q), NEW i \in DOMAIN live, Free(i)
  PROVE  EqualAreas(q)' /\ q <= MaxOrder
<1> DEFINE k == Len(live)
           b == live[i].buf
           Area == [buf : Nodes, size : Nat]
<1>1. live \in Seq(Area) /\ k \in Nat /\ DOMAIN live = 1 .. k /\ i \in 1 .. k
  BY DEF EqualAreas
<1>2. b \in Nodes /\ Level(b) = q /\ b \in Used /\ Equals(order, Used, q)
  <2>1. b \in Nodes
    BY <1>1, AreaNode
  <2>2. b \in Used
    BY DEF Used
  <2>3. Level(b) = q /\ Equals(order, Used, q)
    BY DEF EqualAreas
  <2> QED
    BY <2>1, <2>2, <2>3
<1>3. q <= MaxOrder
  BY <1>2, LevelType, SizesAssumption
<1>4. order[b] = FLIP_ORDER(q)
  BY <1>2 DEF Equals
<1>5. FLIP_ORDER(order[b]) = q
  BY <1>4 DEF FLIP_ORDER
<1>6. order' = Updated([order EXCEPT ![b] = q], b, q) /\ live' = RemoveAt(live, i)
  BY <1>5 DEF Free, SetOrder
<1> HIDE DEF b
<1>7. Equals(order', Used \ {b}, q) /\ Exact(order', Used \ {b}, q)
  <2>1. q = IF b \in Used \ {b} THEN FLIP_ORDER(q) ELSE q
    OBVIOUS
  <2>2. \A n \in Nodes \ {b} : n \in Used <=> n \in Used \ {b}
    OBVIOUS
  <2>3. /\ Exact(order, Used, q)
        /\ Used \ {b} = (Used \ {b}) \ {b} /\ (b \in Used <=> b \notin Used \ {b})
        /\ \A a \in Used \cup (Used \ {b}) : a \in Nodes /\ Level(a) = q
    BY <1>2, UsedNodes DEF EqualAreas
  <2> QED
    BY <1>2, <1>6, <2>1, <2>2, <2>3, EqualUpdate, ExactUpdate
<1>8. /\ live' \in Seq(Area) /\ Len(live') = k - 1
      /\ \A j \in 1 .. k - 1 : live'[j] = IF j < i THEN live[j] ELSE live[j + 1]
  <2> HIDE DEF Area
  <2> QED
    BY <1>1, <1>6, RemoveAtIs
<1> DEFINE from(j) == IF j < i THEN j ELSE j + 1
<1>9. /\ DOMAIN live' = 1 .. k - 1
      /\ \A j \in 1 .. k - 1 : from(j) \in (1 .. k) \ {i} /\ live'[j] = live[from(j)]
  <2>1. DOMAIN live' = 1 .. k - 1
    BY <1>8
  <2>2. ASSUME NEW j \in 1 .. k - 1
        PROVE  from(j) \in (1 .. k) \ {i} /\ live'[j] = live[from(j)]
    <3> HIDE DEF k
    <3>1. CASE j < i
      BY <1>1, <1>8, <3>1
    <3>2. CASE ~(j < i)
      BY <1>1, <1>8, <3>2
    <3> QED
      BY <3>1, <3>2
  <2> QED
    BY <2>1, <2>2
<1>10. \A j \in (1 .. k) \ {i} : \E m \in 1 .. k - 1 : from(m) = j
  <2>1. ASSUME NEW j \in (1 .. k) \ {i} PROVE \E m \in 1 .. k - 1 : from(m) = j
    <3>1. CASE j < i
      <4>1. j \in 1 .. k - 1 /\ from(j) = j
        BY <1>1, <3>1
      <4> QED
        BY <4>1
    <3>2. CASE ~(j < i)
      <4>1. j - 1 \in 1 .. k - 1 /\ from(j - 1) = j
        BY <1>1, <3>2
      <4> QED
        BY <4>1
    <3> QED
      BY <3>1, <3>2
  <2> QED
    BY <2>1
<1>11. \A j, m \in 1 .. k - 1 : j # m => from(j) # from(m)
  BY <1>1
<1> HIDE DEF from
<1>12. \A j, m \in 1 .. k : j # m => live[j].buf # live[m].buf
  BY <1>1 DEF EqualAreas
<1>13. Used' = Used \ {b}
  <2>1. Used = {live[j].buf : j \in 1 .. k}
    BY <1>1 DEF Used
  <2>2. Used' = {live'[j].buf : j \in 1 .. k - 1}
    BY <1>9 DEF Used
  <2>3. ASSUME NEW n \in Used' PROVE n \in Used \ {b}
    <3>1. PICK j \in 1 .. k - 1 : n = live'[j].buf
      BY <2>2, <2>3
    <3>2. n = live[from(j)].buf /\ from(j) \in 1 .. k /\ from(j) # i
      BY <1>9, <3>1
    <3>3. n # live[i].buf
      BY <1>1, <1>12, <3>2
    <3> QED
      BY <2>1, <3>2, <3>3 DEF b
  <2>4. ASSUME NEW n \in Used \ {b} PROVE n \in Used'
    <3>1. PICK j \in 1 .. k : n = live[j].buf
      BY <2>1, <2>4
    <3>2. j # i
      BY <2>4, <3>1 DEF b
    <3>3. PICK m \in 1 .. k - 1 : from(m) = j
      BY <1>10, <3>2
    <3>4. live'[m].buf = n
      BY <1>9, <3>1, <3>3
    <3> QED
      BY <2>2, <3>4
  <2> QED
    BY <2>3, <2>4
<1>14. SmallestBlock'
  BY <1>1, <1>9 DEF EqualAreas, SmallestBlock
<1>15. \A j \in DOMAIN live' : Level(live'[j].buf) = q
  BY <1>1, <1>9 DEF EqualAreas
<1>16. \A j, m \in DOMAIN live' : j # m => live'[j].buf # live'[m].buf
  BY <1>9, <1>11, <1>12
<1> QED
  BY <1>3, <1>7, <1>8, <1>13, <1>14, <1>15, <1>16 DEF EqualAreas

LEMMA EqualStep ==
  ASSUME EqualInv, [Next]_vars
  PROVE  EqualInv'
<1>1. PICK q \in Nat : OfOrder(q) /\ EqualAreas(q) /\ (MaxOrder < q => order[1] < q)
  BY DEF EqualInv
<1>2. ASSUME EqualAreas(q)', q <= MaxOrder PROVE EqualInv'
  <2>1. OfOrder(q)'
    BY <1>1 DEF OfOrder
  <2>2. ~(MaxOrder < q)
    BY <1>2, SizesAssumption
  <2> QED
    BY <1>2, <2>1, <2>2 DEF EqualInv
<1>3. ASSUME NEW size \in Sizes, Alloc(size) PROVE EqualInv'
  BY <1>1, <1>2, <1>3, EqualAlloc
<1>4. ASSUME NEW i \in DOMAIN live, Free(i) PROVE EqualInv'
  BY <1>1, <1>2, <1>4, EqualFree
<1>5. ASSUME UNCHANGED vars PROVE EqualInv'
  BY <1>5 DEF vars, EqualInv, EqualAreas, SmallestBlock, Used, OfOrder
<1>6. ASSUME NEW size \in Sizes, Refuse(size) PROVE EqualInv'
  BY <1>5, <1>6 DEF Refuse
<1> QED
  BY <1>3, <1>4, <1>5, <1>6 DEF Next

LEMMA EqualInvariant == ASSUME OneOrder PROVE Spec => []EqualInv
<1>1. Init => EqualInv
  BY EqualInit
<1>2. EqualInv /\ [Next]_vars => EqualInv'
  BY EqualStep
<1> QED
  BY <1>1, <1>2, PTL DEF Spec

LEMMA EqualTypes == EqualInv => TypeOK
<1> SUFFICES ASSUME EqualInv PROVE TypeOK
  OBVIOUS
<1>1. PICK q \in Nat : EqualAreas(q)
  BY DEF EqualInv
<1>2. live \in Seq([buf : Nodes, size : Nat]) /\ order \in [Nodes -> Int]
  BY <1>1 DEF EqualAreas, Equals
<1>3. ASSUME NEW i \in DOMAIN live
      PROVE  order[live[i].buf] = FLIP_ORDER(Level(live[i].buf))
  <2> DEFINE b == live[i].buf
  <2>1. b \in Nodes
    BY <1>2, AreaNode
  <2>2. b \in Used /\ Level(b) = q
    BY <1>1 DEF EqualAreas, Used
  <2> HIDE DEF b
  <2>3. order[b] = FLIP_ORDER(q)
    BY <1>1, <2>1, <2>2 DEF EqualAreas, Equals
  <2> QED
    BY <2>2, <2>3 DEF b
<1> QED
  BY <1>2, <1>3 DEF TypeOK

LEMMA EqualApart == EqualInv => NoOverlap
<1> SUFFICES ASSUME EqualInv, NEW i \in DOMAIN live, NEW j \in DOMAIN live, i # j
             PROVE  Covers(live[i].buf) \cap Covers(live[j].buf) = {}
  BY DEF NoOverlap
<1>1. PICK q \in Nat : EqualAreas(q)
  BY DEF EqualInv
<1>2. live \in Seq([buf : Nodes, size : Nat])
  BY <1>1 DEF EqualAreas
<1>3. live[i].buf \in Nodes /\ live[j].buf \in Nodes
  BY <1>2, AreaNode
<1>4. Level(live[i].buf) = Level(live[j].buf) /\ live[i].buf # live[j].buf
  BY <1>1 DEF EqualAreas
<1> QED
  BY <1>3, <1>4, OneCovers

LEMMA EqualRefuses == EqualInv => RefusesWhenFull
<1> SUFFICES ASSUME EqualInv, NEW size \in Sizes \ {0}
             PROVE  order[1] < size_to_order(size + Header) <=> ~Fits(size)
  BY DEF RefusesWhenFull
<1>1. PICK q \in Nat : OfOrder(q) /\ EqualAreas(q) /\ (MaxOrder < q => order[1] < q)
  BY DEF EqualInv
<1>2. size_to_order(size + Header) = q
  BY <1>1 DEF OfOrder
<1>3. size + Header \in Nat \ {0} /\ MaxOrder \in Nat
  BY SizesAssumption
<1>4. size + Header <= Unit * 2 ^ q
  BY <1>2, <1>3, OrderHolds
<1>5. Equals(order, Used, q) /\ order[1] \in Int
  BY <1>1, RootLevel DEF EqualAreas, Equals
<1>6. FreeLeaves = Covers(1) \ UNION {Covers(a) : a \in Used}
  BY DEF FreeLeaves, Used
<1>7. \A a \in Used : a \in Nodes /\ Level(a) = q
  BY <1>1, UsedNodes
<1>8. ASSUME order[1] >= q PROVE Fits(size)
  <2> DEFINE b == Fit(q)
  <2>1. q <= MaxOrder
    BY <1>1, <1>3, <1>5, <1>8
  <2>2. b \in Nodes /\ Level(b) = q /\ b \notin Used
    BY <1>5, <1>8, <2>1, EqualFit
  <2> HIDE DEF b
  <2>3. ASSUME NEW a \in Used PROVE Covers(b) \cap Covers(a) = {}
    <3>1. a \in Nodes /\ Level(a) = Level(b) /\ a # b
      BY <1>7, <2>2
    <3> QED
      BY <2>2, <3>1, OneCovers
  <2>4. Covers(b) \subseteq Covers(1)
    <3>1. PICK P : IsPath(P, b)
      BY <2>2, PathExists
    <3>2. MaxOrder \in Level(b) .. MaxOrder
      BY <1>3, <2>1, <2>2
    <3> QED
      BY <2>2, <3>1, <3>2, PathType
  <2>5. Covers(b) \subseteq FreeLeaves
    BY <1>6, <2>3, <2>4
  <2> QED
    BY <1>4, <2>2, <2>5 DEF Fits
<1>9. ASSUME Fits(size) PROVE order[1] >= q
  <2>1. PICK b \in Nodes : size + Header <= Unit * 2 ^ Level(b) /\ Covers(b) \subseteq FreeLeaves
    BY <1>9 DEF Fits
  <2>2. Level(b) >= q
    <3>1. Level(b) \in Nat
      BY LevelType
    <3> QED
      BY <1>2, <1>3, <2>1, <3>1, LargeEnough
  <2>3. PICK c \in Nodes : Level(c) = q /\ Covers(c) \subseteq Covers(b)
    BY <2>2, OneBelow
  <2>4. c \notin Used
    <3>1. Covers(c) # {} /\ Covers(c) \subseteq FreeLeaves
      BY <2>1, <2>3, CoversSome
    <3> QED
      BY <1>6, <3>1
  <2> QED
    BY <1>5, <2>3, <2>4, EqualRoot
<1> QED
  BY <1>2, <1>5, <1>8, <1>9

LEMMA EqualMerged == EqualInv => AllMerged
<1> SUFFICES ASSUME EqualInv, live = <<>>, NEW b \in Nodes PROVE order[b] = Level(b)
  BY DEF AllMerged
<1>1. PICK q \in Nat : EqualAreas(q)
  BY DEF EqualInv
<1>2. Used = {}
  BY DEF Used
<1>3. Under(Used, b) = {}
  BY <1>2 DEF Under
<1> QED
  BY <1>1, <1>3 DEF EqualAreas, Exact

-----------------------------------------------------------------------------
(* The theorems.                                                           *)

\* The orders are numbers, and the node of an area in use is marked with its
\* order, so that emi_free finds the block again (emi_shbuf.c:83-94).
THEOREM BuddyTypeCorrect == ASSUME Nested \/ OneOrder PROVE Spec => []TypeOK
<1>1. CASE Nested
  <2>1. Spec => []BuddyInv
    BY <1>1, BuddyInvariant
  <2>2. BuddyInv => TypeOK
    BY InvTypes
  <2> QED
    BY <2>1, <2>2, PTL
<1>2. CASE OneOrder
  <2>1. Spec => []EqualInv
    BY <1>2, EqualInvariant
  <2>2. EqualInv => TypeOK
    BY EqualTypes
  <2> QED
    BY <2>1, <2>2, PTL
<1> QED
  BY <1>1, <1>2

\* Two areas in use never share memory: what emi_alloc hands out it does not
\* hand out again before it is freed (emi_shbuf.c:25-48).
THEOREM AreasAreApart == ASSUME Nested \/ OneOrder PROVE Spec => []NoOverlap
<1>1. CASE Nested
  <2>1. Spec => []BuddyInv
    BY <1>1, BuddyInvariant
  <2>2. BuddyInv => NoOverlap
    BY InvApart
  <2> QED
    BY <2>1, <2>2, PTL
<1>2. CASE OneOrder
  <2>1. Spec => []EqualInv
    BY <1>2, EqualInvariant
  <2>2. EqualInv => NoOverlap
    BY EqualApart
  <2> QED
    BY <2>1, <2>2, PTL
<1> QED
  BY <1>1, <1>2

\* An area gets the smallest block that holds it and its header
\* (emi_shbuf.c:103-114, 163).
THEOREM AreasAreSmallest == ASSUME Nested \/ OneOrder PROVE Spec => []SmallestBlock
<1>1. CASE Nested
  <2>1. Spec => []BuddyInv
    BY <1>1, BuddyInvariant
  <2>2. BuddyInv => SmallestBlock
    BY DEF BuddyInv
  <2> QED
    BY <2>1, <2>2, PTL
<1>2. CASE OneOrder
  <2>1. Spec => []EqualInv
    BY <1>2, EqualInvariant
  <2>2. EqualInv => SmallestBlock
    BY DEF EqualInv, EqualAreas
  <2> QED
    BY <2>1, <2>2, PTL
<1> QED
  BY <1>1, <1>2

\* emi_alloc returns NULL exactly when no free block holds the request: the
\* orders of the ancestors neither hide one nor promise one that is not there
\* (emi_shbuf.c:27-28, 50-65).
THEOREM RefusalsAreRight == ASSUME Nested \/ OneOrder PROVE Spec => []RefusesWhenFull
<1>1. CASE Nested
  <2>1. Spec => []BuddyInv
    BY <1>1, BuddyInvariant
  <2>2. BuddyInv => RefusesWhenFull
    BY InvRefuses
  <2> QED
    BY <2>1, <2>2, PTL
<1>2. CASE OneOrder
  <2>1. Spec => []EqualInv
    BY <1>2, EqualInvariant
  <2>2. EqualInv => RefusesWhenFull
    BY EqualRefuses
  <2> QED
    BY <2>1, <2>2, PTL
<1> QED
  BY <1>1, <1>2

\* When every area was freed the tree is the initial one again: free siblings
\* are merged (emi_shbuf.c:56-62).
THEOREM BlocksMerge == ASSUME Nested \/ OneOrder PROVE Spec => []AllMerged
<1>1. CASE Nested
  <2>1. Spec => []BuddyInv
    BY <1>1, BuddyInvariant
  <2>2. BuddyInv => AllMerged
    BY InvMerged
  <2> QED
    BY <2>1, <2>2, PTL
<1>2. CASE OneOrder
  <2>1. Spec => []EqualInv
    BY <1>2, EqualInvariant
  <2>2. EqualInv => AllMerged
    BY EqualMerged
  <2> QED
    BY <2>1, <2>2, PTL
<1> QED
  BY <1>1, <1>2

=============================================================================
