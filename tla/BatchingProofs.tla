---------------------------- MODULE BatchingProofs ----------------------------
(***************************************************************************)
(* Merkle trees (Merkle) and the batches sealed with them (Batching), for  *)
(* any number of leaves, events, jobs and faults.                          *)
(*                                                                         *)
(* Trees: the equations of the recursive functions have a solution, by     *)
(* induction on the height (UpTo: a counterexample would have a smallest   *)
(* height).  From a leaf the loop of the verifier climbs along the leaf's  *)
(* path to the root.  Backwards from the root, as digests are free and the *)
(* nodes of a level differ, only that leaf at that index gets there.       *)
(*                                                                         *)
(* Batches: whichever jobs overlap, an event that has a batch is listed in *)
(* that batch, and a batch's root is that of the events it lists.          *)
(***************************************************************************)
EXTENDS Batching, WellFoundedInduction, FiniteSetTheorems, FunctionTheorems, TLAPS

-----------------------------------------------------------------------------
(* Natural numbers.                                                        *)

LEMMA SmallestNat ==
    ASSUME NEW S \in SUBSET Nat, S # {}
    PROVE  \E m \in S : \A k \in S : m <= k
<1>1. PICK m \in S : \A k \in S : <<k, m>> \notin OpToRel(<, Nat)
  BY NatLessThanWellFounded, WFMin
<1>2. \A k \in S : ~(k < m)
  BY <1>1 DEF OpToRel
<1> QED BY <1>2

\* Induction up to n: a set that has 0 and with each k below n also k + 1 has
\* every number up to n.
LEMMA UpTo ==
    ASSUME NEW n \in Nat, NEW S, 0 \in S, \A k \in 0..(n - 1) : k \in S => k + 1 \in S
    PROVE  \A k \in 0..n : k \in S
<1> DEFINE B == {k \in 0..n : k \notin S}
<1> SUFFICES ASSUME B # {} PROVE FALSE
  OBVIOUS
<1>1. B \in SUBSET Nat
  OBVIOUS
<1>2. PICK m \in B : \A k \in B : m <= k
  <2> HIDE DEF B
  <2> QED BY <1>1, SmallestNat
<1>3. m \in 0..n /\ m \notin S /\ m # 0
  BY <1>2
<1>4. m - 1 \in 0..(n - 1) /\ m - 1 \in 0..n /\ ~(m <= m - 1) /\ (m - 1) + 1 = m
  BY <1>3
<1>5. m - 1 \in S
  BY <1>2, <1>4
<1> QED BY <1>3, <1>4, <1>5

LEMMA Halves ==
    ASSUME NEW p \in Nat
    PROVE  /\ p \div 2 \in Nat /\ p % 2 \in {0, 1}
           /\ p % 2 = 1 => p = 2 * (p \div 2) + 1
           /\ p % 2 # 1 => p = 2 * (p \div 2)
<1>1. p \div 2 \in Nat /\ p % 2 \in {0, 1}
  OBVIOUS
<1>2. p % 2 = 1 => p = 2 * (p \div 2) + 1
  OBVIOUS
<1>3. p % 2 = 0 => p = 2 * (p \div 2)
  OBVIOUS
<1> QED BY <1>1, <1>2, <1>3

-----------------------------------------------------------------------------
(* The recursive functions are what their equations say.                   *)

LEMMA PathEq ==
    ASSUME NEW index, NEW n \in Nat
    PROVE  Path(index, n) = [k \in 0..n |-> IF k = 0 THEN index ELSE Path(index, n)[k - 1] \div 2]
<1> DEFINE Nx(k, x) == x \div 2
           P(m, f) == f = [k \in 0..m |-> IF k = 0 THEN index ELSE Nx(k, f[k - 1])]
           S == {m \in Nat : \E f : P(m, f)}
<1> HIDE DEF Nx
<1>1. 0 \in S
  <2>1. P(0, [k \in 0..0 |-> index])
    OBVIOUS
  <2> QED BY <2>1
<1>2. ASSUME NEW m \in Nat, m \in S PROVE m + 1 \in S
  <2>1. PICK f : P(m, f)
    BY <1>2
  <2> DEFINE g == [k \in 0..(m + 1) |-> IF k <= m THEN f[k] ELSE Nx(k, f[m])]
  <2>2. ASSUME NEW k \in 0..(m + 1) PROVE g[k] = IF k = 0 THEN index ELSE Nx(k, g[k - 1])
    <3>1. CASE k = 0
      BY <3>1, <2>1
    <3>2. CASE k # 0 /\ k <= m
      <4>1. k \in 0..m /\ k - 1 \in 0..m /\ k - 1 \in 0..(m + 1) /\ k - 1 <= m
        BY <3>2
      <4>2. f[k] = Nx(k, f[k - 1])
        BY <2>1, <3>2, <4>1
      <4>3. g[k] = f[k] /\ g[k - 1] = f[k - 1]
        BY <4>1, <3>2
      <4> QED BY <4>2, <4>3, <3>2
    <3>3. CASE k = m + 1
      <4>1. k - 1 = m /\ k # 0 /\ ~(k <= m) /\ m \in 0..(m + 1)
        BY <3>3
      <4>2. g[k] = Nx(k, f[m]) /\ g[m] = f[m]
        BY <4>1
      <4> QED BY <4>1, <4>2
    <3> QED BY <3>1, <3>2, <3>3
  <2>3. P(m + 1, g)
    BY <2>2
  <2> HIDE DEF P
  <2> QED BY <2>3
<1> HIDE DEF P
<1>3. n \in S
  <2> HIDE DEF S
  <2>1. \A k \in 0..(n - 1) : k \in S => k + 1 \in S
    BY <1>2
  <2>2. n \in 0..n
    OBVIOUS
  <2> QED BY <1>1, <2>1, <2>2, UpTo
<1>4. \E f : P(n, f)
  BY <1>3
<1>5. Path(index, n) = CHOOSE f : P(n, f)
  BY Zenon DEF Path, P, Nx
<1>6. P(n, Path(index, n))
  BY <1>4, <1>5, Zenon
<1> QED BY <1>6 DEF P, Nx

LEMMA LevelEq ==
    ASSUME NEW L, Len(L) \in Nat
    PROVE  Level(L) = [k \in 0..Len(L) |-> IF k = 0 THEN L ELSE LevelAbove(Level(L)[k - 1])]
<1> DEFINE Nx(k, x) == LevelAbove(x)
           P(m, f) == f = [k \in 0..m |-> IF k = 0 THEN L ELSE Nx(k, f[k - 1])]
           S == {m \in Nat : \E f : P(m, f)}
<1> HIDE DEF Nx
<1>1. 0 \in S
  <2>1. P(0, [k \in 0..0 |-> L])
    OBVIOUS
  <2> QED BY <2>1
<1>2. ASSUME NEW m \in Nat, m \in S PROVE m + 1 \in S
  <2>1. PICK f : P(m, f)
    BY <1>2
  <2> DEFINE g == [k \in 0..(m + 1) |-> IF k <= m THEN f[k] ELSE Nx(k, f[m])]
  <2>2. ASSUME NEW k \in 0..(m + 1) PROVE g[k] = IF k = 0 THEN L ELSE Nx(k, g[k - 1])
    <3>1. CASE k = 0
      BY <3>1, <2>1
    <3>2. CASE k # 0 /\ k <= m
      <4>1. k \in 0..m /\ k - 1 \in 0..m /\ k - 1 \in 0..(m + 1) /\ k - 1 <= m
        BY <3>2
      <4>2. f[k] = Nx(k, f[k - 1])
        BY <2>1, <3>2, <4>1
      <4>3. g[k] = f[k] /\ g[k - 1] = f[k - 1]
        BY <4>1, <3>2
      <4> QED BY <4>2, <4>3, <3>2
    <3>3. CASE k = m + 1
      <4>1. k - 1 = m /\ k # 0 /\ ~(k <= m) /\ m \in 0..(m + 1)
        BY <3>3
      <4>2. g[k] = Nx(k, f[m]) /\ g[m] = f[m]
        BY <4>1
      <4> QED BY <4>1, <4>2
    <3> QED BY <3>1, <3>2, <3>3
  <2>3. P(m + 1, g)
    BY <2>2
  <2> HIDE DEF P
  <2> QED BY <2>3
<1> HIDE DEF P
<1>3. Len(L) \in S
  <2> HIDE DEF S
  <2>1. \A k \in 0..(Len(L) - 1) : k \in S => k + 1 \in S
    BY <1>2
  <2>2. Len(L) \in 0..Len(L)
    OBVIOUS
  <2> QED BY <1>1, <2>1, <2>2, UpTo
<1>4. \E f : P(Len(L), f)
  BY <1>3
<1>5. Level(L) = CHOOSE f : P(Len(L), f)
  BY Zenon DEF Level, P, Nx
<1>6. P(Len(L), Level(L))
  BY <1>4, <1>5, Zenon
<1> QED BY <1>6 DEF P, Nx

LEMMA ClimbEq ==
    ASSUME NEW leaf, NEW index, NEW proof, Len(proof) \in Nat
    PROVE  Climb(leaf, index, proof) =
             [k \in 0..Len(proof) |->
                IF k = 0 THEN leaf
                ELSE Combine(Path(index, Len(proof))[k - 1], Climb(leaf, index, proof)[k - 1], proof[k])]
<1> DEFINE Nx(k, x) == Combine(Path(index, Len(proof))[k - 1], x, proof[k])
           P(m, f) == f = [k \in 0..m |-> IF k = 0 THEN leaf ELSE Nx(k, f[k - 1])]
           S == {m \in Nat : \E f : P(m, f)}
<1> HIDE DEF Nx
<1>1. 0 \in S
  <2>1. P(0, [k \in 0..0 |-> leaf])
    OBVIOUS
  <2> QED BY <2>1
<1>2. ASSUME NEW m \in Nat, m \in S PROVE m + 1 \in S
  <2>1. PICK f : P(m, f)
    BY <1>2
  <2> DEFINE g == [k \in 0..(m + 1) |-> IF k <= m THEN f[k] ELSE Nx(k, f[m])]
  <2>2. ASSUME NEW k \in 0..(m + 1) PROVE g[k] = IF k = 0 THEN leaf ELSE Nx(k, g[k - 1])
    <3>1. CASE k = 0
      BY <3>1, <2>1
    <3>2. CASE k # 0 /\ k <= m
      <4>1. k \in 0..m /\ k - 1 \in 0..m /\ k - 1 \in 0..(m + 1) /\ k - 1 <= m
        BY <3>2
      <4>2. f[k] = Nx(k, f[k - 1])
        BY <2>1, <3>2, <4>1
      <4>3. g[k] = f[k] /\ g[k - 1] = f[k - 1]
        BY <4>1, <3>2
      <4> QED BY <4>2, <4>3, <3>2
    <3>3. CASE k = m + 1
      <4>1. k - 1 = m /\ k # 0 /\ ~(k <= m) /\ m \in 0..(m + 1)
        BY <3>3
      <4>2. g[k] = Nx(k, f[m]) /\ g[m] = f[m]
        BY <4>1
      <4> QED BY <4>1, <4>2
    <3> QED BY <3>1, <3>2, <3>3
  <2>3. P(m + 1, g)
    BY <2>2
  <2> HIDE DEF P
  <2> QED BY <2>3
<1> HIDE DEF P
<1>3. Len(proof) \in S
  <2> HIDE DEF S
  <2>1. \A k \in 0..(Len(proof) - 1) : k \in S => k + 1 \in S
    BY <1>2
  <2>2. Len(proof) \in 0..Len(proof)
    OBVIOUS
  <2> QED BY <1>1, <2>1, <2>2, UpTo
<1>4. \E f : P(Len(proof), f)
  BY <1>3
<1>5. Climb(leaf, index, proof) = CHOOSE f : P(Len(proof), f)
  BY Zenon DEF Climb, P, Nx
<1>6. P(Len(proof), Climb(leaf, index, proof))
  BY <1>4, <1>5, Zenon
<1> QED BY <1>6 DEF P, Nx

-----------------------------------------------------------------------------
(* The levels of a tree.                                                   *)

LEMMA DigestFree ==
    ASSUME NEW a, NEW b, NEW c, NEW d, Digest(a, b) = Digest(c, d)
    PROVE  a = c /\ b = d
<1>1. Digest(a, b).of = <<a, b>> /\ Digest(c, d).of = <<c, d>>
  BY DEF Digest
<1>2. <<a, b>> = <<c, d>>
  BY <1>1
<1> QED BY <1>2

LEMMA AboveFacts ==
    ASSUME NEW X, Len(X) \in Nat \ {0}
    PROVE  /\ Len(LevelAbove(X)) = (Len(X) + 1) \div 2
           /\ Len(LevelAbove(X)) \in Nat \ {0}
           /\ Len(X) > 1 => Len(LevelAbove(X)) <= Len(X) - 1
           /\ \A i \in 1..Len(LevelAbove(X)) : 2 * i - 1 \in 1..Len(X) /\ LevelAbove(X)[i] = Parent(X, i)
<1> DEFINE m == (Len(X) + 1) \div 2
           f == LevelAbove(X)
<1>1. m \in Nat \ {0}
  OBVIOUS
<1>2. Len(X) > 1 => m <= Len(X) - 1
  OBVIOUS
<1>3. \A i \in 1..m : 2 * i - 1 \in 1..Len(X)
  OBVIOUS
<1>4. f = [i \in 1..m |-> Parent(X, i)]
  BY DEF LevelAbove
<1> HIDE DEF m, f
<1>5. f \in [1..m -> {f[i] : i \in 1..m}]
  BY <1>4
<1>6. f \in Seq({f[i] : i \in 1..m})
  BY <1>1, <1>5
<1>7. Len(f) = m
  BY <1>1, <1>4, <1>6
<1> QED BY <1>1, <1>2, <1>3, <1>4, <1>7 DEF m, f

LEMMA LevelFacts ==
    ASSUME NEW L, Len(L) \in Nat \ {0}
    PROVE  /\ Level(L)[0] = L
           /\ \A k \in 0..(Len(L) - 1) : Level(L)[k + 1] = LevelAbove(Level(L)[k])
           /\ \A k \in 0..Len(L) : Len(Level(L)[k]) \in Nat \ {0}
<1> DEFINE n == Len(L)
           lev == Level(L)
<1>1. lev = [k \in 0..n |-> IF k = 0 THEN L ELSE LevelAbove(lev[k - 1])]
  BY LevelEq
<1> HIDE DEF lev
<1>2. lev[0] = L
  BY <1>1
<1>3. ASSUME NEW k \in 0..(n - 1) PROVE lev[k + 1] = LevelAbove(lev[k])
  <2>1. k + 1 \in 0..n /\ k + 1 # 0 /\ (k + 1) - 1 = k
    OBVIOUS
  <2>2. lev[k + 1] = LevelAbove(lev[(k + 1) - 1])
    BY <1>1, <2>1
  <2> QED BY <2>1, <2>2
<1> DEFINE S == {k \in 0..n : Len(lev[k]) \in Nat \ {0}}
<1>4. 0 \in S
  BY <1>2
<1>5. \A k \in 0..(n - 1) : k \in S => k + 1 \in S
  <2> SUFFICES ASSUME NEW k \in 0..(n - 1), k \in S PROVE k + 1 \in S
    OBVIOUS
  <2>1. Len(LevelAbove(lev[k])) \in Nat \ {0}
    BY AboveFacts
  <2> QED BY <2>1, <1>3
<1>6. \A k \in 0..n : k \in S
  <2> HIDE DEF S
  <2> QED BY <1>4, <1>5, UpTo
<1>7. \A k \in 0..n : Len(lev[k]) \in Nat \ {0}
  BY <1>6
<1> QED BY <1>2, <1>3, <1>7 DEF lev

LEMMA LevelStep ==
    ASSUME NEW L, Len(L) \in Nat \ {0}, NEW k \in 0..(Len(L) - 1)
    PROVE  Level(L)[k + 1] = LevelAbove(Level(L)[k]) /\ Len(Level(L)[k]) \in Nat \ {0}
<1>1. k \in 0..Len(L)
  OBVIOUS
<1> QED BY <1>1, LevelFacts

\* The tree has a root: each level but the root's is larger than the next.
LEMMA HeightFacts ==
    ASSUME NEW L, Len(L) \in Nat \ {0}
    PROVE  /\ Height(L) \in 0..Len(L)
           /\ Height(L) \in 0..(Len(L) - 1)
           /\ Len(Level(L)[Height(L)]) = 1
           /\ \A j \in 0..(Height(L) - 1) : Len(Level(L)[j]) > 1
<1> DEFINE n == Len(L)
           len(k) == Len(Level(L)[k])
<1>1. len(0) = n /\ \A k \in 0..n : len(k) \in Nat \ {0}
  BY LevelFacts
<1>2. \A k \in 0..(n - 1) : len(k) > 1 => len(k + 1) <= len(k) - 1
  <2> TAKE k \in 0..(n - 1)
  <2>1. Level(L)[k + 1] = LevelAbove(Level(L)[k])
    BY LevelFacts
  <2>2. k \in 0..n /\ len(k) \in Nat \ {0}
    BY <1>1
  <2> QED BY <2>1, <2>2, AboveFacts
<1> HIDE DEF len
<1> DEFINE O == {k \in 0..(n - 1) : len(k) = 1}
           S == {k \in 0..n : (\A j \in 0..(k - 1) : len(j) > 1) => len(k) <= n - k}
<1>3. O # {}
  <2> SUFFICES ASSUME O = {} PROVE FALSE
    OBVIOUS
  <2>1. \A k \in 0..(n - 1) : len(k) > 1
    BY <1>1
  <2>2. 0 \in S
    BY <1>1
  <2>3. \A k \in 0..(n - 1) : k \in S => k + 1 \in S
    <3> SUFFICES ASSUME NEW k \in 0..(n - 1), k \in S PROVE k + 1 \in S
      OBVIOUS
    <3>1. \A j \in 0..(k - 1) : len(j) > 1
      BY <2>1
    <3>2. len(k) <= n - k
      BY <3>1
    <3>3. len(k + 1) <= len(k) - 1 /\ len(k) \in Nat /\ len(k + 1) \in Nat /\ k + 1 \in 0..n
      BY <1>1, <1>2, <2>1
    <3>4. len(k + 1) <= n - (k + 1)
      BY <3>2, <3>3
    <3> QED BY <3>3, <3>4
  <2>4. n \in S
    <3> HIDE DEF S
    <3>1. n \in 0..n
      OBVIOUS
    <3> QED BY <2>2, <2>3, <3>1, UpTo
  <2>5. len(n) <= n - n
    BY <2>1, <2>4
  <2> QED BY <2>5, <1>1
<1>4. PICK k \in O : \A j \in O : k <= j
  <2>1. O \in SUBSET Nat
    OBVIOUS
  <2> HIDE DEF O
  <2> QED BY <1>3, <2>1, SmallestNat
<1>5. k \in 0..(n - 1) /\ k \in 0..n /\ len(k) = 1
  BY <1>4
<1>6. \A j \in 0..(k - 1) : len(j) > 1
  <2> TAKE j \in 0..(k - 1)
  <2>1. j \in 0..(n - 1) /\ j \in 0..n /\ ~(k <= j)
    BY <1>5
  <2>2. len(j) # 1
    BY <2>1, <1>4
  <2> QED BY <2>1, <2>2, <1>1
<1>7. Height(L) = CHOOSE h \in 0..n : len(h) = 1 /\ \A j \in 0..(h - 1) : len(j) > 1
  BY DEF Height, len
<1>8. /\ Height(L) \in 0..n /\ len(Height(L)) = 1
      /\ \A j \in 0..(Height(L) - 1) : len(j) > 1
  BY <1>5, <1>6, <1>7
<1>9. Height(L) \in 0..(n - 1)
  <2>1. CASE Height(L) <= n - 1
    BY <2>1, <1>8
  <2>2. CASE ~(Height(L) <= n - 1)
    <3>1. k \in 0..(Height(L) - 1)
      BY <2>2, <1>5, <1>8
    <3> QED BY <3>1, <1>5, <1>8
  <2> QED BY <2>1, <2>2
<1> QED BY <1>8, <1>9 DEF len


\* The nodes of a level are different if the leaves are.
AllDiffer(X) == \A i, j \in 1..Len(X) : X[i] = X[j] => i = j

LEMMA AboveDiffer ==
    ASSUME NEW X, Len(X) \in Nat \ {0}, AllDiffer(X)
    PROVE  AllDiffer(LevelAbove(X))
<1> SUFFICES ASSUME NEW i \in 1..Len(LevelAbove(X)), NEW j \in 1..Len(LevelAbove(X)),
                    LevelAbove(X)[i] = LevelAbove(X)[j]
             PROVE  i = j
  BY DEF AllDiffer
<1>1. Len(LevelAbove(X)) \in Nat /\ i \in Nat /\ j \in Nat
  BY AboveFacts
<1>2. LevelAbove(X)[i] = Parent(X, i) /\ 2 * i - 1 \in 1..Len(X)
  BY AboveFacts
<1>3. LevelAbove(X)[j] = Parent(X, j) /\ 2 * j - 1 \in 1..Len(X)
  BY AboveFacts
<1>4. Parent(X, i) = Parent(X, j)
  BY <1>2, <1>3
<1>5. X[2 * i - 1] = X[2 * j - 1]
  BY <1>4, DigestFree DEF Parent
<1>6. 2 * i - 1 = 2 * j - 1
  BY <1>2, <1>3, <1>5 DEF AllDiffer
<1> QED BY <1>1, <1>6

LEMMA NodesDiffer ==
    ASSUME NEW L, Len(L) \in Nat \ {0}, AllDiffer(L)
    PROVE  \A k \in 0..Len(L) : AllDiffer(Level(L)[k])
<1> DEFINE S == {k \in 0..Len(L) : AllDiffer(Level(L)[k])}
<1>1. 0 \in S
  BY LevelFacts
<1>2. \A k \in 0..(Len(L) - 1) : k \in S => k + 1 \in S
  <2> SUFFICES ASSUME NEW k \in 0..(Len(L) - 1), k \in S PROVE k + 1 \in S
    OBVIOUS
  <2>1. AllDiffer(Level(L)[k]) /\ k \in 0..Len(L) /\ k + 1 \in 0..Len(L)
    OBVIOUS
  <2>2. Len(Level(L)[k]) \in Nat \ {0}
    BY <2>1, LevelFacts
  <2>3. AllDiffer(LevelAbove(Level(L)[k]))
    BY <2>1, <2>2, AboveDiffer
  <2>4. Level(L)[k + 1] = LevelAbove(Level(L)[k])
    BY LevelStep
  <2> QED BY <2>1, <2>3, <2>4
<1>3. \A k \in 0..Len(L) : k \in S
  <2> HIDE DEF S
  <2> QED BY <1>1, <1>2, UpTo
<1> QED BY <1>3

-----------------------------------------------------------------------------
(* Paths.                                                                  *)

LEMMA PathFacts ==
    ASSUME NEW index \in Nat, NEW n \in Nat
    PROVE  /\ Path(index, n)[0] = index
           /\ \A k \in 0..(n - 1) : Path(index, n)[k + 1] = Path(index, n)[k] \div 2
           /\ \A k \in 0..n : Path(index, n)[k] \in Nat
<1> DEFINE p == Path(index, n)
           S == {k \in 0..n : p[k] \in Nat}
<1>1. p = [k \in 0..n |-> IF k = 0 THEN index ELSE p[k - 1] \div 2]
  BY PathEq
<1> HIDE DEF p
<1>2. p[0] = index
  BY <1>1
<1>3. ASSUME NEW k \in 0..(n - 1) PROVE p[k + 1] = p[k] \div 2
  <2>1. k + 1 \in 0..n /\ k + 1 # 0 /\ (k + 1) - 1 = k
    OBVIOUS
  <2>2. p[k + 1] = p[(k + 1) - 1] \div 2
    BY <1>1, <2>1
  <2> QED BY <2>1, <2>2
<1>4. \A k \in 0..(n - 1) : k \in S => k + 1 \in S
  <2> SUFFICES ASSUME NEW k \in 0..(n - 1), k \in S PROVE k + 1 \in S
    OBVIOUS
  <2>1. p[k] \div 2 \in Nat
    BY Halves
  <2> QED BY <2>1, <1>3
<1>5. \A k \in 0..n : k \in S
  <2>1. 0 \in S
    BY <1>2
  <2> HIDE DEF S
  <2> QED BY <2>1, <1>4, UpTo
<1> QED BY <1>2, <1>3, <1>5 DEF p

\* The path from a leaf of the tree stays in the tree.
LEMMA PathInTree ==
    ASSUME NEW L, Len(L) \in Nat \ {0}, NEW index \in 0..(Len(L) - 1)
    PROVE  \A k \in 0..Height(L) : Path(index, Height(L))[k] + 1 \in 1..Len(Level(L)[k])
<1> DEFINE h == Height(L)
           p == Path(index, h)
           S == {k \in 0..h : p[k] + 1 \in 1..Len(Level(L)[k])}
<1>1. h \in Nat /\ h <= Len(L) - 1
  BY HeightFacts
<1>0. index \in Nat
  OBVIOUS
<1> HIDE DEF h
<1>2. p[0] = index /\ \A k \in 0..(h - 1) : p[k + 1] = p[k] \div 2
  BY <1>0, <1>1, PathFacts
<1>3. \A k \in 0..h : p[k] \in Nat
  BY <1>0, <1>1, PathFacts
<1> HIDE DEF p
<1>4. 0 \in S
  <2>1. Level(L)[0] = L /\ 0 \in 0..h
    BY <1>1, LevelFacts
  <2>2. p[0] + 1 \in 1..Len(L)
    BY <1>2
  <2> QED BY <2>1, <2>2
<1>5. \A k \in 0..(h - 1) : k \in S => k + 1 \in S
  <2> SUFFICES ASSUME NEW k \in 0..(h - 1), k \in S PROVE k + 1 \in S
    OBVIOUS
  <2>1. k \in 0..Len(L) /\ k \in 0..(Len(L) - 1) /\ k + 1 \in 0..h
    BY <1>1
  <2>2. Len(Level(L)[k]) \in Nat \ {0} /\ Level(L)[k + 1] = LevelAbove(Level(L)[k])
    BY <2>1, LevelFacts
  <2> DEFINE m == Len(Level(L)[k])
  <2>3. Len(Level(L)[k + 1]) = (m + 1) \div 2
    BY <2>2, AboveFacts
  <2>4. p[k] \in Nat /\ p[k] + 1 <= m /\ m \in Nat
    BY <1>3, <2>2
  <2> HIDE DEF m
  <2>5. p[k] \div 2 \in Nat /\ p[k] \div 2 + 1 <= (m + 1) \div 2 /\ (m + 1) \div 2 \in Nat
    <3> PICK q : q = p[k]
      OBVIOUS
    <3>1. q \in Nat /\ q + 1 <= m /\ m \in Nat
      BY <2>4
    <3>2. q \div 2 \in Nat /\ q \div 2 + 1 <= (m + 1) \div 2 /\ (m + 1) \div 2 \in Nat
      BY <3>1
    <3> QED BY <3>2
  <2>6. p[k + 1] + 1 \in 1..((m + 1) \div 2)
    BY <1>2, <2>5
  <2> QED BY <2>1, <2>3, <2>6
<1>6. \A k \in 0..h : k \in S
  <2> HIDE DEF S
  <2> QED BY <1>1, <1>4, <1>5, UpTo
<1> QED BY <1>6 DEF h, p


-----------------------------------------------------------------------------
(* Proofs.                                                                 *)

\* What a proof consists of.
LEMMA ProofFacts ==
    ASSUME NEW L, Len(L) \in Nat \ {0}, NEW index
    PROVE  /\ Len(MerkleProof(L, index)) = Height(L)
           /\ \A k \in 0..(Height(L) - 1) :
                 MerkleProof(L, index)[k + 1] = SiblingNode(Level(L)[k], Path(index, Height(L))[k])
           /\ MerkleRoot(L) = Level(L)[Height(L)][1]
<1> DEFINE h == Height(L)
           Sib(k) == SiblingNode(Level(L)[k], Path(index, h)[k])
           f == MerkleProof(L, index)
<1>1. h \in Nat
  BY HeightFacts
<1>2. \A k \in 0..h : Tree(L)[k] = Level(L)[k]
  BY DEF Tree
<1>3. f = [k \in 1..h |-> Sib(k - 1)]
  <2>1. f = [k \in 1..h |-> SiblingNode(Tree(L)[k - 1], Path(index, h)[k - 1])]
    BY DEF MerkleProof
  <2>2. \A k \in 1..h : k - 1 \in 0..h
    BY <1>1
  <2>3. \A k \in 1..h : Tree(L)[k - 1] = Level(L)[k - 1]
    BY <1>2, <2>2
  <2> HIDE DEF f, h
  <2> QED BY <2>1, <2>3
<1>4. MerkleRoot(L) = Level(L)[h][1]
  BY <1>1, <1>2 DEF MerkleRoot
<1> HIDE DEF h, f, Sib
<1>5. f \in [1..h -> {f[i] : i \in 1..h}]
  BY <1>3
<1>6. f \in Seq({f[i] : i \in 1..h})
  BY <1>1, <1>5
<1>7. Len(f) = h
  BY <1>1, <1>3, <1>6
<1>8. \A k \in 0..(h - 1) : f[k + 1] = Sib(k)
  BY <1>1, <1>3
<1> QED BY <1>4, <1>7, <1>8 DEF h, f, Sib

LEMMA ClimbFacts ==
    ASSUME NEW leaf, NEW index, NEW proof, Len(proof) \in Nat
    PROVE  /\ Climb(leaf, index, proof)[0] = leaf
           /\ \A k \in 0..(Len(proof) - 1) :
                 Climb(leaf, index, proof)[k + 1] =
                    Combine(Path(index, Len(proof))[k], Climb(leaf, index, proof)[k], proof[k + 1])
<1> DEFINE n == Len(proof)
           c == Climb(leaf, index, proof)
<1>1. c = [k \in 0..n |-> IF k = 0 THEN leaf ELSE Combine(Path(index, n)[k - 1], c[k - 1], proof[k])]
  BY ClimbEq
<1> HIDE DEF c
<1>2. c[0] = leaf
  BY <1>1
<1>3. ASSUME NEW k \in 0..(n - 1) PROVE c[k + 1] = Combine(Path(index, n)[k], c[k], proof[k + 1])
  <2>1. k + 1 \in 0..n /\ k + 1 # 0 /\ (k + 1) - 1 = k
    OBVIOUS
  <2>2. c[k + 1] = Combine(Path(index, n)[(k + 1) - 1], c[(k + 1) - 1], proof[k + 1])
    BY <1>1, <2>1
  <2> QED BY <2>1, <2>2
<1> QED BY <1>2, <1>3 DEF c

\* One turn of the loop: a node of level X and its sibling give the node above.
LEMMA CombineUp ==
    ASSUME NEW X, Len(X) \in Nat \ {0}, NEW p \in Nat, p + 1 \in 1..Len(X)
    PROVE  /\ p \div 2 + 1 \in 1..Len(LevelAbove(X))
           /\ Combine(p, X[p + 1], SiblingNode(X, p)) = LevelAbove(X)[p \div 2 + 1]
<1> PICK q : q = p \div 2
  OBVIOUS
<1>1. q \in Nat /\ (p % 2 = 1 => p = 2 * q + 1) /\ (p % 2 # 1 => p = 2 * q)
  BY Halves
<1>2. q + 1 \in 1..Len(LevelAbove(X))
  <2>1. q + 1 <= (Len(X) + 1) \div 2 /\ (Len(X) + 1) \div 2 \in Nat
    OBVIOUS
  <2> QED BY <2>1, <1>1, AboveFacts
<1>3. LevelAbove(X)[q + 1] = Parent(X, q + 1)
  BY <1>2, AboveFacts
<1>4. 2 * (q + 1) - 1 = 2 * q + 1 /\ 2 * (q + 1) = 2 * q + 2
  BY <1>1
<1>5. Parent(X, q + 1) = Digest(X[2 * q + 1], X[IF 2 * q + 2 <= Len(X) THEN 2 * q + 2 ELSE Len(X)])
  BY <1>4 DEF Parent
<1> PICK s : s = Sibling(p) + 1
  OBVIOUS
<1>6. SiblingNode(X, p) = X[IF s <= Len(X) THEN s ELSE Len(X)]
  BY DEF SiblingNode
<1>7. CASE p % 2 = 1
  <2>1. s = p /\ p = 2 * q + 1 /\ p + 1 = 2 * q + 2 /\ 2 * q + 2 <= Len(X) /\ s <= Len(X)
    BY <1>1, <1>7 DEF Sibling
  <2> QED BY <1>2, <1>3, <1>5, <1>7, <1>6, <2>1 DEF Combine
<1>8. CASE p % 2 # 1
  <2>1. s = 2 * q + 2 /\ p + 1 = 2 * q + 1
    BY <1>1, <1>8 DEF Sibling
  <2> QED BY <1>2, <1>3, <1>5, <1>8, <1>6, <2>1 DEF Combine
<1> QED BY <1>7, <1>8


\* From a leaf the loop climbs along its path.
LEMMA ClimbsItsPath ==
    ASSUME NEW L, Len(L) \in Nat \ {0}, NEW index \in 0..(Len(L) - 1)
    PROVE  \A k \in 0..Height(L) :
               Climb(L[index + 1], index, MerkleProof(L, index))[k]
                   = Level(L)[k][Path(index, Height(L))[k] + 1]
<1> DEFINE h == Height(L)
           p == Path(index, h)
           proof == MerkleProof(L, index)
           c == Climb(L[index + 1], index, proof)
           S == {k \in 0..h : c[k] = Level(L)[k][p[k] + 1]}
<1>1. h \in Nat /\ h <= Len(L) - 1 /\ index \in Nat
  BY HeightFacts
<1>2. Len(proof) = h
  BY ProofFacts
<1> HIDE DEF h
<1>3. p[0] = index /\ (\A k \in 0..(h - 1) : p[k + 1] = p[k] \div 2) /\ \A k \in 0..h : p[k] \in Nat
  BY <1>1, PathFacts
<1>4. \A k \in 0..h : p[k] + 1 \in 1..Len(Level(L)[k])
  BY PathInTree DEF h
<1>5. c[0] = L[index + 1] /\ \A k \in 0..(h - 1) : c[k + 1] = Combine(p[k], c[k], proof[k + 1])
  <2> HIDE DEF proof
  <2> QED BY <1>1, <1>2, ClimbFacts
<1>6. \A k \in 0..(h - 1) : proof[k + 1] = SiblingNode(Level(L)[k], p[k])
  BY ProofFacts DEF h
<1> HIDE DEF p, proof, c
<1>7. 0 \in S
  <2>1. Level(L)[0] = L /\ 0 \in 0..h
    BY <1>1, LevelFacts
  <2> QED BY <2>1, <1>3, <1>5
<1>8. \A k \in 0..(h - 1) : k \in S => k + 1 \in S
  <2> SUFFICES ASSUME NEW k \in 0..(h - 1), k \in S PROVE k + 1 \in S
    OBVIOUS
  <2>1. k \in 0..Len(L) /\ k \in 0..(Len(L) - 1) /\ k \in 0..h /\ k + 1 \in 0..h
    BY <1>1
  <2>2. Len(Level(L)[k]) \in Nat \ {0} /\ Level(L)[k + 1] = LevelAbove(Level(L)[k])
    BY <2>1, LevelFacts
  <2>3. c[k + 1] = Combine(p[k], Level(L)[k][p[k] + 1], proof[k + 1])
    BY <1>5
  <2>4. p[k] \in Nat /\ p[k] + 1 \in 1..Len(Level(L)[k])
    BY <1>3, <1>4, <2>1
  <2>5. proof[k + 1] = SiblingNode(Level(L)[k], p[k])
    BY <1>6
  <2>6. c[k + 1] = LevelAbove(Level(L)[k])[p[k] \div 2 + 1]
    BY <2>2, <2>3, <2>4, <2>5, CombineUp
  <2> QED BY <2>1, <2>2, <2>6, <1>3
<1>9. \A k \in 0..h : k \in S
  <2> HIDE DEF S
  <2> QED BY <1>1, <1>7, <1>8, UpTo
<1> QED BY <1>9 DEF h, p, proof, c

\* The proof made for a leaf verifies it.
LEMMA ProofVerifies ==
    ASSUME NEW L, Len(L) \in Nat \ {0}, NEW index \in 0..(Len(L) - 1)
    PROVE  VerifyMerkleProof(L[index + 1], index, MerkleProof(L, index), MerkleRoot(L))
<1> DEFINE h == Height(L)
<1>1. h \in 0..h /\ Len(Level(L)[h]) = 1
  BY HeightFacts
<1>2. Path(index, h)[h] + 1 \in 1..1
  BY <1>1, PathInTree
<1>3. Path(index, h)[h] + 1 = 1
  BY <1>2
<1>4. Climb(L[index + 1], index, MerkleProof(L, index))[h] = Level(L)[h][1]
  BY <1>1, <1>3, ClimbsItsPath
<1> QED BY <1>4, ProofFacts DEF VerifyMerkleProof

\* One turn of the loop backwards: if another position of the level X gives the
\* same digest with the sibling of p, then it is p itself.
LEMMA CombineBinds ==
    ASSUME NEW X, Len(X) \in Nat \ {0}, AllDiffer(X),
           NEW p, p \in Nat, p + 1 \in 1..Len(X), NEW q, q \in Nat, q + 1 \in 1..Len(X),
           p \div 2 = q \div 2, NEW current,
           Combine(q, current, SiblingNode(X, p)) = Combine(p, X[p + 1], SiblingNode(X, p))
    PROVE  q = p /\ current = X[p + 1]
<1> PICK s, sibling : s = Sibling(p) + 1 /\ sibling = SiblingNode(X, p)
  OBVIOUS
<1>0. sibling = X[IF s <= Len(X) THEN s ELSE Len(X)]
  BY DEF SiblingNode
<1>1. /\ p % 2 = 1 => p = 2 * (p \div 2) + 1
      /\ p % 2 # 1 => p = 2 * (p \div 2)
      /\ p \div 2 \in Nat
  BY Halves
<1>2. /\ q % 2 = 1 => q = 2 * (p \div 2) + 1
      /\ q % 2 # 1 => q = 2 * (p \div 2)
  BY Halves
<1>3. CASE p % 2 = 1 /\ q % 2 = 1
  BY <1>1, <1>2, <1>3, DigestFree DEF Combine
<1>4. CASE p % 2 # 1 /\ q % 2 # 1
  BY <1>1, <1>2, <1>4, DigestFree DEF Combine
<1>5. CASE p % 2 = 1 /\ q % 2 # 1
  <2>1. s = p /\ p \in 1..Len(X)
    BY <1>1, <1>5 DEF Sibling
  <2>2. sibling = X[p]
    BY <2>1, <1>0
  <2>3. sibling = X[p + 1]
    BY <1>5, DigestFree DEF Combine
  <2>4. p = p + 1
    BY <2>1, <2>2, <2>3 DEF AllDiffer
  <2> QED BY <2>4
<1>6. CASE p % 2 # 1 /\ q % 2 = 1
  <2>1. q = p + 1
    BY <1>1, <1>2, <1>6
  <2>2. s = p + 2 /\ p + 2 \in 1..Len(X)
    BY <2>1, <1>6 DEF Sibling
  <2>3. sibling = X[p + 2]
    BY <2>2, <1>0
  <2>4. sibling = X[p + 1]
    BY <1>6, DigestFree DEF Combine
  <2>5. p + 1 = p + 2
    BY <2>2, <2>3, <2>4 DEF AllDiffer
  <2> QED BY <2>5
<1> QED BY <1>3, <1>4, <1>5, <1>6

LEMMA StepDown ==
    ASSUME NEW L, Len(L) \in Nat \ {0}, AllDiffer(L), NEW k \in 0..(Len(L) - 1),
           NEW p, p \in Nat, p + 1 \in 1..Len(Level(L)[k]),
           NEW q, q \in Nat, q + 1 \in 1..Len(Level(L)[k]), p \div 2 = q \div 2, NEW current,
           Combine(q, current, SiblingNode(Level(L)[k], p)) = Level(L)[k + 1][p \div 2 + 1]
    PROVE  q = p /\ current = Level(L)[k][p + 1]
<1> PICK X : X = Level(L)[k]
  OBVIOUS
<1>1. Len(X) \in Nat \ {0} /\ Level(L)[k + 1] = LevelAbove(X)
  BY LevelStep
<1>2. AllDiffer(X)
  <2>1. k \in 0..Len(L)
    OBVIOUS
  <2> QED BY <2>1, NodesDiffer
<1>3. p + 1 \in 1..Len(X) /\ q + 1 \in 1..Len(X)
  OBVIOUS
<1>4. Combine(p, X[p + 1], SiblingNode(X, p)) = LevelAbove(X)[p \div 2 + 1]
  BY <1>1, <1>3, CombineUp
<1>5. Combine(q, current, SiblingNode(X, p)) = Combine(p, X[p + 1], SiblingNode(X, p))
  BY <1>1, <1>4
<1>6. q = p /\ current = X[p + 1]
  BY <1>1, <1>2, <1>3, <1>5, CombineBinds
<1> QED BY <1>6

\* And it verifies no other leaf, and at no other index of the batch.
LEMMA ProofBinds ==
    ASSUME NEW L, Len(L) \in Nat \ {0}, AllDiffer(L),
           NEW index \in 0..(Len(L) - 1), NEW other \in 0..(Len(L) - 1), NEW leaf,
           VerifyMerkleProof(leaf, other, MerkleProof(L, index), MerkleRoot(L))
    PROVE  other = index /\ leaf = L[index + 1]
<1> DEFINE h == Height(L)
           p == Path(index, h)
           q == Path(other, h)
           proof == MerkleProof(L, index)
           d == Climb(leaf, other, proof)
           \* counted from the root
           Same(m) == q[h - m] = p[h - m] /\ d[h - m] = Level(L)[h - m][p[h - m] + 1]
           S == {m \in 0..h : Same(m)}
<1>1. h \in Nat /\ h <= Len(L) - 1 /\ index \in Nat /\ other \in Nat
  BY HeightFacts
<1>2. Len(proof) = h
  BY ProofFacts
<1>3. d[h] = Level(L)[h][1] /\ Len(Level(L)[h]) = 1
  BY <1>2, ProofFacts, HeightFacts DEF VerifyMerkleProof
<1> HIDE DEF h
<1>4. p[0] = index /\ (\A k \in 0..(h - 1) : p[k + 1] = p[k] \div 2) /\ \A k \in 0..h : p[k] \in Nat
  BY <1>1, PathFacts
<1>5. q[0] = other /\ (\A k \in 0..(h - 1) : q[k + 1] = q[k] \div 2) /\ \A k \in 0..h : q[k] \in Nat
  BY <1>1, PathFacts
<1>6. \A k \in 0..h : p[k] + 1 \in 1..Len(Level(L)[k])
  BY PathInTree DEF h
<1>7. \A k \in 0..h : q[k] + 1 \in 1..Len(Level(L)[k])
  BY PathInTree DEF h
<1>8. d[0] = leaf /\ \A k \in 0..(h - 1) : d[k + 1] = Combine(q[k], d[k], proof[k + 1])
  <2> HIDE DEF proof
  <2>1. Len(proof) \in Nat
    BY <1>1, <1>2
  <2>2. /\ d[0] = leaf
        /\ \A k \in 0..(Len(proof) - 1) : d[k + 1] = Combine(Path(other, Len(proof))[k], d[k], proof[k + 1])
    BY <2>1, ClimbFacts
  <2> QED BY <2>2, <1>2
<1>9. \A k \in 0..(h - 1) : proof[k + 1] = SiblingNode(Level(L)[k], p[k])
  BY ProofFacts DEF h
<1> HIDE DEF p, q, proof, d
<1>10. 0 \in S
  <2>1. h - 0 = h /\ h \in 0..h
    BY <1>1
  <2>2. p[h] = 0 /\ q[h] = 0
    <3>1. p[h] + 1 \in 1..1 /\ q[h] + 1 \in 1..1 /\ p[h] \in Nat /\ q[h] \in Nat
      BY <2>1, <1>3, <1>4, <1>5, <1>6, <1>7
    <3> QED BY <3>1
  <2> QED BY <2>1, <2>2, <1>1, <1>3
<1>11. \A m \in 0..(h - 1) : m \in S => m + 1 \in S
  <2> SUFFICES ASSUME NEW m \in 0..(h - 1), Same(m) PROVE Same(m + 1)
    BY <1>1
  <2> PICK k : k = h - (m + 1)
    OBVIOUS
  <2>1. /\ k \in 0..(h - 1) /\ k \in 0..h /\ k + 1 \in 0..h /\ k + 1 = h - m
        /\ k \in 0..Len(L) /\ k \in 0..(Len(L) - 1)
    BY <1>1
  <2>2. q[k + 1] = p[k + 1] /\ d[k + 1] = Level(L)[k + 1][p[k + 1] + 1]
    BY <2>1
  <2> HIDE DEF S, Same
  <2> PICK at, by, node : at = p[k] /\ by = q[k] /\ node = d[k]
    OBVIOUS
  <2>3. /\ at \in Nat /\ at + 1 \in 1..Len(Level(L)[k])
        /\ by \in Nat /\ by + 1 \in 1..Len(Level(L)[k])
    BY <2>1, <1>4, <1>5, <1>6, <1>7
  <2>4. p[k + 1] = at \div 2 /\ at \div 2 = by \div 2
    BY <2>1, <2>2, <1>4, <1>5
  <2>5. Combine(by, node, SiblingNode(Level(L)[k], at)) = Level(L)[k + 1][at \div 2 + 1]
    BY <1>8, <1>9, <2>1, <2>2, <2>4
  <2>6. by = at /\ node = Level(L)[k][at + 1]
    BY <2>1, <2>3, <2>4, <2>5, StepDown
  <2>7. q[k] = p[k] /\ d[k] = Level(L)[k][p[k] + 1]
    BY <2>6
  <2> QED BY <2>7 DEF Same
<1>12. h \in S
  <2>1. h \in 0..h
    BY <1>1
  <2> HIDE DEF S
  <2> QED BY <2>1, <1>1, <1>10, <1>11, UpTo
<1>13. h - h = 0 /\ Level(L)[0] = L
  BY <1>1, LevelFacts
<1> QED BY <1>12, <1>13, <1>4, <1>5, <1>8

-----------------------------------------------------------------------------
(* Merkle: the theorem.                                                    *)

LEMMA HashesListed ==
    ASSUME leaves \in Nat \ {0}
    PROVE  /\ Len(EventHashes) = leaves
           /\ \A i \in 1..leaves : EventHashes[i] = Leaf(i)
           /\ \A i, j : Leaf(i) = Leaf(j) => i = j
<1>1. EventHashes = [i \in 1..leaves |-> Leaf(i)]
  BY DEF EventHashes
<1>2. \A i, j : Leaf(i) = Leaf(j) => i = j
  <2> TAKE i, j
  <2>1. Leaf(i).event = i /\ Leaf(j).event = j
    BY DEF Leaf
  <2> QED BY <2>1
<1> DEFINE f == EventHashes
<1>3. f \in [1..leaves -> {f[i] : i \in 1..leaves}]
  BY <1>1
<1> HIDE DEF f
<1>4. f \in Seq({f[i] : i \in 1..leaves})
  BY <1>3
<1>5. Len(f) = leaves
  BY <1>3, <1>4
<1> QED BY <1>1, <1>2, <1>5 DEF f

\* For any number of leaves, the proof of a leaf verifies that leaf at its index,
\* and no other leaf and at no other index (merkle_proof, verify_merkle_proof).
THEOREM ProofsExact == MerkleSpec => []ProofsVerifyExactly
<1> DEFINE LeavesOK == leaves \in Nat \ {0}
<1>1. MerkleInit => LeavesOK
  BY DEF MerkleInit
<1>2. LeavesOK /\ [AddLeaf]_leaves => LeavesOK'
  BY DEF AddLeaf
<1>3. LeavesOK => ProofsVerifyExactly
  <2> SUFFICES ASSUME leaves \in Nat \ {0}, NEW k \in 1..leaves, NEW i \in 1..leaves, NEW j \in 1..leaves
               PROVE  VerifyMerkleProof(Leaf(i), j - 1, MerkleProof(EventHashes, k - 1),
                                        MerkleRoot(EventHashes)) <=> i = k /\ j = k
    BY DEF ProofsVerifyExactly
  <2> PICK L : L = EventHashes
    OBVIOUS
  <2>1. /\ Len(L) = leaves /\ L[i] = Leaf(i) /\ L[k] = Leaf(k)
        /\ AllDiffer(L)
    BY HashesListed DEF AllDiffer
  <2>2. k - 1 \in 0..(Len(L) - 1) /\ j - 1 \in 0..(Len(L) - 1) /\ (k - 1) + 1 = k
    BY <2>1
  <2>3. ASSUME i = k, j = k
        PROVE  VerifyMerkleProof(Leaf(i), j - 1, MerkleProof(L, k - 1), MerkleRoot(L))
    <3>1. VerifyMerkleProof(L[(k - 1) + 1], k - 1, MerkleProof(L, k - 1), MerkleRoot(L))
      BY <2>1, <2>2, ProofVerifies
    <3> QED BY <3>1, <2>1, <2>2, <2>3
  <2>4. ASSUME VerifyMerkleProof(Leaf(i), j - 1, MerkleProof(L, k - 1), MerkleRoot(L))
        PROVE  i = k /\ j = k
    <3>1. j - 1 = k - 1 /\ Leaf(i) = L[(k - 1) + 1]
      BY <2>1, <2>2, <2>4, ProofBinds
    <3>2. Leaf(i) = Leaf(k)
      BY <3>1, <2>1, <2>2
    <3> QED BY <3>1, <3>2, HashesListed
  <2> QED BY <2>3, <2>4
<1> HIDE DEF LeavesOK
<1> QED BY <1>1, <1>2, <1>3, PTL DEF MerkleSpec

-----------------------------------------------------------------------------
(* Events in order.                                                        *)

LEMMA RankBounds ==
    ASSUME NEW S \in SUBSET Nat, IsFiniteSet(S), NEW x \in S
    PROVE  AsOldAs(S, x) \in 1..Cardinality(S)
<1> DEFINE U == {y \in S : y <= x}
<1>1. IsFiniteSet(U) /\ Cardinality(U) <= Cardinality(S)
  BY FS_Subset
<1>2. Cardinality(U) \in Nat /\ Cardinality(S) \in Nat
  BY <1>1, FS_CardinalityType
<1>3. x \in U
  OBVIOUS
<1>4. Cardinality(U) # 0
  BY <1>1, <1>3, FS_EmptySet
<1> QED BY <1>1, <1>2, <1>4 DEF AsOldAs

LEMMA RankGrows ==
    ASSUME NEW S \in SUBSET Nat, IsFiniteSet(S), NEW x \in S, NEW z \in S, x < z
    PROVE  AsOldAs(S, x) < AsOldAs(S, z)
<1> DEFINE U == {y \in S : y <= x}
           V == {y \in S : y <= z}
<1>1. IsFiniteSet(V) /\ IsFiniteSet(U)
  BY FS_Subset
<1>2. U \in SUBSET V /\ z \in V /\ z \notin U
  <2>1. x \in Nat /\ z \in Nat /\ \A y \in S : y \in Nat
    OBVIOUS
  <2>2. \A y \in S : y <= x => y <= z
    BY <2>1
  <2>3. ~(z <= x) /\ z <= z
    BY <2>1
  <2> QED BY <2>2, <2>3
<1>3. Cardinality(U) <= Cardinality(V) /\ Cardinality(U) # Cardinality(V)
  <2> HIDE DEF U, V
  <2> QED BY <1>1, <1>2, FS_Subset
<1>4. Cardinality(U) \in Nat /\ Cardinality(V) \in Nat
  BY <1>1, FS_CardinalityType
<1> QED BY <1>3, <1>4 DEF AsOldAs

LEMMA RankHits ==
    ASSUME NEW S \in SUBSET Nat, IsFiniteSet(S), NEW n \in 1..Cardinality(S)
    PROVE  \E x \in S : AsOldAs(S, x) = n
<1> DEFINE N == Cardinality(S)
           f == [x \in S |-> AsOldAs(S, x)]
<1>0. N \in Nat
  BY FS_CardinalityType
<1>1. f \in [S -> 1..N]
  BY RankBounds
<1>2. \A x, z \in S : f[x] = f[z] => x = z
  <2> SUFFICES ASSUME NEW x \in S, NEW z \in S, x # z PROVE f[x] # f[z]
    OBVIOUS
  <2>1. x \in Nat /\ z \in Nat /\ f[x] = AsOldAs(S, x) /\ f[z] = AsOldAs(S, z)
    OBVIOUS
  <2>2. AsOldAs(S, x) \in Nat /\ AsOldAs(S, z) \in Nat
    BY <1>0, RankBounds
  <2>3. CASE x < z
    BY <2>1, <2>2, <2>3, RankGrows
  <2>4. CASE z < x
    BY <2>1, <2>2, <2>4, RankGrows
  <2> QED BY <2>1, <2>3, <2>4
<1>3. f \in Injection(S, 1..N)
  BY <1>1, <1>2 DEF Injection, IsInjective
<1>4. IsFiniteSet(1..N) /\ Cardinality(1..N) = N
  <2>1. IsFiniteSet(1..N) /\ Cardinality(1..N) = IF 1 > N THEN 0 ELSE N
    BY <1>0, FS_Interval
  <2> QED BY <1>0, <2>1
<1>5. f \in Surjection(S, 1..N)
  <2> HIDE DEF f
  <2> QED BY <1>3, <1>4, FS_Injection
<1> QED BY <1>5 DEF Surjection

\* What a job lists are the events themselves.
LEMMA OldestFirstLists ==
    ASSUME NEW S \in SUBSET Nat, IsFiniteSet(S), S # {}
    PROVE  OldestFirst(S) \in Seq(S) /\ Len(OldestFirst(S)) \in Nat \ {0}
<1>1. Cardinality(S) \in Nat \ {0}
  BY FS_CardinalityType, FS_EmptySet
<1>2. \A n \in 1..Cardinality(S) : (CHOOSE x \in S : AsOldAs(S, x) = n) \in S
  BY RankHits
<1>3. OldestFirst(S) \in [1..Cardinality(S) -> S]
  BY <1>2 DEF OldestFirst
<1> QED BY <1>1, <1>3

-----------------------------------------------------------------------------
(* Batches: the invariant.                                                 *)

\* A list of events to seal.
EventLists == {s \in Seq(Event) : s # <<>>}

Roots == {MerkleRoot(Hashes(s)) : s \in EventLists}

\* A batch has the root of the events it lists.
BatchRow ==
    {r \in [ids : EventLists, root : Roots, anchored : BOOLEAN] : r.root = MerkleRoot(Hashes(r.ids))}

CronJob ==
    [at : {"idle", "assign", "sealed", "list", "stamp", "insert", "swept"},
     events : Seq(Event), todo : Seq(Nat), stamped : SUBSET Nat]

\* A job at work on a list has one.
Listed(r) ==
    /\ r.at \in {"assign", "sealed"} => r.events # <<>>
    /\ r.at \in {"stamp", "insert"} => r.todo # <<>>

BatchTypeOK ==
    /\ logged \subseteq Event
    /\ batchOf \in [Event -> Nat]
    /\ batches \in Seq(BatchRow)
    /\ export.trace \subseteq logged /\ export.sealed \subseteq export.trace

CronOK == cron \in [Jobs -> CronJob] /\ \A j \in Jobs : Listed(cron[j])

\* An event that has a batch is listed in it.
Contained(e) ==
    batchOf[e] # 0 => batchOf[e] \in 1..Len(batches) /\ e \in Range(batches[batchOf[e]].ids)

\* What was sealed when the export read it still is.
StillSealed == \A e \in export.sealed : batchOf[e] # 0

BatchInv ==
    /\ BatchTypeOK /\ CronOK /\ StillSealed
    /\ \A e \in Event : Contained(e)

-----------------------------------------------------------------------------
LEMMA BatchRowFields ==
    ASSUME NEW r \in BatchRow
    PROVE  /\ r.ids \in EventLists /\ r.root = MerkleRoot(Hashes(r.ids))
           /\ [r EXCEPT !.anchored = TRUE] \in BatchRow
           /\ [r EXCEPT !.anchored = TRUE].ids = r.ids
BY DEF BatchRow

LEMMA NewBatchRow ==
    ASSUME NEW s \in EventLists
    PROVE  /\ [ids |-> s, root |-> MerkleRoot(Hashes(s)), anchored |-> FALSE] \in BatchRow
           /\ [ids |-> s, root |-> MerkleRoot(Hashes(s)), anchored |-> FALSE].ids = s
<1> PICK top : top = MerkleRoot(Hashes(s))
  OBVIOUS
<1> DEFINE r == [ids |-> s, root |-> top, anchored |-> FALSE]
<1>1. r \in [ids : EventLists, root : Roots, anchored : BOOLEAN]
  BY DEF Roots
<1>2. r.root = top /\ r.ids = s
  OBVIOUS
<1> QED BY <1>1, <1>2 DEF BatchRow

LEMMA RestingJobs ==
    /\ NoRun \in CronJob /\ Listed(NoRun)
    /\ \A j : AfterSeal(j) \in CronJob /\ Listed(AfterSeal(j))
<1>1. NoRun \in CronJob /\ Listed(NoRun)
  BY DEF NoRun, CronJob, Listed
<1>2. [NoRun EXCEPT !.at = "list"] \in CronJob /\ Listed([NoRun EXCEPT !.at = "list"])
  BY <1>1 DEF CronJob, Listed
<1> QED BY <1>1, <1>2 DEF AfterSeal

LEMMA CronChanges ==
    ASSUME CronOK, NEW j \in Jobs, NEW r \in CronJob, Listed(r),
           cron' = [cron EXCEPT ![j] = r]
    PROVE  CronOK'
<1>1. cron' \in [Jobs -> CronJob]
  BY DEF CronOK
<1>2. \A k \in Jobs : cron'[k] = IF k = j THEN r ELSE cron[k]
  BY DEF CronOK
<1>3. \A k \in Jobs : Listed(cron'[k])
  BY <1>2 DEF CronOK
<1> QED BY <1>1, <1>3 DEF CronOK

LEMMA BatchInitInv == BatchInit => BatchInv
<1> SUFFICES ASSUME BatchInit PROVE BatchInv
  OBVIOUS
<1>1. NoExport.trace = {} /\ NoExport.sealed = {}
  BY DEF NoExport
<1>2. BatchTypeOK /\ StillSealed
  BY <1>1 DEF BatchInit, BatchTypeOK, StillSealed
<1>3. CronOK
  BY RestingJobs DEF BatchInit, CronOK
<1>4. \A e \in Event : Contained(e)
  BY DEF BatchInit, Contained
<1> QED BY <1>2, <1>3, <1>4 DEF BatchInv

LEMMA UnbatchedListed ==
    ASSUME BatchInv, Unbatched # {}
    PROVE  OldestFirst(Unbatched) \in EventLists
<1>1. Unbatched \subseteq Event
  BY DEF BatchInv, BatchTypeOK, Unbatched
<1>2. Event \subseteq Nat /\ IsFiniteSet(Event)
  BY BatchingAssumption, FS_Interval DEF Event
<1>3. Unbatched \in SUBSET Nat /\ IsFiniteSet(Unbatched)
  BY <1>1, <1>2, FS_Subset
<1>4. OldestFirst(Unbatched) \in Seq(Unbatched) /\ Len(OldestFirst(Unbatched)) # 0
  BY <1>3, OldestFirstLists
<1>5. OldestFirst(Unbatched) \in Seq(Event)
  BY <1>1, <1>4
<1> QED BY <1>4, <1>5 DEF EventLists

LEMMA UnanchoredListed ==
    ASSUME BatchInv, Unanchored # {}
    PROVE  OldestFirst(Unanchored) \in Seq(Nat) /\ OldestFirst(Unanchored) # <<>>
<1>1. Len(batches) \in Nat
  BY DEF BatchInv, BatchTypeOK
<1>2. Unanchored \in SUBSET (1..Len(batches))
  BY DEF Unanchored
<1>3. IsFiniteSet(1..Len(batches)) /\ 1..Len(batches) \subseteq Nat
  BY <1>1, FS_Interval
<1>4. Unanchored \in SUBSET Nat /\ IsFiniteSet(Unanchored)
  BY <1>2, <1>3, FS_Subset
<1>5. OldestFirst(Unanchored) \in Seq(Unanchored) /\ Len(OldestFirst(Unanchored)) # 0
  BY <1>4, OldestFirstLists
<1> PICK s : s = OldestFirst(Unanchored)
  OBVIOUS
<1>6. s \in Seq(Unanchored) /\ Len(s) # 0
  BY <1>5
<1>7. s \in Seq(Nat) /\ s # <<>>
  <2>1. \A x \in Unanchored : x \in Nat
    BY <1>4
  <2>2. s \in Seq(Nat)
    BY <1>6, <2>1
  <2>3. s # <<>>
    <3>1. Len(<<>>) = 0
      OBVIOUS
    <3> QED BY <3>1, <1>6
  <2> QED BY <2>2, <2>3
<1> QED BY <1>7

\* Steps of a job that leave the events and the batches alone.
LEMMA JobMoves ==
    ASSUME BatchInv, NEW j \in Jobs,
           Gather(j) \/ Assign(j) \/ ListUnanchored(j) \/ Stamp(j) \/ InsertAnchor(j) \/ CronFails(j)
    PROVE  BatchInv'
<1> DEFINE c == cron[j]
<1>1. /\ CronOK /\ c \in CronJob /\ Listed(c)
      /\ cron \in [Jobs -> CronJob]
  BY DEF BatchInv, CronOK
<1>2. UNCHANGED <<logged, batchOf, batches, export>>
  BY DEF Gather, Assign, ListUnanchored, Stamp, InsertAnchor, CronFails
<1>3. \E r \in CronJob : Listed(r) /\ cron' = [cron EXCEPT ![j] = r]
  <2> DEFINE Moved(s) == [c EXCEPT !.at = s]
  <2>1. CASE Exit(j)
    BY <2>1, RestingJobs DEF Exit
  <2>2. CASE Gather(j)
    <3>1. CASE cron' = [cron EXCEPT ![j] = AfterSeal(j)]
      BY <3>1, RestingJobs
    <3>2. CASE /\ Unbatched # {}
               /\ cron' = [cron EXCEPT ![j].at = "assign", ![j].events = OldestFirst(Unbatched)]
      <4> PICK s : s = OldestFirst(Unbatched)
        OBVIOUS
      <4> DEFINE r == [c EXCEPT !.at = "assign", !.events = s]
      <4>1. s \in Seq(Event) /\ s # <<>>
        BY <3>2, UnbatchedListed DEF EventLists
      <4>2. r \in CronJob /\ r.at = "assign" /\ r.events = s
        BY <1>1, <4>1 DEF CronJob
      <4>3. cron' = [cron EXCEPT ![j] = r]
        BY <3>2
      <4> QED BY <4>1, <4>2, <4>3 DEF Listed
    <3> QED BY <2>2, <3>1, <3>2 DEF Gather
  <2>3. CASE Assign(j)
    <3>1. c.at = "assign" /\ cron' = [cron EXCEPT ![j] = Moved("sealed")]
      BY <2>3, <1>1 DEF Assign, CronGoto
    <3>2. Moved("sealed") \in CronJob /\ Listed(Moved("sealed"))
      BY <3>1, <1>1 DEF CronJob, Listed
    <3> QED BY <3>1, <3>2
  <2>4. CASE ListUnanchored(j) /\ ~Exit(j)
    <3> PICK s : s = OldestFirst(Unanchored)
      OBVIOUS
    <3> DEFINE r == [c EXCEPT !.at = "stamp", !.todo = s]
    <3>1. Unanchored # {} /\ cron' = [cron EXCEPT ![j] = r]
      BY <2>4 DEF ListUnanchored
    <3>2. s \in Seq(Nat) /\ s # <<>>
      BY <3>1, UnanchoredListed
    <3>3. r \in CronJob /\ r.at = "stamp" /\ r.todo = s
      BY <1>1, <3>2 DEF CronJob
    <3> QED BY <3>1, <3>2, <3>3 DEF Listed
  <2>5. CASE Stamp(j) /\ ~Exit(j)
    <3>1. c.at = "stamp" /\ cron' = [cron EXCEPT ![j] = Moved("insert")]
      BY <2>5, <1>1 DEF Stamp, CronGoto
    <3>2. Moved("insert") \in CronJob /\ Listed(Moved("insert"))
      BY <3>1, <1>1 DEF CronJob, Listed
    <3> QED BY <3>1, <3>2
  <2>6. CASE InsertAnchor(j) /\ ~Exit(j)
    <3> PICK s, b, T : /\ s = IF Len(c.todo) = 1 THEN "swept" ELSE "stamp"
                       /\ b = Head(c.todo) /\ T = Tail(c.todo)
      OBVIOUS
    <3> DEFINE r == [c EXCEPT !.at = s, !.todo = T, !.stamped = @ \cup {b}]
    <3>1. c.at = "insert" /\ cron' = [cron EXCEPT ![j] = r]
      BY <2>6, <1>1 DEF InsertAnchor
    <3>2. c.todo \in Seq(Nat) /\ c.todo # <<>> /\ c.stamped \in SUBSET Nat
      BY <3>1, <1>1 DEF CronJob, Listed
    <3>3. b \in Nat /\ T \in Seq(Nat) /\ (Len(c.todo) # 1 => T # <<>>)
      <4> PICK q : q = c.todo
        OBVIOUS
      <4>1. q \in Seq(Nat) /\ q # <<>> /\ Len(q) \in Nat \ {0}
        BY <3>2
      <4>2. Head(q) \in Nat /\ Tail(q) \in Seq(Nat) /\ Len(Tail(q)) = Len(q) - 1
        BY <4>1
      <4>3. Len(q) # 1 => Len(Tail(q)) # 0
        BY <4>1, <4>2
      <4>4. Len(<<>>) = 0
        OBVIOUS
      <4> QED BY <4>2, <4>3, <4>4
    <3>4. s \in {"swept", "stamp"} /\ (s = "stamp" => T # <<>>)
      BY <3>3
    <3>5. r \in CronJob /\ r.at = s /\ r.todo = T
      BY <1>1, <3>2, <3>3, <3>4 DEF CronJob
    <3> QED BY <3>1, <3>4, <3>5 DEF Listed
  <2>7. CASE CronFails(j)
    BY <2>1, <2>7 DEF CronFails
  <2> QED BY <2>1, <2>2, <2>3, <2>4, <2>5, <2>6, <2>7
<1>4. CronOK'
  BY <1>1, <1>3, CronChanges
<1>5. BatchTypeOK' /\ StillSealed' /\ \A e \in Event : Contained(e)'
  BY <1>2 DEF BatchInv, BatchTypeOK, StillSealed, Contained
<1> QED BY <1>4, <1>5 DEF BatchInv

LEMMA CommitSealInv ==
    ASSUME BatchInv, NEW j \in Jobs, CommitSeal(j)
    PROVE  BatchInv'
<1> PICK ids, row, n : /\ ids = cron[j].events /\ n = Len(batches) + 1
                       /\ row = [ids |-> ids, root |-> MerkleRoot(Hashes(ids)), anchored |-> FALSE]
  OBVIOUS
<1>1. /\ batches' = Append(batches, row)
      /\ batchOf' = [e \in Event |-> IF e \in Range(ids) THEN n ELSE batchOf[e]]
      /\ cron' = [cron EXCEPT ![j] = AfterSeal(j)]
      /\ UNCHANGED <<logged, export>>
  BY DEF CommitSeal, Assigned
<1>2. ids \in EventLists
  BY DEF CommitSeal, BatchInv, CronOK, CronJob, Listed, EventLists
<1>3. row \in BatchRow /\ row.ids = ids
  BY <1>2, NewBatchRow
<1>4. n \in Nat \ {0} /\ Len(batches) \in Nat /\ batches \in Seq(BatchRow)
  BY DEF BatchInv, BatchTypeOK
<1>5. /\ batches' \in Seq(BatchRow) /\ Len(batches') = n /\ batches'[n] = row
      /\ \A b \in 1..Len(batches) : batches'[b] = batches[b]
  BY <1>1, <1>3, <1>4
<1>6. CronOK'
  BY <1>1, RestingJobs, CronChanges DEF BatchInv
<1>7. BatchTypeOK' /\ StillSealed'
  <2>1. batchOf' \in [Event -> Nat]
    BY <1>1, <1>4 DEF BatchInv, BatchTypeOK
  <2>2. StillSealed'
    BY <1>1, <1>4 DEF BatchInv, BatchTypeOK, StillSealed
  <2> QED BY <1>1, <1>5, <2>1, <2>2 DEF BatchInv, BatchTypeOK
<1>8. ASSUME NEW e \in Event PROVE Contained(e)'
  <2>1. CASE e \in Range(ids)
    <3>1. batchOf'[e] = n /\ n \in 1..Len(batches')
      BY <1>1, <1>4, <1>5, <2>1
    <3> QED BY <3>1, <2>1, <1>3, <1>5 DEF Contained
  <2>2. CASE e \notin Range(ids)
    <3>1. batchOf'[e] = batchOf[e] /\ Contained(e)
      BY <1>1, <2>2 DEF BatchInv
    <3>2. 1..Len(batches) \subseteq 1..Len(batches')
      BY <1>4, <1>5
    <3> QED BY <3>1, <3>2, <1>5 DEF Contained
  <2> QED BY <2>1, <2>2
<1> QED BY <1>6, <1>7, <1>8 DEF BatchInv

LEMMA CommitSweepInv ==
    ASSUME BatchInv, NEW j \in Jobs, CommitSweep(j)
    PROVE  BatchInv'
<1>1. /\ batches' = [b \in 1..Len(batches) |->
                        IF b \in cron[j].stamped THEN [batches[b] EXCEPT !.anchored = TRUE] ELSE batches[b]]
      /\ cron' = [cron EXCEPT ![j] = NoRun]
      /\ UNCHANGED <<logged, batchOf, export>>
  BY DEF CommitSweep, Exit
<1>2. Len(batches) \in Nat /\ \A b \in 1..Len(batches) : batches[b] \in BatchRow
  BY DEF BatchInv, BatchTypeOK
<1>3. \A b \in 1..Len(batches) : batches'[b] \in BatchRow /\ batches'[b].ids = batches[b].ids
  <2> TAKE b \in 1..Len(batches)
  <2>1. batches[b] \in BatchRow
    BY <1>2
  <2>2. batches'[b] = batches[b] \/ batches'[b] = [batches[b] EXCEPT !.anchored = TRUE]
    BY <1>1
  <2> QED BY <2>1, <2>2, BatchRowFields
<1>4. batches' \in Seq(BatchRow) /\ Len(batches') = Len(batches)
  <2>1. batches' \in [1..Len(batches) -> BatchRow]
    BY <1>1, <1>3
  <2> QED BY <2>1, <1>2
<1>5. CronOK'
  BY <1>1, RestingJobs, CronChanges DEF BatchInv
<1>6. BatchTypeOK' /\ StillSealed'
  BY <1>1, <1>4 DEF BatchInv, BatchTypeOK, StillSealed
<1>7. \A e \in Event : Contained(e)'
  BY <1>1, <1>3, <1>4 DEF BatchInv, Contained
<1> QED BY <1>5, <1>6, <1>7 DEF BatchInv

\* An event is committed, or a bundle begun or finished.
LEMMA EventAndExportInv ==
    ASSUME BatchInv, (\E e \in Event : LogEvent(e)) \/ ExportEvents \/ ExportBatches
    PROVE  BatchInv'
<1>1. UNCHANGED <<batchOf, batches, cron>>
  BY DEF LogEvent, ExportEvents, ExportBatches
<1>2. CronOK' /\ \A e \in Event : Contained(e)'
  BY <1>1 DEF BatchInv, CronOK, Contained
<1>3. BatchTypeOK' /\ StillSealed'
  <2>1. CASE \E e \in Event : LogEvent(e)
    BY <2>1, <1>1 DEF LogEvent, BatchInv, BatchTypeOK, StillSealed
  <2>2. CASE ExportEvents
    <3>1. /\ logged' = logged /\ export'.trace = logged \cap Exported
          /\ export'.sealed = {e \in logged \cap Exported : batchOf[e] # 0}
      BY <2>2 DEF ExportEvents
    <3> QED BY <3>1, <1>1 DEF BatchInv, BatchTypeOK, StillSealed
  <2>3. CASE ExportBatches
    <3>1. logged' = logged /\ export'.trace = {} /\ export'.sealed = {}
      BY <2>3 DEF ExportBatches, NoExport
    <3> QED BY <3>1, <1>1 DEF BatchInv, BatchTypeOK, StillSealed
  <2> QED BY <2>1, <2>2, <2>3
<1> QED BY <1>2, <1>3 DEF BatchInv

LEMMA BatchAlways == BatchSpec => []BatchInv
<1>1. BatchInv /\ BatchNext => BatchInv'
  BY JobMoves, CommitSealInv, CommitSweepInv, EventAndExportInv DEF BatchNext, JobStep
<1>2. BatchInv /\ UNCHANGED batchVars => BatchInv'
  BY DEF batchVars, BatchInv, BatchTypeOK, CronOK, StillSealed, Contained
<1> QED BY <1>1, <1>2, BatchInitInv, PTL DEF BatchSpec

-----------------------------------------------------------------------------
(* Batches: the theorem.                                                   *)

LEMMA FromZero ==
    ASSUME NEW n, n \in Nat \ {0}, NEW k \in 1..n
    PROVE  k - 1 \in 0..(n - 1) /\ (k - 1) + 1 = k
OBVIOUS

\* The proof exported for an event a batch lists verifies against its root.
LEMMA ListedProven ==
    ASSUME BatchInv, NEW b \in 1..Len(batches), NEW e \in Range(batches[b].ids)
    PROVE  Proven(e, b)
<1> PICK ids, L : ids = batches[b].ids /\ L = Hashes(ids)
  OBVIOUS
<1>1. ids \in Seq(Event) /\ ids # <<>> /\ batches[b].root = MerkleRoot(L)
  <2>1. batches[b] \in BatchRow
    BY DEF BatchInv, BatchTypeOK
  <2> QED BY <2>1, BatchRowFields DEF EventLists
<1>2. Len(ids) \in Nat \ {0}
  BY <1>1
<1>3. Len(L) = Len(ids) /\ \A i \in 1..Len(ids) : L[i] = Leaf(ids[i])
  <2>1. L = [i \in 1..Len(ids) |-> Leaf(ids[i])]
    BY DEF Hashes
  <2>2. L \in [1..Len(ids) -> {L[i] : i \in 1..Len(ids)}]
    BY <2>1
  <2>3. L \in Seq({L[i] : i \in 1..Len(ids)})
    BY <2>2, <1>2
  <2>4. Len(L) = Len(ids)
    BY <2>2, <2>3
  <2> QED BY <2>1, <2>4
<1> PICK at : at = CHOOSE i \in 1..Len(ids) : ids[i] = e
  OBVIOUS
<1>4. at \in 1..Len(ids) /\ ids[at] = e
  <2>1. \E i \in 1..Len(ids) : ids[i] = e
    BY <1>1 DEF Range
  <2> QED BY <2>1
<1>5. at - 1 \in 0..(Len(L) - 1) /\ (at - 1) + 1 = at /\ L[at] = Leaf(e)
  <2> PICK n : n = Len(ids)
    OBVIOUS
  <2>1. n \in Nat \ {0} /\ at \in 1..n /\ Len(L) = n
    <3>1. Len(L) = Len(ids)
      BY <1>3
    <3> QED BY <3>1, <1>2, <1>4
  <2>2. at - 1 \in 0..(n - 1) /\ (at - 1) + 1 = at
    BY <2>1, FromZero
  <2>3. L[at] = Leaf(ids[at])
    BY <1>3, <1>4
  <2> QED BY <2>1, <2>2, <2>3, <1>4
<1>6. VerifyMerkleProof(Leaf(e), at - 1, MerkleProof(L, at - 1), MerkleRoot(L))
  BY <1>2, <1>3, <1>5, ProofVerifies
<1>7. ExportedProof(e, b).index = at - 1 /\ ExportedProof(e, b).proof = MerkleProof(L, at - 1)
  BY DEF ExportedProof
<1> QED BY <1>1, <1>6, <1>7 DEF Proven

\* For any number of events and of jobs of any kind: whatever two sealers and
\* an export do in whatever order, the bundle has a proof that verifies for
\* every event it shows as sealed (seal_batch, build_evidence_bundle).
THEOREM BundleProven == BatchSpec => SealedEventsProven
<1>1. ASSUME BatchInv
      PROVE  /\ \A e \in export.sealed : \E b \in ExportedBatches : Proven(e, b)
             /\ \A b \in ExportedBatches : \A e \in Range(batches[b].ids) \cap export.trace :
                   Proven(e, b)
  <2>1. export.sealed \subseteq export.trace /\ export.trace \subseteq Event
    BY <1>1 DEF BatchInv, BatchTypeOK
  <2>2. \A e \in export.trace : batchOf[e] # 0 =>
           batchOf[e] \in 1..Len(batches) /\ e \in Range(batches[batchOf[e]].ids)
    BY <1>1, <2>1 DEF BatchInv, Contained
  <2>3. ExportedBatches \subseteq 1..Len(batches)
    BY <2>2 DEF ExportedBatches
  <2>4. \A e \in export.sealed : batchOf[e] \in ExportedBatches /\ e \in Range(batches[batchOf[e]].ids)
    BY <1>1, <2>1, <2>2 DEF BatchInv, StillSealed, ExportedBatches
  <2> QED BY <1>1, <2>3, <2>4, ListedProven
<1>2. BatchInv =>
        (export # NoExport /\ export' = NoExport =>
        /\ \A e \in export.sealed : \E b \in ExportedBatches : Proven(e, b)
        /\ \A b \in ExportedBatches : \A e \in Range(batches[b].ids) \cap export.trace :
              Proven(e, b))
  BY <1>1
<1> QED BY <1>2, BatchAlways, PTL DEF SealedEventsProven
=============================================================================
