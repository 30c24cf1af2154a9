-------------------------- MODULE MerkleTreeProofs --------------------------
(***************************************************************************)
(* Theorems about MerkleTree, for any leaves and any number of them.  An   *)
(* induction over the levels is an argument about the least level that     *)
(* has not what is claimed.                                                *)
(***************************************************************************)
EXTENDS MerkleTree, FiniteSetTheorems, WellFoundedInduction, TLAPS

\* Every set of natural numbers has a least one: finite sets of numbers, ordered
\* by inclusion, are well-founded.
LEMMA LeastNumber ==
  ASSUME NEW T \in SUBSET Nat, T # {}
  PROVE  \E n \in T : \A m \in T : n <= m
<1>. DEFINE R == StrictSubsetOrdering(Nat)
            S == FiniteSubsetsOf(Nat)
            U == {1..n : n \in T}
<1>1. IsWellFoundedOn(R, S)
  BY FS_StrictSubsetOrderingWellFounded
<1>2. U \subseteq S /\ U # {}
  <2>1. ASSUME NEW n \in T PROVE 1..n \in S
    <3>1. IsFiniteSet(1..n)
      BY FS_Interval
    <3>2. 1..n \in SUBSET Nat
      OBVIOUS
    <3>. QED
      BY <3>1, <3>2 DEF FiniteSubsetsOf
  <2>. QED
    BY <2>1
<1>3. \E x \in U : \A y \in U : <<y, x>> \notin R
  <2>. HIDE DEF R, S, U
  <2>. QED
    BY <1>1, <1>2, WFMin
<1>4. PICK n \in T : \A m \in T : <<1..m, 1..n>> \notin R
  BY <1>3
<1>5. ASSUME NEW m \in T, m < n PROVE FALSE
  <2>1. 1..m \subseteq 1..n /\ n \in 1..n /\ n \notin 1..m
    BY <1>5
  <2>2. <<1..m, 1..n>> \in R
    BY <2>1 DEF StrictSubsetOrdering
  <2>. QED
    BY <2>2, <1>4
<1>. QED
  BY <1>4, <1>5

-----------------------------------------------------------------------------
(* The levels of the loop.                                                 *)

IsList(q) == Len(q) \in Nat /\ q = [i \in 1..Len(q) |-> q[i]]

\* f[k] is the level after k rounds of the loop over the leaves q.
IsLevels(f, q) ==
  f = [k \in 0..Len(q) |->
         IF k = 0 THEN q ELSE IF Len(f[k - 1]) > 1 THEN NextLevel(f[k - 1]) ELSE f[k - 1]]

LEMMA LevelsExist ==
  ASSUME NEW q, IsList(q)
  PROVE  \E f : IsLevels(f, q)
<1>. DEFINE rec(f, m) ==
              f = [k \in 0..m |-> IF k = 0 THEN q
                                  ELSE IF Len(f[k - 1]) > 1 THEN NextLevel(f[k - 1])
                                  ELSE f[k - 1]]
            T == {m \in 0..Len(q) : \A f : ~rec(f, m)}
<1>0. Len(q) \in Nat
  BY DEF IsList
<1>1. SUFFICES T = {}
  <2>1. Len(q) \in 0..Len(q)
    BY <1>0
  <2>2. (\E f : rec(f, Len(q))) => \E f : IsLevels(f, q)
    BY DEF IsLevels
  <2>. HIDE DEF rec
  <2>. QED
    BY <2>1, <2>2
<1>2. SUFFICES ASSUME NEW m \in T, \A k \in T : m <= k PROVE FALSE
  <2>. HIDE DEF rec
  <2>1. T \in SUBSET Nat
    BY <1>0
  <2>. HIDE DEF T
  <2>. QED
    BY <2>1, LeastNumber
<1>3. m # 0
  <2>1. rec([k \in 0..0 |-> q], 0)
    OBVIOUS
  <2>. QED
    BY <2>1
<1>4. m - 1 \in 0..Len(q) /\ m \in Nat
  BY <1>0, <1>3
<1>5. PICK f : rec(f, m - 1)
  <2>. HIDE DEF rec
  <2>1. ~(m <= m - 1)
    BY <1>4
  <2>. QED
    BY <1>2, <1>4, <2>1
<1>. DEFINE g == [k \in 0..m |-> IF k = m
                                   THEN IF Len(f[m - 1]) > 1 THEN NextLevel(f[m - 1])
                                        ELSE f[m - 1]
                                   ELSE f[k]]
<1>6. \A k \in 0..m : g[k] = IF k = 0 THEN q
                             ELSE IF Len(g[k - 1]) > 1 THEN NextLevel(g[k - 1])
                             ELSE g[k - 1]
  BY <1>3, <1>4, <1>5
<1>7. rec(g, m)
  BY <1>6
<1>. QED
  BY <1>7

LEMMA RootIsLast ==
  ASSUME NEW q, IsList(q), q # <<>>
  PROVE  \E f : IsLevels(f, q) /\ ComputeRoot(q) = f[Len(q)][1]
<1>. DEFINE level == CHOOSE f : IsLevels(f, q)
<1>1. IsLevels(level, q)
  <2>. HIDE DEF level
  <2>1. \E f : IsLevels(f, q)
    BY LevelsExist
  <2>. QED
    BY <2>1 DEF level
<1>2. ComputeRoot(q) = level[Len(q)][1]
  BY Zenon DEF ComputeRoot, IsLevels
<1>. QED
  BY <1>1, <1>2

\* One round makes a list of half the length, rounded up.
LEMMA NextLevelIsList ==
  ASSUME NEW q, IsList(q)
  PROVE  /\ IsList(NextLevel(q))
         /\ Len(NextLevel(q)) = (Len(q) + 1) \div 2
         /\ \A i \in 1..((Len(q) + 1) \div 2) :
              NextLevel(q)[i] = <<q[2 * i - 1], IF 2 * i <= Len(q) THEN q[2 * i] ELSE q[Len(q)]>>
<1>. DEFINE m == (Len(q) + 1) \div 2
<1>1. Len(q) \in Nat /\ m \in Nat
  BY DEF IsList
<1>2. ASSUME NEW i \in 1..m PROVE 2 * i - 1 <= Len(q)
  BY <1>1
<1>3. NextLevel(q) = [i \in 1..m |-> <<q[2 * i - 1],
                                       IF 2 * i <= Len(q) THEN q[2 * i] ELSE q[Len(q)]>>]
  BY <1>2 DEF NextLevel, HashPair
<1>. HIDE DEF m
<1>4. DOMAIN NextLevel(q) = 1..m
  BY <1>3
<1>5. Len(NextLevel(q)) = m
  BY <1>1, <1>4
<1>. QED
  BY <1>1, <1>3, <1>5 DEF IsList, m

LEMMA HalfIsLess ==
  ASSUME NEW m \in Nat, m > 1
  PROVE  (m + 1) \div 2 \in 1..(m - 1)
OBVIOUS

\* The levels are lists that get shorter down to one node.
LEMMA LevelsShrink ==
  ASSUME NEW q, IsList(q), q # <<>>, NEW f, IsLevels(f, q), NEW k \in 0..Len(q)
  PROVE  /\ IsList(f[k]) /\ Len(f[k]) >= 1
         /\ Len(f[k]) > 1 => Len(f[k]) <= Len(q) - k
<1>. DEFINE P(i) == /\ IsList(f[i]) /\ Len(f[i]) >= 1
                    /\ Len(f[i]) > 1 => Len(f[i]) <= Len(q) - i
            T == {i \in 0..Len(q) : ~P(i)}
<1>1. Len(q) \in Nat /\ Len(q) >= 1
  BY DEF IsList
<1>2. SUFFICES ASSUME NEW j \in T, \A i \in T : j <= i PROVE FALSE
  <2>. HIDE DEF P
  <2>1. T \in SUBSET Nat
    BY <1>1
  <2>2. k \notin T => P(k)
    OBVIOUS
  <2>3. P(k) => /\ IsList(f[k]) /\ Len(f[k]) >= 1
                /\ Len(f[k]) > 1 => Len(f[k]) <= Len(q) - k
    BY DEF P
  <2>. HIDE DEF T
  <2>. QED
    BY <2>1, <2>2, <2>3, LeastNumber
<1>3. j # 0
  <2>1. f[0] = q
    BY <1>1 DEF IsLevels
  <2>. QED
    BY <1>1, <2>1
<1>4. j \in 0..Len(q) /\ j - 1 \in 0..Len(q) /\ ~(j <= j - 1)
  BY <1>1, <1>3
<1>5. P(j - 1)
  <2>. HIDE DEF P
  <2>. QED
    BY <1>2, <1>4
<1>. /\ IsList(f[j - 1]) /\ Len(f[j - 1]) >= 1
     /\ Len(f[j - 1]) > 1 => Len(f[j - 1]) <= Len(q) - (j - 1)
  BY <1>5
<1>6. f[j] = IF Len(f[j - 1]) > 1 THEN NextLevel(f[j - 1]) ELSE f[j - 1]
  BY <1>3, <1>4 DEF IsLevels
<1>7. Len(f[j - 1]) \in Nat
  BY <1>5 DEF IsList
<1>8. P(j)
  <2>1. CASE Len(f[j - 1]) > 1
    <3>1. IsList(f[j]) /\ Len(f[j]) = (Len(f[j - 1]) + 1) \div 2
      BY <1>5, <1>6, <2>1, NextLevelIsList
    <3>2. Len(f[j - 1]) <= Len(q) - (j - 1)
      BY <1>5, <2>1
    <3>3. Len(f[j]) >= 1 /\ Len(f[j]) <= Len(q) - j
      <4>. DEFINE a == Len(f[j - 1])
                  b == Len(f[j])
                  n == Len(q)
      <4>1. a \in Nat /\ a > 1 /\ a <= n - (j - 1) /\ n \in Nat /\ j \in Nat
        BY <1>1, <1>4, <1>7, <2>1, <3>2
      <4>2. b = (a + 1) \div 2
        BY <3>1, Zenon
      <4>. HIDE DEF a, b, n
      <4>3. b >= 1 /\ b <= n - j
        BY <4>1, <4>2, HalfIsLess
      <4>. QED
        BY <4>3, Zenon DEF b, n
    <3>. QED
      BY <3>1, <3>3
  <2>2. CASE ~(Len(f[j - 1]) > 1)
    <3>1. f[j] = f[j - 1] /\ Len(f[j - 1]) = 1
      BY <1>5, <1>6, <1>7, <2>2
    <3>. QED
      BY <1>5, <3>1
  <2>. QED
    BY <2>1, <2>2
<1>. QED
  BY <1>8

-----------------------------------------------------------------------------
(* The root commits to the leaves.                                         *)

LEMMA NextLevelCommits ==
  ASSUME NEW x, IsList(x), NEW y, IsList(y), Len(x) = Len(y), NextLevel(x) = NextLevel(y)
  PROVE  x = y
<1>1. Len(x) \in Nat
  BY DEF IsList
<1>2. ASSUME NEW j \in 1..Len(x) PROVE x[j] = y[j]
  <2>. DEFINE i == (j + 1) \div 2
  <2>1. i \in 1..((Len(x) + 1) \div 2) /\ (j = 2 * i - 1 \/ j = 2 * i)
    BY <1>1
  <2>. HIDE DEF i
  <2>2. <<x[2 * i - 1], IF 2 * i <= Len(x) THEN x[2 * i] ELSE x[Len(x)]>>
        = <<y[2 * i - 1], IF 2 * i <= Len(x) THEN y[2 * i] ELSE y[Len(x)]>>
    BY <2>1, NextLevelIsList
  <2>3. CASE j = 2 * i - 1
    BY <2>2, <2>3
  <2>4. CASE j = 2 * i
    BY <1>1, <2>2, <2>4
  <2>. QED
    BY <2>1, <2>3, <2>4
<1>. QED
  BY <1>2 DEF IsList

\* Another list of as many leaves has another root, whatever the leaves and
\* however many: a level is the next one's pairs, so that the levels can be told
\* from the root downwards (merkle.py:20-26).
THEOREM RootsCommit ==
  ASSUME NEW x, IsList(x), NEW y, IsList(y), Len(x) = Len(y),
         ComputeRoot(x) = ComputeRoot(y)
  PROVE  x = y
<1>. SUFFICES ASSUME Len(x) # 0 PROVE x = y
  BY DEF IsList
<1>. x # <<>> /\ y # <<>>
  OBVIOUS
<1>. DEFINE n == Len(x)
<1>1. PICK f : IsLevels(f, x) /\ ComputeRoot(x) = f[n][1]
  BY RootIsLast
<1>2. PICK g : IsLevels(g, y) /\ ComputeRoot(y) = g[n][1]
  BY RootIsLast
<1>3. n \in Nat /\ n >= 1
  BY DEF IsList
<1>4. \A k \in 0..n : IsList(f[k]) /\ IsList(g[k])
  BY <1>1, <1>2, LevelsShrink
<1>5. /\ f[0] = x /\ g[0] = y
      /\ \A k \in 1..n : /\ f[k] = IF Len(f[k - 1]) > 1 THEN NextLevel(f[k - 1]) ELSE f[k - 1]
                         /\ g[k] = IF Len(g[k - 1]) > 1 THEN NextLevel(g[k - 1]) ELSE g[k - 1]
  BY <1>1, <1>2, <1>3, SMTT(30) DEF IsLevels
<1>. HIDE DEF n
<1>6. \A k \in 0..n : Len(f[k]) = Len(g[k])
  <2>. DEFINE T == {k \in 0..n : Len(f[k]) # Len(g[k])}
  <2>1. SUFFICES ASSUME NEW k \in T, \A i \in T : k <= i PROVE FALSE
    <3>1. T \in SUBSET Nat
      BY <1>3
    <3>2. T = {} => \A k \in 0..n : Len(f[k]) = Len(g[k])
      OBVIOUS
    <3>. HIDE DEF T
    <3>. QED
      BY <3>1, <3>2, LeastNumber
  <2>2. k # 0
    BY <1>5 DEF n
  <2>3. k \in 1..n /\ k - 1 \in 0..n /\ ~(k <= k - 1)
    BY <1>3, <2>2
  <2>4. Len(f[k - 1]) = Len(g[k - 1])
    BY <2>1, <2>3
  <2>5. Len(f[k]) = Len(g[k])
    <3>1. CASE Len(f[k - 1]) > 1
      <4>1. f[k] = NextLevel(f[k - 1]) /\ g[k] = NextLevel(g[k - 1])
        BY <1>5, <2>3, <2>4, <3>1
      <4>. QED
        BY <1>4, <2>3, <2>4, <4>1, NextLevelIsList
    <3>2. CASE ~(Len(f[k - 1]) > 1)
      BY <1>5, <2>3, <2>4, <3>2
    <3>. QED
      BY <3>1, <3>2
  <2>. QED
    BY <2>5
<1>7. f[n] = g[n]
  <2>. DEFINE a == Len(f[n])
  <2>1. n \in 0..n
    BY <1>3
  <2>2. a \in Nat /\ (a > 1 => a <= n - n)
    BY <1>1, <1>4, <2>1, LevelsShrink DEF IsList, n
  <2>3. IsList(f[n]) /\ IsList(g[n]) /\ Len(g[n]) = a /\ f[n][1] = g[n][1]
    BY <1>1, <1>2, <1>4, <1>6, <2>1
  <2>4. f[n] = [i \in 1..a |-> f[n][i]] /\ g[n] = [i \in 1..a |-> g[n][i]]
    BY <2>3, Zenon DEF IsList
  <2>. HIDE DEF a
  <2>5. a <= 1
    BY <1>3, <2>2
  <2>6. \A i \in 1..a : f[n][i] = g[n][i]
    BY <2>2, <2>3, <2>5
  <2>. QED
    BY <2>4, <2>6
\* From the root back to the leaves.
<1>8. \A d \in 0..n : f[n - d] = g[n - d]
  <2>. DEFINE T == {d \in 0..n : f[n - d] # g[n - d]}
  <2>1. SUFFICES ASSUME NEW d \in T, \A e \in T : d <= e PROVE FALSE
    <3>1. T \in SUBSET Nat
      BY <1>3
    <3>2. T = {} => \A d \in 0..n : f[n - d] = g[n - d]
      OBVIOUS
    <3>. HIDE DEF T
    <3>. QED
      BY <3>1, <3>2, LeastNumber
  <2>2. d # 0
    BY <1>3, <1>7
  <2>. DEFINE k == n - d + 1
  <2>3. k \in 1..n /\ k - 1 = n - d /\ k - 1 \in 0..n /\ d - 1 \in 0..n /\ n - (d - 1) = k
        /\ ~(d <= d - 1)
    BY <1>3, <2>2
  <2>4. f[k] = g[k]
    BY <2>1, <2>3
  <2>. HIDE DEF k
  <2>5. IsList(f[k - 1]) /\ IsList(g[k - 1]) /\ Len(f[k - 1]) = Len(g[k - 1])
    BY <1>4, <1>6, <2>3
  <2>6. f[k - 1] = g[k - 1]
    <3>1. CASE Len(f[k - 1]) > 1
      <4>1. f[k] = NextLevel(f[k - 1]) /\ g[k] = NextLevel(g[k - 1])
        BY <1>5, <2>3, <2>5, <3>1
      <4>. QED
        BY <2>4, <2>5, <4>1, NextLevelCommits
    <3>2. CASE ~(Len(f[k - 1]) > 1)
      BY <1>5, <2>3, <2>4, <2>5, <3>2
    <3>. QED
      BY <3>1, <3>2
  <2>. QED
    BY <2>3, <2>6
<1>9. n \in 0..n /\ n - n = 0
  BY <1>3
<1>. QED
  BY <1>5, <1>8, <1>9

-----------------------------------------------------------------------------
(* The loop computes the root of the tree.                                 *)

IsWidths(w, n) == w = [h \in 0..n |-> IF h = 0 THEN 1 ELSE 2 * w[h - 1]]

IsSubtrees(t, w, q, n) ==
  t = [h \in 0..n |->
         [lo \in 1..n |->
            IF h = 0 THEN q[lo]
            ELSE LET mid == lo + w[h - 1]
                 IN  HashPair(t[h - 1][lo], t[h - 1][IF mid <= n THEN mid ELSE lo])]]

IsHeight(h, w, n) == w[h] >= n /\ \A g \in 0..(h - 1) : w[g] < n

LEMMA WidthsExist ==
  ASSUME NEW n \in Nat
  PROVE  \E w : IsWidths(w, n)
<1>. DEFINE T == {m \in 0..n : \A w : ~IsWidths(w, m)}
<1>1. SUFFICES T = {}
  BY n \in 0..n
<1>2. SUFFICES ASSUME NEW m \in T, \A k \in T : m <= k PROVE FALSE
  <2>1. T \in SUBSET Nat
    OBVIOUS
  <2>. HIDE DEF T
  <2>. QED
    BY <2>1, LeastNumber
<1>3. m # 0
  <2>1. IsWidths([h \in 0..0 |-> 1], 0)
    BY DEF IsWidths
  <2>. QED
    BY <2>1
<1>4. m - 1 \in 0..n /\ m \in Nat /\ ~(m <= m - 1)
  BY <1>3
<1>5. PICK w : IsWidths(w, m - 1)
  BY <1>2, <1>4
<1>. DEFINE v == [h \in 0..m |-> IF h = m THEN 2 * w[m - 1] ELSE w[h]]
<1>6. \A h \in 0..m : v[h] = IF h = 0 THEN 1 ELSE 2 * v[h - 1]
  BY <1>3, <1>4, <1>5 DEF IsWidths
<1>7. IsWidths(v, m)
  BY <1>6 DEF IsWidths
<1>. QED
  BY <1>7

\* A tree of height h has 2^h leaves, so more than h.
LEMMA WidthGrows ==
  ASSUME NEW n \in Nat, NEW w, IsWidths(w, n), NEW k \in 0..n
  PROVE  w[k] \in Nat /\ w[k] > k
<1>. DEFINE T == {i \in 0..n : ~(w[i] \in Nat /\ w[i] > i)}
<1>1. SUFFICES ASSUME NEW i \in T, \A m \in T : i <= m PROVE FALSE
  <2>1. T \in SUBSET Nat
    OBVIOUS
  <2>2. k \notin T => w[k] \in Nat /\ w[k] > k
    OBVIOUS
  <2>. HIDE DEF T
  <2>. QED
    BY <2>1, <2>2, LeastNumber
<1>2. i # 0
  BY DEF IsWidths
<1>3. i \in 0..n /\ i - 1 \in 0..n /\ ~(i <= i - 1)
  BY <1>2
<1>4. w[i - 1] \in Nat /\ w[i - 1] > i - 1
  BY <1>1, <1>3
<1>5. w[i] = 2 * w[i - 1]
  BY <1>2, <1>3 DEF IsWidths
<1>. QED
  BY <1>3, <1>4, <1>5

LEMMA HeightExists ==
  ASSUME NEW n \in Nat, NEW w, IsWidths(w, n)
  PROVE  \E h \in 0..n : IsHeight(h, w, n)
<1>. DEFINE T == {h \in 0..n : w[h] >= n}
<1>1. w[n] \in Nat /\ w[n] > n
  BY WidthGrows
<1>2. T \in SUBSET Nat /\ n \in T
  BY <1>1
<1>3. PICK h \in T : \A g \in T : h <= g
  <2>. HIDE DEF T
  <2>. QED
    BY <1>2, LeastNumber
<1>4. ASSUME NEW g \in 0..(h - 1) PROVE w[g] < n
  <2>1. g \in 0..n /\ ~(h <= g)
    OBVIOUS
  <2>2. w[g] \in Nat
    BY <2>1, WidthGrows
  <2>. QED
    BY <1>3, <2>1, <2>2
<1>. QED
  BY <1>3, <1>4 DEF IsHeight

LEMMA SubtreesExist ==
  ASSUME NEW n \in Nat, NEW w, NEW q
  PROVE  \E t : IsSubtrees(t, w, q, n)
<1>. DEFINE row(f, h) ==
              [lo \in 1..n |->
                 IF h = 0 THEN q[lo]
                 ELSE LET mid == lo + w[h - 1]
                      IN  HashPair(f[h - 1][lo], f[h - 1][IF mid <= n THEN mid ELSE lo])]
            rec(f, m) == f = [h \in 0..m |-> row(f, h)]
            T == {m \in 0..n : \A f : ~rec(f, m)}
<1>1. SUFFICES T = {}
  <2>1. (\E f : rec(f, n)) => \E t : IsSubtrees(t, w, q, n)
    BY DEF IsSubtrees
  <2>. HIDE DEF rec
  <2>. QED
    BY <2>1, n \in 0..n
<1>2. SUFFICES ASSUME NEW m \in T, \A k \in T : m <= k PROVE FALSE
  <2>. HIDE DEF rec
  <2>1. T \in SUBSET Nat
    OBVIOUS
  <2>. HIDE DEF T
  <2>. QED
    BY <2>1, LeastNumber
<1>3. m # 0
  <2>1. rec([h \in 0..0 |-> [lo \in 1..n |-> q[lo]]], 0)
    OBVIOUS
  <2>. QED
    BY <2>1
<1>4. m - 1 \in 0..n /\ m \in Nat /\ ~(m <= m - 1)
  BY <1>3
<1>5. PICK f : rec(f, m - 1)
  <2>. HIDE DEF rec
  <2>. QED
    BY <1>2, <1>4
<1>. DEFINE g == [h \in 0..m |-> IF h = m THEN row(f, m) ELSE f[h]]
<1>6. ASSUME NEW h \in 0..m PROVE g[h] = row(g, h)
  <2>1. h # 0 => g[h - 1] = f[h - 1]
    BY <1>4
  <2>2. row(g, h) = row(f, h)
    <3>. HIDE DEF g
    <3>. QED
      BY <2>1
  <2>3. h # m => f[h] = row(f, h)
    <3>. HIDE DEF row
    <3>. QED
      BY <1>4, <1>5
  <2>4. g[h] = row(f, h)
    <3>. HIDE DEF row
    <3>. QED
      BY <2>3
  <2>. QED
    BY <2>2, <2>4
<1>7. rec(g, m)
  <2>1. g = [h \in 0..m |-> g[h]]
    OBVIOUS
  <2>. HIDE DEF g, row
  <2>. QED
    BY <1>6, <2>1
<1>. QED
  BY <1>7

LEMMA TreeRootIsSubtree ==
  ASSUME NEW q, Len(q) \in Nat, Len(q) # 0
  PROVE  \E w, t : \E h \in 0..Len(q) :
           /\ IsWidths(w, Len(q)) /\ IsSubtrees(t, w, q, Len(q)) /\ IsHeight(h, w, Len(q))
           /\ TreeRoot(q) = t[h][1]
<1>. DEFINE width == CHOOSE w : IsWidths(w, Len(q))
            height == CHOOSE h \in 0..Len(q) : IsHeight(h, width, Len(q))
            sub == CHOOSE t : IsSubtrees(t, width, q, Len(q))
<1>1. TreeRoot(q) = sub[height][1]
  BY Zenon DEF TreeRoot, IsWidths, IsHeight, IsSubtrees
<1>. HIDE DEF width, height, sub
<1>2. IsWidths(width, Len(q))
  BY WidthsExist, Zenon DEF width
<1>3. height \in 0..Len(q) /\ IsHeight(height, width, Len(q))
  BY <1>2, HeightExists, Zenon DEF height
<1>4. IsSubtrees(sub, width, q, Len(q))
  BY SubtreesExist, Zenon DEF sub
<1>. QED
  BY <1>1, <1>2, <1>3, <1>4

LEMMA TimesGrows ==
  ASSUME NEW a \in Int, NEW b \in Int, a <= b, NEW v \in Nat
  PROVE  a * v <= b * v
OBVIOUS

\* Nodes that start every v leaves, paired up, start every 2 * v leaves; the
\* last one has no second half if their number is odd.
LEMMA PairStarts ==
  ASSUME NEW m \in Nat, NEW v \in Nat, NEW n \in Nat, m > 1, v >= 1,
         (m - 1) * v < n, n <= m * v,
         NEW half \in Nat, half = (m + 1) \div 2
  PROVE  /\ (half - 1) * (2 * v) < n /\ n <= half * (2 * v)
         /\ \A i \in 1..half :
              LET lo == 1 + (i - 1) * (2 * v) IN
              /\ 2 * i - 1 \in 1..m /\ lo \in 1..n
              /\ lo = 1 + ((2 * i - 1) - 1) * v
              /\ lo + v = 1 + (2 * i - 1) * v
              /\ 2 * i <= m <=> lo + v <= n
<1>1. half \in 1..m /\ m <= 2 * half /\ 2 * half <= m + 1
  OBVIOUS
<1>2. (half - 1) * (2 * v) = (2 * half - 2) * v /\ half * (2 * v) = (2 * half) * v
  OBVIOUS
<1>3. (2 * half - 2) * v <= (m - 1) * v /\ m * v <= (2 * half) * v
  BY <1>1, TimesGrows
<1>4. (half - 1) * (2 * v) < n /\ n <= half * (2 * v)
  BY <1>2, <1>3
<1>5. ASSUME NEW i \in 1..half
      PROVE  LET lo == 1 + (i - 1) * (2 * v) IN
             /\ 2 * i - 1 \in 1..m /\ lo \in 1..n
             /\ lo = 1 + ((2 * i - 1) - 1) * v
             /\ lo + v = 1 + (2 * i - 1) * v
             /\ 2 * i <= m <=> lo + v <= n
  <2>1. 2 * i - 1 \in 1..m
    BY <1>1
  <2>2. (i - 1) * (2 * v) = ((2 * i - 1) - 1) * v /\ (i - 1) * (2 * v) + v = (2 * i - 1) * v
    OBVIOUS
  <2>3. 0 <= (i - 1) * (2 * v) /\ (i - 1) * (2 * v) <= (half - 1) * (2 * v)
    BY <1>1, TimesGrows
  <2>4. 2 * i <= m => (2 * i - 1) * v <= (m - 1) * v
    BY <1>1, TimesGrows
  <2>5. ~(2 * i <= m) => m * v <= (2 * i - 1) * v
    BY <1>1, TimesGrows
  <2>. DEFINE a == (i - 1) * (2 * v)
              b == (2 * i - 1) * v
              c == (m - 1) * v
              d == m * v
  <2>6. /\ a \in Int /\ b \in Int /\ c \in Int /\ d \in Int /\ a + v = b
        /\ 0 <= a /\ a < n /\ c < n /\ n <= d
        /\ (2 * i <= m => b <= c) /\ (~(2 * i <= m) => d <= b)
    BY <1>4, <2>2, <2>3, <2>4, <2>5
  <2>7. 1 + a \in 1..n /\ (1 + a) + v = 1 + b /\ (2 * i <= m <=> (1 + a) + v <= n)
    <3>. HIDE DEF a, b, c, d
    <3>. QED
      BY <2>6
  <2>. QED
    BY <2>1, <2>2, <2>7
<1>. QED
  BY <1>4, <1>5

\* Level k is the row of subtrees of height k that start every w[k] leaves.
IsRow(f, t, w, n, k) ==
  /\ IsList(f[k]) /\ Len(f[k]) >= 1
  /\ (Len(f[k]) - 1) * w[k] < n /\ n <= Len(f[k]) * w[k]
  /\ \A i \in 1..Len(f[k]) : f[k][i] = t[k][1 + (i - 1) * w[k]]

LEMMA NextRow ==
  ASSUME NEW n \in Nat, NEW q, NEW f, NEW w, NEW t, IsLevels(f, q), n = Len(q),
         IsWidths(w, n), IsSubtrees(t, w, q, n),
         NEW k \in 1..n, w[k - 1] < n, IsRow(f, t, w, n, k - 1)
  PROVE  IsRow(f, t, w, n, k)
<1>. DEFINE m == Len(f[k - 1])
            v == w[k - 1]
            half == (m + 1) \div 2
<1>1. k - 1 \in 0..n /\ k \in 0..n /\ v \in Nat /\ v >= 1 /\ w[k] = 2 * v
  <2>1. k - 1 \in 0..n /\ k \in 0..n /\ k # 0
    OBVIOUS
  <2>2. v \in Nat /\ v > k - 1
    BY <2>1, WidthGrows
  <2>. QED
    BY <2>1, <2>2 DEF IsWidths
<1>2. IsList(f[k - 1]) /\ m \in Nat /\ m >= 1 /\ (m - 1) * v < n /\ n <= m * v
  BY DEF IsRow, IsList
<1>3. m > 1
  <2>1. m # 1
    <3>1. m = 1 => m * v = v
      BY <1>1
    <3>2. v < n
      OBVIOUS
    <3>. HIDE DEF m, v
    <3>. QED
      BY <1>1, <1>2, <3>1, <3>2
  <2>. HIDE DEF m
  <2>. QED
    BY <1>2, <2>1
<1>4. f[k] = NextLevel(f[k - 1])
  BY <1>1, <1>3 DEF IsLevels
<1>5. /\ IsList(f[k]) /\ Len(f[k]) = half
      /\ \A i \in 1..half :
           f[k][i] = <<f[k - 1][2 * i - 1],
                       IF 2 * i <= m THEN f[k - 1][2 * i] ELSE f[k - 1][m]>>
  BY <1>2, <1>4, NextLevelIsList
<1>6. \A i \in 1..m : f[k - 1][i] = t[k - 1][1 + (i - 1) * v]
  BY DEF IsRow
<1>7. \A lo \in 1..n :
        t[k][lo] = <<t[k - 1][lo], t[k - 1][IF lo + v <= n THEN lo + v ELSE lo]>>
  <2>1. t[k] = [lo \in 1..n |->
                  IF k = 0 THEN q[lo]
                  ELSE LET mid == lo + w[k - 1]
                       IN  HashPair(t[k - 1][lo], t[k - 1][IF mid <= n THEN mid ELSE lo])]
    BY <1>1, Zenon DEF IsSubtrees
  <2>. QED
    BY <2>1 DEF HashPair
<1>8. half \in Nat /\ half >= 1
  <2>. HIDE DEF m
  <2>. QED
    BY <1>2, <1>3, HalfIsLess
<1>. HIDE DEF m, v
<1>9. /\ (half - 1) * (2 * v) < n /\ n <= half * (2 * v)
      /\ \A i \in 1..half :
           LET lo == 1 + (i - 1) * (2 * v) IN
           /\ 2 * i - 1 \in 1..m /\ lo \in 1..n
           /\ lo = 1 + ((2 * i - 1) - 1) * v
           /\ lo + v = 1 + (2 * i - 1) * v
           /\ 2 * i <= m <=> lo + v <= n
  BY <1>1, <1>2, <1>3, <1>8, PairStarts, SMTT(30)
<1>10. ASSUME NEW i \in 1..half
       PROVE  f[k][i] = t[k][1 + (i - 1) * (2 * v)]
  <2>. DEFINE lo == 1 + (i - 1) * (2 * v)
  <2>1. /\ 2 * i - 1 \in 1..m /\ lo \in 1..n
        /\ lo = 1 + ((2 * i - 1) - 1) * v
        /\ lo + v = 1 + (2 * i - 1) * v
        /\ 2 * i <= m <=> lo + v <= n
    BY <1>9
  <2>. HIDE DEF lo
  <2>2. f[k - 1][2 * i - 1] = t[k - 1][lo]
    BY <1>6, <2>1
  <2>3. CASE 2 * i <= m
    <3>1. 2 * i \in 1..m
      BY <1>2, <2>1, <2>3
    <3>2. f[k - 1][2 * i] = t[k - 1][1 + (2 * i - 1) * v]
      BY <1>6, <3>1
    <3>3. f[k][i] = <<t[k - 1][lo], t[k - 1][lo + v]>>
      BY <1>5, <2>1, <2>2, <2>3, <3>2
    <3>. QED
      BY <1>7, <2>1, <2>3, <3>3 DEF lo
  <2>4. CASE ~(2 * i <= m)
    <3>1. m = 2 * i - 1
      BY <1>2, <2>1, <2>4
    <3>2. f[k][i] = <<t[k - 1][lo], t[k - 1][lo]>>
      BY <1>5, <2>2, <2>4, <3>1
    <3>. QED
      BY <1>7, <2>1, <2>4, <3>2 DEF lo
  <2>. QED
    BY <2>3, <2>4
<1>. HIDE DEF half
<1>11. (Len(f[k]) - 1) * w[k] < n /\ n <= Len(f[k]) * w[k] /\ Len(f[k]) >= 1
  BY <1>1, <1>5, <1>8, <1>9
<1>12. \A i \in 1..Len(f[k]) : f[k][i] = t[k][1 + (i - 1) * w[k]]
  BY <1>1, <1>5, <1>10
<1>. QED
  BY <1>5, <1>11, <1>12 DEF IsRow

LEMMA FirstRow ==
  ASSUME NEW n \in Nat, NEW q, IsList(q), NEW f, NEW w, NEW t, IsLevels(f, q), n = Len(q),
         n >= 1, IsWidths(w, n), IsSubtrees(t, w, q, n)
  PROVE  IsRow(f, t, w, n, 0)
<1>1. f[0] = q /\ w[0] = 1
  BY DEF IsLevels, IsWidths
<1>2. t[0] = [lo \in 1..n |-> IF 0 = 0 THEN q[lo]
                              ELSE LET mid == lo + w[0 - 1]
                                   IN  HashPair(t[0 - 1][lo],
                                                t[0 - 1][IF mid <= n THEN mid ELSE lo])]
  BY 0 \in 0..n, Zenon DEF IsSubtrees
<1>3. \A i \in 1..n : t[0][i] = q[i] /\ 1 + (i - 1) * 1 = i
  BY <1>2
<1>4. (n - 1) * 1 < n /\ n <= n * 1
  OBVIOUS
<1>. QED
  BY <1>1, <1>3, <1>4 DEF IsRow

\* The loop that pairs up level after level computes the root of the padded
\* binary tree, whatever the number of leaves (merkle.py:15-26).
THEOREM LoopComputesTree ==
  ASSUME NEW q, IsList(q)
  PROVE  ComputeRoot(q) = TreeRoot(q)
<1>. SUFFICES ASSUME q # <<>> PROVE ComputeRoot(q) = TreeRoot(q)
  BY DEF ComputeRoot, TreeRoot
<1>. DEFINE n == Len(q)
<1>1. n \in Nat /\ n >= 1
  BY DEF IsList
<1>2. PICK f : IsLevels(f, q) /\ ComputeRoot(q) = f[n][1]
  BY RootIsLast
<1>3. PICK w, t : \E h \in 0..n :
        IsWidths(w, n) /\ IsSubtrees(t, w, q, n) /\ IsHeight(h, w, n) /\ TreeRoot(q) = t[h][1]
  <2>1. Len(q) \in Nat /\ Len(q) # 0
    BY <1>1
  <2>. QED
    BY <2>1, TreeRootIsSubtree, Zenon
<1>4. PICK h \in 0..n :
        IsWidths(w, n) /\ IsSubtrees(t, w, q, n) /\ IsHeight(h, w, n) /\ TreeRoot(q) = t[h][1]
  BY <1>3
<1>5. n = Len(q)
  OBVIOUS
<1>. HIDE DEF n
<1>6. IsRow(f, t, w, n, h)
  <2>. DEFINE T == {k \in 0..h : ~IsRow(f, t, w, n, k)}
  <2>1. SUFFICES ASSUME NEW k \in T, \A i \in T : k <= i PROVE FALSE
    <3>1. T \in SUBSET Nat
      BY <1>1
    <3>2. h \in 0..h
      BY <1>1
    <3>3. h \notin T => IsRow(f, t, w, n, h)
      BY <3>2
    <3>. HIDE DEF T
    <3>. QED
      BY <3>1, <3>3, LeastNumber
  <2>2. k # 0
    BY <1>1, <1>2, <1>4, <1>5, FirstRow
  <2>3. k - 1 \in 0..(h - 1) /\ k - 1 \in 0..h /\ ~(k <= k - 1) /\ k \in 1..n
    BY <1>1, <2>2
  <2>4. IsRow(f, t, w, n, k - 1)
    BY <2>1, <2>3
  <2>5. w[k - 1] < n
    BY <1>4, <2>3 DEF IsHeight
  <2>6. IsRow(f, t, w, n, k)
    BY <1>1, <1>2, <1>4, <1>5, <2>3, <2>4, <2>5, NextRow
  <2>. QED
    BY <2>6
\* It has one node, the whole tree.
<1>7. ~(Len(f[h]) > 1) /\ f[h][1] = t[h][1]
  <2>. DEFINE m == Len(f[h])
  <2>1. /\ m \in Nat /\ m >= 1 /\ (m - 1) * w[h] < n
        /\ \A i \in 1..m : f[h][i] = t[h][1 + (i - 1) * w[h]]
    BY <1>6 DEF IsRow, IsList
  <2>2. w[h] \in Nat /\ w[h] >= n
    BY <1>1, <1>4, WidthGrows DEF IsHeight
  <2>3. ~(m > 1)
    <3>. HIDE DEF m
    <3>1. SUFFICES ASSUME m > 1 PROVE FALSE
      OBVIOUS
    <3>2. 1 \in Int /\ m - 1 \in Int /\ 1 <= m - 1
      BY <2>1, <3>1
    <3>3. 1 * w[h] <= (m - 1) * w[h]
      BY <2>2, <3>2, TimesGrows
    <3>. QED
      BY <1>1, <2>1, <2>2, <3>3
  <2>4. f[h][1] = t[h][1 + (1 - 1) * w[h]]
    BY <2>1
  <2>5. 1 + (1 - 1) * w[h] = 1
    BY <2>2
  <2>. QED
    BY <2>3, <2>4, <2>5
\* The rounds that are left change nothing.
<1>8. f[n] = f[h]
  <2>. DEFINE T == {k \in h..n : f[k] # f[h]}
  <2>1. SUFFICES ASSUME NEW k \in T, \A i \in T : k <= i PROVE FALSE
    <3>1. T \in SUBSET Nat
      BY <1>1
    <3>2. n \in h..n
      BY <1>1
    <3>3. n \notin T => f[n] = f[h]
      BY <3>2
    <3>. HIDE DEF T
    <3>. QED
      BY <3>1, <3>3, LeastNumber
  <2>2. k \in 0..n /\ k # 0 /\ k - 1 \in h..n /\ ~(k <= k - 1)
    BY <1>1
  <2>3. f[k - 1] = f[h]
    BY <2>1, <2>2
  <2>4. f[k] = IF Len(f[k - 1]) > 1 THEN NextLevel(f[k - 1]) ELSE f[k - 1]
    BY <1>2, <1>5, <2>2 DEF IsLevels
  <2>5. f[k] = f[h]
    BY <1>7, <2>3, <2>4
  <2>. QED
    BY <2>5
<1>. QED
  BY <1>2, <1>4, <1>7, <1>8

=============================================================================
