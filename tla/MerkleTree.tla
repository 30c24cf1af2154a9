----------------------------- MODULE MerkleTree -----------------------------
(***************************************************************************)
(* The root the Merkle accumulator computes over its leaves.  SHA-256 is   *)
(* taken to be free of collisions: the hash of a pair is the pair itself.  *)
(* A leaf is a sequence of one element, so a leaf is never a pair.         *)
(***************************************************************************)
EXTENDS Integers, Sequences

HashPair(left, right) == <<left, right>>

\* Mutant of NextLevel: the odd node is carried up as it is.
CarryOddNode(level) ==
  LET n == Len(level)
  IN  [i \in 1..((n + 1) \div 2) |->
         IF 2 * i <= n THEN HashPair(level[2 * i - 1], level[2 * i]) ELSE level[n]]

\* One round of the loop: an odd level repeats its last node.
NextLevel(level) ==
  LET n == Len(level)
      node(i) == IF i <= n THEN level[i] ELSE level[n]
  IN  [i \in 1..((n + 1) \div 2) |-> HashPair(node(2 * i - 1), node(2 * i))]

\* "" for no leaf; otherwise rounds until one node is left.
ComputeRoot(leaves) ==
  LET level[k \in 0..Len(leaves)] ==
        IF k = 0 THEN leaves
        ELSE IF Len(level[k - 1]) > 1 THEN NextLevel(level[k - 1])
        ELSE level[k - 1]
  IN  IF leaves = <<>> THEN <<>> ELSE level[Len(leaves)][1]

-----------------------------------------------------------------------------
(* Reference: the root of the smallest complete binary tree the leaves fit *)
(* into, from the top down.  A missing right subtree is a copy of its left *)
(* sibling.                                                                *)

TreeRoot(leaves) ==
  LET n == Len(leaves)
      \* The leaves of a tree of height h.
      width[h \in 0..n] == IF h = 0 THEN 1 ELSE 2 * width[h - 1]
      height == CHOOSE h \in 0..n : width[h] >= n /\ \A g \in 0..(h - 1) : width[g] < n
      \* Subtree of height h over the leaves from position lo on.
      sub[h \in 0..n] ==
        [lo \in 1..n |->
           IF h = 0 THEN leaves[lo]
           ELSE LET mid == lo + width[h - 1]
                IN  HashPair(sub[h - 1][lo], sub[h - 1][IF mid <= n THEN mid ELSE lo])]
  IN  IF n = 0 THEN <<>> ELSE sub[height][1]
=============================================================================
