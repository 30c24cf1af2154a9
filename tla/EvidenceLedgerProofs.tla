------------------------ MODULE EvidenceLedgerProofs ------------------------
(***************************************************************************)
(* Theorems about EvidenceLedger, for any number of receipts.  They rest   *)
(* on the symbolic hash and signature: neither has a collision.  Of the    *)
(* root only RootIsTree asks more than that it is a function of the leaves.*)
(***************************************************************************)
EXTENDS EvidenceLedger, MerkleTreeProofs

IsSeq(q) == q \in Seq({q[k] : k \in DOMAIN q})

IsReceipt(r) ==
  r = [id |-> r.id, result |-> r.result, prev |-> r.prev, root |-> r.root, sig |-> r.sig]

SignedAsIssued == \A k \in 1..Len(issued) : IsReceipt(issued[k]) /\ VerifySignature(issued[k])

\* A holder writes the result field and no other.
AlteredInResult ==
  \A k \in 1..Len(issued) :
    checkpoints[k] = [issued[k] EXCEPT !.result = checkpoints[k].result]

\* The receipt of the latest call has the root of now, and its leaf is in the tree.
LastIsCommitted ==
  \A k \in 1..Len(issued) :
    issued[k].id = calls => issued[k].root = root /\ LeafHash(issued[k]) \in ToSet(leaves)

IdsAreCalls == calls \in Nat /\ \A k \in 1..Len(issued) : issued[k].id \in 1..calls

\* A receipt that was altered when its successor came is linked as altered.
StaleIsLinked ==
  \A k \in stale :
    k \in 1..(Len(issued) - 1) /\ issued[k + 1].prev # SerializedHash(issued[k])

LedgerInv ==
  /\ IsSeq(checkpoints) /\ IsSeq(issued) /\ IsSeq(leaves)
  /\ Len(checkpoints) = Len(issued)
  /\ SignedAsIssued /\ AlteredInResult /\ LastIsCommitted /\ IdsAreCalls /\ StaleIsLinked
  /\ queued \subseteq ToSet(issued)

-----------------------------------------------------------------------------

LEMMA SeqAppend ==
  ASSUME NEW q, IsSeq(q), NEW e
  PROVE  /\ IsSeq(Append(q, e)) /\ Len(q) \in Nat /\ Len(Append(q, e)) = Len(q) + 1
         /\ \A k \in 1..Len(q) : Append(q, e)[k] = q[k]
         /\ Append(q, e)[Len(q) + 1] = e
<1>. DEFINE S == {q[k] : k \in DOMAIN q} \cup {e}
            a == Append(q, e)
<1>1. q \in Seq(S) /\ e \in S
  BY DEF IsSeq
<1>. HIDE DEF S
<1>2. /\ Len(q) \in Nat /\ Len(a) = Len(q) + 1 /\ a \in Seq(S)
      /\ \A k \in 1..Len(q) : a[k] = q[k]
      /\ a[Len(q) + 1] = e
  BY <1>1
<1>. HIDE DEF a
<1>3. IsSeq(a)
  BY <1>2 DEF IsSeq
<1>. QED
  BY <1>2, <1>3 DEF a

LEMMA SeqEqual ==
  ASSUME NEW p, NEW q, IsSeq(p), IsSeq(q), Len(p) = Len(q),
         \A k \in 1..Len(p) : p[k] = q[k]
  PROVE  p = q
<1>1. p = [k \in 1..Len(p) |-> p[k]] /\ q = [k \in 1..Len(q) |-> q[k]]
  <2>. DEFINE P == {p[k] : k \in DOMAIN p}
              Q == {q[k] : k \in DOMAIN q}
  <2>1. p \in Seq(P) /\ q \in Seq(Q)
    BY DEF IsSeq
  <2>. HIDE DEF P, Q
  <2>. QED
    BY <2>1
<1>. QED
  BY <1>1

\* Two receipts that agree but in the result, and both have their signature,
\* are one.
LEMMA SignatureFixesResult ==
  ASSUME NEW r, IsReceipt(r), VerifySignature(r),
         NEW result, VerifySignature([r EXCEPT !.result = result])
  PROVE  [r EXCEPT !.result = result] = r
<1>. DEFINE altered == [r EXCEPT !.result = result]
<1>1. altered = [id |-> r.id, result |-> result, prev |-> r.prev, root |-> r.root,
                 sig |-> r.sig]
  BY DEF IsReceipt
<1>2. r.sig = <<Unsigned(r)>> /\ altered.sig = <<Unsigned(altered)>>
  BY DEF VerifySignature
<1>3. /\ Unsigned(r).result = r.result
      /\ Unsigned(altered).result = result
  BY <1>1 DEF Unsigned, IsReceipt
<1>4. Unsigned(r) = Unsigned(altered)
  BY <1>1, <1>2
<1>5. result = r.result
  BY <1>3, <1>4
<1>. QED
  BY <1>1, <1>5 DEF IsReceipt

\* What append makes of the receipt it is given.
LEMMA SealedIs ==
  ASSUME NEW result
  PROVE  LET r == Sealed(Linked(result)) IN
         /\ IsReceipt(r) /\ VerifySignature(r) /\ LeafHash(r) = LeafHash(Linked(result))
         /\ r.id = calls + 1
         /\ r.root = ComputeRoot(Append(leaves, LeafHash(Linked(result))))
         /\ r.prev = PreviousHash
<1>. DEFINE l == Linked(result)
            newRoot == ComputeRoot(Append(leaves, LeafHash(l)))
            rooted == [l EXCEPT !.root = newRoot]
            r == Sealed(l)
<1>. HIDE DEF newRoot
<1>1. rooted = [id |-> calls + 1, result |-> result, prev |-> PreviousHash,
                root |-> newRoot, sig |-> None]
  BY DEF Linked
<1>2. Unsigned(rooted) = rooted
  BY <1>1 DEF Unsigned
<1>3. r = [rooted EXCEPT !.sig = <<rooted>>]
  BY <1>2 DEF Sealed, SignMessage, newRoot
<1>4. r = [id |-> calls + 1, result |-> result, prev |-> PreviousHash,
           root |-> newRoot, sig |-> <<rooted>>]
  BY <1>1, <1>3
<1>5. Unsigned(r) = rooted
  BY <1>1, <1>4 DEF Unsigned
<1>6. VerifySignature(r)
  BY <1>4, <1>5 DEF VerifySignature, None
<1>7. LeafHash(r) = LeafHash(l)
  BY <1>4 DEF LeafHash, LeafPayload, Linked
<1>. QED
  BY <1>4, <1>6, <1>7 DEF IsReceipt, newRoot

-----------------------------------------------------------------------------

LEMMA InvInit == Init => LedgerInv
BY DEF Init, LedgerInv, IsSeq, SignedAsIssued, AlteredInResult, LastIsCommitted,
       IdsAreCalls, StaleIsLinked, ToSet

\* append, with or without its copy in the queue.
LEMMA AppendKeepsInv ==
  ASSUME LedgerInv, NEW result, calls' = calls + 1,
         AddLeaf(Linked(result)), Checkpoint(Linked(result)),
         queued' \subseteq queued \cup {Sealed(Linked(result))}
  PROVE  LedgerInv'
<1>. DEFINE r == Sealed(Linked(result))
            n == Len(issued)
<1>1. /\ IsReceipt(r) /\ VerifySignature(r) /\ LeafHash(r) = LeafHash(Linked(result))
      /\ r.id = calls + 1
      /\ r.root = ComputeRoot(Append(leaves, LeafHash(Linked(result))))
      /\ r.prev = PreviousHash
  BY SealedIs
<1>2. /\ checkpoints' = Append(checkpoints, r) /\ issued' = Append(issued, r)
      /\ stale' = stale \cup (Altered \cap {Len(checkpoints)})
  BY DEF Checkpoint
<1>3. leaves' = Append(leaves, LeafHash(r)) /\ root' = r.root
  BY <1>1 DEF AddLeaf
<1>. HIDE DEF r
<1>4. /\ IsSeq(checkpoints') /\ IsSeq(issued')
      /\ n \in Nat /\ Len(issued') = n + 1 /\ Len(checkpoints') = n + 1
      /\ \A k \in 1..n : issued'[k] = issued[k] /\ checkpoints'[k] = checkpoints[k]
      /\ issued'[n + 1] = r /\ checkpoints'[n + 1] = r
  BY <1>2, SeqAppend DEF LedgerInv
<1>5. IsSeq(leaves') /\ LeafHash(r) \in ToSet(leaves')
  <2>1. /\ IsSeq(leaves') /\ Len(leaves) \in Nat /\ Len(leaves') = Len(leaves) + 1
        /\ leaves'[Len(leaves) + 1] = LeafHash(r)
    BY <1>3, SeqAppend DEF LedgerInv
  <2>. QED
    BY <2>1 DEF ToSet
<1>6. SignedAsIssued'
  <2>1. SUFFICES ASSUME NEW k \in 1..(n + 1)
                 PROVE  IsReceipt(issued'[k]) /\ VerifySignature(issued'[k])
    BY <1>4 DEF SignedAsIssued
  <2>2. CASE k \in 1..n
    BY <1>4, <2>2 DEF LedgerInv, SignedAsIssued
  <2>3. CASE k = n + 1
    BY <1>1, <1>4, <2>3
  <2>. QED
    BY <1>4, <2>2, <2>3
<1>7. AlteredInResult'
  <2>1. SUFFICES ASSUME NEW k \in 1..(n + 1)
                 PROVE  checkpoints'[k] = [issued'[k] EXCEPT !.result = checkpoints'[k].result]
    BY <1>4 DEF AlteredInResult
  <2>2. CASE k \in 1..n
    BY <1>4, <2>2 DEF LedgerInv, AlteredInResult
  <2>3. CASE k = n + 1
    BY <1>1, <1>4, <2>3 DEF IsReceipt
  <2>. QED
    BY <1>4, <2>2, <2>3
<1>11. \A k \in 1..(n + 1) : k = n + 1 \/ k \in 1..n
  BY <1>4
<1>12. IdsAreCalls'
  BY <1>1, <1>4, <1>11 DEF LedgerInv, IdsAreCalls
<1>8. LastIsCommitted'
  <2>1. \A k \in 1..n : issued'[k].id # calls'
    BY <1>4 DEF LedgerInv, IdsAreCalls
  <2>. QED
    BY <1>3, <1>4, <1>5, <1>11, <2>1 DEF LastIsCommitted
<1>9. StaleIsLinked'
  <2>1. SUFFICES ASSUME NEW k \in stale'
                 PROVE  k \in 1..n /\ issued'[k + 1].prev # SerializedHash(issued'[k])
    BY <1>4 DEF StaleIsLinked
  <2>2. CASE k \in stale
    <3>1. k \in 1..(n - 1) /\ issued[k + 1].prev # SerializedHash(issued[k])
      BY <2>2 DEF LedgerInv, StaleIsLinked
    <3>2. k \in 1..n /\ k + 1 \in 1..n
      BY <1>4, <3>1
    <3>. QED
      BY <1>4, <3>1, <3>2
  <2>3. CASE k \in Altered /\ k = Len(checkpoints)
    <3>1. k = n /\ k \in 1..n /\ checkpoints[k] # issued[k] /\ checkpoints # <<>>
      BY <1>4, <2>3 DEF LedgerInv, Altered
    <3>2. r.prev = SerializedHash(checkpoints[k])
      BY <1>1, <2>3, <3>1 DEF PreviousHash
    <3>. QED
      BY <1>4, <3>1, <3>2 DEF SerializedHash, Hash
  <2>. QED
    BY <1>2, <2>1, <2>2, <2>3
<1>10. queued' \subseteq ToSet(issued')
  BY <1>4 DEF LedgerInv, ToSet, r
<1>. QED
  BY <1>4, <1>5, <1>6, <1>7, <1>8, <1>9, <1>10, <1>12 DEF LedgerInv

LEMMA AlterKeepsInv ==
  ASSUME LedgerInv, NEW k \in 1..Len(checkpoints), NEW result, Alter(k, result)
  PROVE  LedgerInv'
<1>1. /\ UNCHANGED <<leaves, root, queued, calls, issued, stale>>
      /\ checkpoints' = [checkpoints EXCEPT ![k].result = result]
  BY DEF Alter
<1>2. /\ IsSeq(checkpoints') /\ Len(checkpoints') = Len(checkpoints)
      /\ checkpoints'[k] = [checkpoints[k] EXCEPT !.result = result]
      /\ \A j \in 1..Len(checkpoints) : j # k => checkpoints'[j] = checkpoints[j]
  <2>. DEFINE e == [checkpoints[k] EXCEPT !.result = result]
              S == {checkpoints[j] : j \in DOMAIN checkpoints} \cup {e}
  <2>1. checkpoints \in Seq(S) /\ e \in S /\ checkpoints' = [checkpoints EXCEPT ![k] = e]
    BY <1>1 DEF LedgerInv, IsSeq
  <2>. HIDE DEF e, S
  <2>2. /\ checkpoints' \in Seq(S) /\ Len(checkpoints') = Len(checkpoints)
        /\ checkpoints'[k] = e
        /\ \A j \in 1..Len(checkpoints) : j # k => checkpoints'[j] = checkpoints[j]
    BY <2>1
  <2>3. IsSeq(checkpoints')
    BY <2>2 DEF IsSeq
  <2>. QED
    BY <2>2, <2>3 DEF e
<1>3. AlteredInResult'
  <2>1. SUFFICES ASSUME NEW j \in 1..Len(issued)
                 PROVE  checkpoints'[j] = [issued[j] EXCEPT !.result = checkpoints'[j].result]
    BY <1>1 DEF AlteredInResult
  <2>2. /\ checkpoints[j] = [issued[j] EXCEPT !.result = checkpoints[j].result]
        /\ IsReceipt(issued[j]) /\ j \in 1..Len(checkpoints)
    BY DEF LedgerInv, AlteredInResult, SignedAsIssued
  <2>3. CASE j = k
    BY <1>2, <2>2, <2>3 DEF IsReceipt
  <2>4. CASE j # k
    BY <1>2, <2>2, <2>4
  <2>. QED
    BY <2>3, <2>4
<1>4. LastIsCommitted'
  BY <1>1 DEF LedgerInv, LastIsCommitted, LeafHash, LeafPayload
<1>. QED
  BY <1>1, <1>2, <1>3, <1>4 DEF LedgerInv, SignedAsIssued, IdsAreCalls, StaleIsLinked

LEMMA InvStep == LedgerInv /\ [Next]_vars => LedgerInv'
<1>. SUFFICES ASSUME LedgerInv, [Next]_vars PROVE LedgerInv'
  OBVIOUS
<1>1. ASSUME NEW result \in Results, AppendReceipt(result) \/ AppendUnqueued(result)
      PROVE  LedgerInv'
  BY <1>1, AppendKeepsInv DEF AppendReceipt, AppendUnqueued
<1>2. ASSUME NEW result \in Results, SignRaises(result)
      PROVE  LedgerInv'
  <2>1. /\ leaves' = Append(leaves, LeafHash(Linked(result))) /\ calls' = calls + 1
        /\ UNCHANGED <<checkpoints, queued, issued, stale>>
    BY <1>2 DEF SignRaises, AddLeaf
  <2>2. IsSeq(leaves')
    BY <2>1, SeqAppend DEF LedgerInv
  <2>3. IdsAreCalls' /\ LastIsCommitted'
    BY <2>1 DEF LedgerInv, IdsAreCalls, LastIsCommitted
  <2>. QED
    BY <2>1, <2>2, <2>3 DEF LedgerInv, SignedAsIssued, AlteredInResult, StaleIsLinked
<1>3. ASSUME NEW k \in 1..Len(checkpoints), NEW result \in Results, Alter(k, result)
      PROVE  LedgerInv'
  BY <1>3, AlterKeepsInv
<1>4. CASE UNCHANGED vars
  BY <1>4 DEF vars, LedgerInv, IsSeq, SignedAsIssued, AlteredInResult, LastIsCommitted,
              IdsAreCalls, StaleIsLinked
<1>. QED
  BY <1>1, <1>2, <1>3, <1>4 DEF Next

-----------------------------------------------------------------------------

\* A receipt of the ledger that has its signature is as append left it.
LEMMA SignedIsIssued ==
  ASSUME LedgerInv, NEW k \in 1..Len(checkpoints), VerifySignature(checkpoints[k])
  PROVE  checkpoints[k] = issued[k]
<1>1. /\ IsReceipt(issued[k]) /\ VerifySignature(issued[k])
      /\ checkpoints[k] = [issued[k] EXCEPT !.result = checkpoints[k].result]
  BY DEF LedgerInv, SignedAsIssued, AlteredInResult
<1>2. [issued[k] EXCEPT !.result = checkpoints[k].result] = issued[k]
  BY <1>1, SignatureFixesResult
<1>. QED
  BY <1>1, <1>2

\* A receipt that was altered does not verify, and the queue's copies stay as
\* append left them (AlteredNeverVerifies).
THEOREM AlterationIsDetected == Spec => []AlteredNeverVerifies
<1>1. LedgerInv => AlteredNeverVerifies
  BY SignedIsIssued DEF AlteredNeverVerifies, Verify, LedgerInv
<1>. QED
  BY <1>1, InvInit, InvStep, PTL DEF Spec

\* The receipt of the latest call, as append left it, verifies, whatever calls
\* before it raised (LatestVerifies).
THEOREM LatestIsVerified == Spec => []LatestVerifies
<1>1. ASSUME LedgerInv, NEW k \in 1..Len(checkpoints), issued[k].id = calls,
             checkpoints[k] = issued[k]
      PROVE  Verify(checkpoints[k])
  <2>1. k \in 1..Len(issued) /\ checkpoints[k] \in ToSet(checkpoints)
    BY <1>1 DEF LedgerInv, ToSet
  <2>. QED
    BY <1>1, <2>1 DEF LedgerInv, SignedAsIssued, LastIsCommitted, Verify
<1>2. LedgerInv => LatestVerifies
  BY <1>1 DEF LatestVerifies
<1>. QED
  BY <1>2, InvInit, InvStep, PTL DEF Spec

\* Who checks the chain and every signature of the bundle misses no alteration,
\* restored ones included (AuditFindsAlteration).
THEOREM AuditIsComplete == Spec => []AuditFindsAlteration
<1>1. ASSUME LedgerInv, Chained, \A k \in 1..Len(checkpoints) : VerifySignature(checkpoints[k])
      PROVE  checkpoints = issued /\ stale = {}
  <2>1. \A k \in 1..Len(checkpoints) : checkpoints[k] = issued[k]
    BY <1>1, SignedIsIssued
  <2>2. checkpoints = issued
    BY <1>1, <2>1, SeqEqual DEF LedgerInv
  <2>3. ASSUME NEW k \in stale PROVE FALSE
    <3>1. k \in 1..(Len(issued) - 1) /\ issued[k + 1].prev # SerializedHash(issued[k])
      BY <1>1, <2>3 DEF LedgerInv, StaleIsLinked
    <3>2. k + 1 \in 2..Len(checkpoints) /\ (k + 1) - 1 = k
      BY <1>1, <2>2, <3>1 DEF LedgerInv, IsSeq
    <3>3. checkpoints[k + 1].prev = SerializedHash(checkpoints[k])
      BY <1>1, <3>2 DEF Chained
    <3>. QED
      BY <2>2, <3>1, <3>3
  <2>. QED
    BY <2>2, <2>3
<1>2. LedgerInv => AuditFindsAlteration
  BY <1>1 DEF AuditFindsAlteration
<1>. QED
  BY <1>2, InvInit, InvStep, PTL DEF Spec

\* Whatever is appended, and whichever calls raise, the root is the one of the
\* padded tree over all leaves (RootIsTreeRoot).
THEOREM RootIsTree == Spec => []RootIsTreeRoot
<1>. DEFINE RootInv == IsSeq(leaves) /\ root = ComputeRoot(leaves)
<1>1. Init => RootInv
  BY DEF Init, IsSeq, ComputeRoot, None
<1>2. RootInv /\ [Next]_vars => RootInv'
  <2>. SUFFICES ASSUME RootInv, [Next]_vars PROVE RootInv'
    OBVIOUS
  <2>1. ASSUME NEW result, AddLeaf(Linked(result)) PROVE RootInv'
    BY <2>1, SeqAppend DEF AddLeaf
  <2>2. ASSUME UNCHANGED <<leaves, root>> PROVE RootInv'
    BY <2>2 DEF IsSeq
  <2>. HIDE DEF RootInv
  <2>. QED
    BY <2>1, <2>2 DEF Next, vars, AppendReceipt, AppendUnqueued, SignRaises, Alter
<1>3. RootInv => RootIsTreeRoot
  <2>. SUFFICES ASSUME RootInv PROVE RootIsTreeRoot
    OBVIOUS
  <2>1. leaves = [i \in 1..Len(leaves) |-> leaves[i]] /\ Len(leaves) \in Nat
    <3>. DEFINE S == {leaves[k] : k \in DOMAIN leaves}
    <3>1. leaves \in Seq(S)
      BY DEF IsSeq
    <3>. HIDE DEF S
    <3>. QED
      BY <3>1
  <2>. QED
    BY <2>1, LoopComputesTree DEF RootIsTreeRoot, IsList
<1>. QED
  BY <1>1, <1>2, <1>3, PTL DEF Spec
=============================================================================
