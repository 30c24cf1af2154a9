--------------------------- MODULE EvidenceLedger ---------------------------
(***************************************************************************)
(* One evidence ledger: receipts chained by hash, committed to by a Merkle *)
(* root, signed, kept in memory and copied to the offline queue.  Hashes   *)
(* and signatures are symbolic: a hash is the hashed value in a sequence   *)
(* of one element, and a signature is the signed value.                    *)
(*                                                                         *)
(* Signing may raise at any call, whatever the reason: the model does not  *)
(* tie it to a malformed key, which would never sign at all.               *)
(*                                                                         *)
(* The ledger hands out its own receipt objects, so whoever holds one can  *)
(* change the ledger's copy, as tests/test_ledger.py does (Alter).         *)
(***************************************************************************)
EXTENDS MerkleTree, FiniteSets

CONSTANT MaxAppends   \* bound: calls of append

ASSUME MaxAssumption == MaxAppends \in Nat

VARIABLES
  checkpoints,  \* the receipts of the ledger, in order
  leaves, root, \* its Merkle accumulator
  queued,       \* what the offline queue was given
  calls,        \* calls of append: the next receipt's id
  issued,       \* history: the receipts as append left them
  stale         \* history: receipts that were altered when the next one came

vars == <<checkpoints, leaves, root, queued, calls, issued, stale>>

Results == {"VERIFIED", "MISMATCH"}
None == <<>>
Hash(value) == <<value>>
ToSet(seq) == {seq[i] : i \in 1..Len(seq)}

LeafPayload(r) == [id |-> r.id, result |-> r.result, prev |-> r.prev]
Unsigned(r) == [r EXCEPT !.sig = None]
SignMessage(r) == <<Unsigned(r)>>
VerifySignature(r) == r.sig # None /\ r.sig = <<Unsigned(r)>>
LeafHash(r) == Hash(LeafPayload(r))

Init ==
  /\ checkpoints = <<>> /\ leaves = <<>> /\ root = None /\ queued = {}
  /\ calls = 0 /\ issued = <<>> /\ stale = {}

\* Mutant of SerializedHash: the hash covers the id and the link only.
PartialHash(r) == Hash([id |-> r.id, prev |-> r.prev])

\* All of the receipt as it is now, its signature and root included.
SerializedHash(r) == Hash(r)

PreviousHash ==
  IF checkpoints = <<>> THEN None ELSE SerializedHash(checkpoints[Len(checkpoints)])

\* The receipt append is given, linked to the one before it.
Linked(result) == [id |-> calls + 1, result |-> result, prev |-> PreviousHash,
                   root |-> None, sig |-> None]

\* Mutant of Sealed: signed before the root is put in.
SignedBeforeRoot(r) ==
  LET signed == [r EXCEPT !.sig = SignMessage(r)]
  IN  [signed EXCEPT !.root = ComputeRoot(Append(leaves, LeafHash(r)))]

\* The receipt with the new root, then signed.
Sealed(r) ==
  LET rooted == [r EXCEPT !.root = ComputeRoot(Append(leaves, LeafHash(r)))]
  IN  [rooted EXCEPT !.sig = SignMessage(rooted)]

AddLeaf(r) ==
  /\ leaves' = Append(leaves, LeafHash(r))
  /\ root' = ComputeRoot(leaves')

Altered == {k \in 1..Len(checkpoints) : checkpoints[k] # issued[k]}

Checkpoint(r) ==
  /\ checkpoints' = Append(checkpoints, Sealed(r))
  /\ issued' = Append(issued, Sealed(r))
  /\ stale' = stale \cup (Altered \cap {Len(checkpoints)})

\* append, with the queue's write going through.
AppendReceipt(result) ==
  LET r == Linked(result) IN
  /\ calls < MaxAppends
  /\ calls' = calls + 1
  /\ AddLeaf(r)
  /\ Checkpoint(r)
  /\ queued' = queued \cup {Sealed(r)}

\* The queue's write raises, or the ledger has no queue: the receipt stays in.
AppendUnqueued(result) ==
  LET r == Linked(result) IN
  /\ calls < MaxAppends
  /\ calls' = calls + 1
  /\ AddLeaf(r)
  /\ Checkpoint(r)
  /\ UNCHANGED queued

\* sign_message raises: only the leaf has been added, and it stays.
SignRaises(result) ==
  /\ calls < MaxAppends
  /\ calls' = calls + 1
  /\ AddLeaf(Linked(result))
  /\ UNCHANGED <<checkpoints, queued, issued, stale>>

\* A holder of receipt k writes its result field.
Alter(k, result) ==
  /\ checkpoints' = [checkpoints EXCEPT ![k].result = result]
  /\ UNCHANGED <<leaves, root, queued, calls, issued, stale>>

\* Mutant of Verify: only the tree and the list are consulted.
VerifyWithoutSignature(r) ==
  /\ \E k \in 1..Len(leaves) : leaves[k][1].id = r.id
  /\ root = r.root
  /\ r \in ToSet(checkpoints)

Verify(r) ==
  /\ VerifySignature(r)
  /\ LeafHash(r) \in ToSet(leaves) /\ root = r.root
  /\ r \in ToSet(checkpoints)

Next ==
  \/ \E result \in Results :
       AppendReceipt(result) \/ AppendUnqueued(result) \/ SignRaises(result)
  \/ \E k \in 1..Len(checkpoints), result \in Results : Alter(k, result)

Spec == Init /\ [][Next]_vars

-----------------------------------------------------------------------------
\* A receipt that is not as append left it does not verify, in whatever state
\* the ledger is, and the copies in the queue stay as append left them
\* (evidence_ledger.py:69-80; tests/test_ledger.py:15-17).
AlteredNeverVerifies ==
  /\ \A k \in 1..Len(checkpoints) : Verify(checkpoints[k]) => checkpoints[k] = issued[k]
  /\ queued \subseteq ToSet(issued)

\* The receipt of the latest call of append verifies unless it was altered, also
\* when the queue's write raised, an earlier call left a leaf without a receipt
\* or earlier receipts were altered (evidence_ledger.py:61-80).
LatestVerifies ==
  \A k \in 1..Len(checkpoints) :
    issued[k].id = calls /\ checkpoints[k] = issued[k] => Verify(checkpoints[k])

\* The loop that pairs up level after level has computed the root of the padded
\* binary tree over all leaves, those without a receipt included (merkle.py:11-26).
RootIsTreeRoot == root = TreeRoot(leaves)

Chained ==
  \A k \in 2..Len(checkpoints) : checkpoints[k].prev = SerializedHash(checkpoints[k - 1])

\* An auditor with the exported bundle who checks every signature and the
\* chain misses nothing: if all is well, the receipts are the issued ones and
\* none was altered at the moment its successor was linked to it, not even if
\* it was restored later (AGENT.md:27; evidence_ledger.py:62-64, 91-98).
AuditFindsAlteration ==
  (Chained /\ \A k \in 1..Len(checkpoints) : VerifySignature(checkpoints[k]))
    => checkpoints = issued /\ stale = {}

\* "every receipt to be valid" (README.md:45), and a receipt that does not
\* verify is shown as TAMPER DETECTED (streamlit_app.py:243-245): a receipt
\* nobody altered verifies.
UnalteredVerifies ==
  \A k \in 1..Len(checkpoints) : checkpoints[k] = issued[k] => Verify(checkpoints[k])
=============================================================================
