----------------------------- MODULE MerkleLog ------------------------------
(***************************************************************************)
(* The life of one MerkleAuditLog: receipts are appended, roots and proofs *)
(* are handed out at any time, and whoever holds them may check any proof  *)
(* against any root, long after the log has grown.                         *)
(***************************************************************************)
EXTENDS MerkleTree, FiniteSets

CONSTANTS
    Data,        \* canonical bytes of receipts
    MaxLeaves,   \* bound: receipts appended
    MaxProofs    \* bound: proofs held

ASSUME MaxLeavesAssumption == MaxLeaves \in Nat

VARIABLES
    leaves,   \* MerkleAuditLog._leaves
    tickets,  \* environment: the receipt and the index append returned for it
    roots,    \* environment: root hashes taken, each with len() at the time
    proofs    \* environment: the MerkleProof objects handed out

vars == <<leaves, tickets, roots, proofs>>

Init ==
    /\ leaves = <<>>
    /\ tickets = {}
    /\ roots = {}
    /\ proofs = {}

\* Faulty variant: the index is taken after the append.
AppendThenIndex(data) ==
    /\ Len(leaves) < MaxLeaves
    /\ leaves' = Append(leaves, HashLeaf(data))
    /\ tickets' = tickets \union {[data |-> data, index |-> Len(leaves')]}
    /\ UNCHANGED <<roots, proofs>>

\* append hashes the receipt and returns its index.
AppendReceipt(data) ==
    /\ Len(leaves) < MaxLeaves
    /\ leaves' = Append(leaves, HashLeaf(data))
    /\ tickets' = tickets \union {[data |-> data, index |-> Len(leaves)]}
    /\ UNCHANGED <<roots, proofs>>

\* Faulty variant: a cached root that the last append did not invalidate.
PublishCachedRoot ==
    /\ leaves # <<>>
    /\ roots' = roots \union
          {[size |-> Len(leaves), hash |-> TreeHash(SubSeq(leaves, 1, Len(leaves) - 1))]}
    /\ UNCHANGED <<leaves, tickets, proofs>>

\* root_hash, published with the size of the tree.
PublishRoot ==
    /\ roots' = roots \union {[size |-> Len(leaves), hash |-> TreeHash(leaves)]}
    /\ UNCHANGED <<leaves, tickets, proofs>>

\* proof: an index out of range raises IndexError and changes nothing.
IssueProof(index) ==
    /\ index < Len(leaves)
    /\ Cardinality(proofs) < MaxProofs
    /\ proofs' = proofs \union {Proof(leaves, index)}
    /\ UNCHANGED <<leaves, tickets, roots>>

Next ==
    \/ \E data \in Data : AppendReceipt(data)
    \/ PublishRoot
    \/ \E index \in 0 .. MaxLeaves - 1 : IssueProof(index)

Spec == Init /\ [][Next]_vars

-----------------------------------------------------------------------------
(* Properties. *)

Leaf == {HashLeaf(d) : d \in Data}
Prefix(n) == SubSeq(leaves, 1, n)

\* Every variable has its type, and nothing handed out is larger than the log.
TypeOK ==
    /\ leaves \in Seq(Leaf)
    /\ \A t \in tickets : t.data \in Data /\ t.index \in 0 .. Len(leaves) - 1
    /\ \A r \in roots : r.size \in 0 .. Len(leaves)
    /\ \A p \in proofs : p.tree_size \in 1 .. Len(leaves)
                         /\ p.leaf_index \in 0 .. p.tree_size - 1

\* The log is append-only towards those who hold something of it: however far it
\* has grown, each published root is still the root of as many first leaves as
\* were published with it, and each receipt still sits at the index it was given.
HistoryKept ==
    /\ \A r \in roots : r.hash = TreeHash(Prefix(r.size))
    /\ \A t \in tickets : leaves[t.index + 1] = HashLeaf(t.data)

\* A proof issued once verifies against every root published at the size it was
\* made at, before or after it, and against no other root: a holder with a stale
\* proof and a fresh root learns so, and never gets a wrong answer.
ProofsMatchRoots ==
    \A p \in proofs, r \in roots :
        VerifyProof(p, r.hash) <=> p.tree_size = r.size

\* The docstring's tamper evidence: a list of receipts that would hash to a
\* published root is, receipt by receipt, the one that was published; none was
\* changed, dropped, added or moved.
RootsAreBinding ==
    \A r \in roots, n \in 0 .. MaxLeaves :
        \A other \in [1 .. n -> Leaf] :
            TreeHash(other) = r.hash => other = Prefix(r.size)

\* Soundness for a holder of a published root who hashes the receipt and takes
\* the size from the root: with any path made of hashes the log has given out,
\* cut short or padded, a proof that verifies names the receipt's true index.
KnownHashes == UNION {{p.audit_path[i] : i \in DOMAIN p.audit_path} : p \in proofs}
Paths == UNION {[1 .. n -> KnownHashes] : n \in 0 .. 3}

NoForgedInclusion ==
    \A r \in roots, d \in Data, index \in 0 .. MaxLeaves, path \in Paths :
        VerifyProof([leaf_index |-> index, leaf_hash |-> HashLeaf(d),
                     audit_path |-> path, tree_size |-> r.size], r.hash)
            => index < r.size /\ leaves[index + 1] = HashLeaf(d)

=============================================================================
