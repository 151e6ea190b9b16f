----------------------------- MODULE MerkleTree -----------------------------
(***************************************************************************)
(* The tree functions of MerkleAuditLog: the root of a list of leaf        *)
(* hashes, the audit path of a leaf, and the verification of a proof.      *)
(* Hashes are terms, so two of them are equal exactly when they were made  *)
(* from equal parts by the same of the three constructors: collisions of   *)
(* SHA-256 are left out, the domain separation of the prefixes is not.     *)
(*                                                                         *)
(* A slice of the leaf list, which the code copies, is the number of its   *)
(* leaves and the index of its first.  Each recursion is over the number,  *)
(* and its value at a number is a function of the rest.                    *)
(***************************************************************************)
EXTENDS Integers, Sequences

EmptyHash == <<"empty">>                          \* SHA256(b"")
HashLeaf(data) == <<"leaf", data>>                \* SHA256(0x00 || data)
HashNode(left, right) == <<"node", left, right>>  \* SHA256(0x01 || left || right)

\* 1 << (n.bit_length() - 1), for n > 0.
HighestBit[n \in Nat] == IF n <= 1 THEN n ELSE 2 * HighestBit[n \div 2]

\* _largest_power_of_two_less_than, for n >= 2.
LargestPowerOfTwoLessThan(n) ==
    LET k == HighestBit[n] IN IF k = n THEN k \div 2 ELSE k

\* Faulty variant: halves of equal length, which lose the last of an odd number.
SliceHashOfHalves(leaves) ==
    LET hash[n \in Nat] == [start \in Nat |->
            IF n = 0 THEN EmptyHash
            ELSE IF n = 1 THEN leaves[start + 1]
            ELSE HashNode(hash[n \div 2][start], hash[n \div 2][start + n \div 2])]
    IN hash

\* The hashes of the slices of a list, by number of leaves and first index.
SliceHash(leaves) ==
    LET hash[n \in Nat] == [start \in Nat |->
            IF n = 0 THEN EmptyHash
            ELSE IF n = 1 THEN leaves[start + 1]
            ELSE LET k == LargestPowerOfTwoLessThan(n)
                 IN HashNode(hash[k][start], hash[n - k][start + k])]
    IN hash

\* _merkle_tree_hash of a list of leaf hashes.
TreeHash(leaves) == SliceHash(leaves)[Len(leaves)][0]

\* The sibling hashes, deepest first, of the leaf at an index of the list, in
\* the slices that it lies in.
SlicePath(leaves, index) ==
    LET path[n \in Nat] == [start \in Nat |->
            IF n <= 1 THEN <<>>
            ELSE LET k == LargestPowerOfTwoLessThan(n)
                 IN IF index - start < k
                    THEN Append(path[k][start], SliceHash(leaves)[n - k][start + k])
                    ELSE Append(path[n - k][start + k], SliceHash(leaves)[k][start])]
    IN path

\* _path of the whole list.
AuditPath(leaves, index) == SlicePath(leaves, index)[Len(leaves)][0]

\* Faulty variant: the index counted from one.
ProofFromOne(leaves, index) ==
    [leaf_index |-> index + 1, leaf_hash |-> leaves[index + 1],
     audit_path |-> AuditPath(leaves, index), tree_size |-> Len(leaves)]

\* proof, for an index in range.
Proof(leaves, index) ==
    [leaf_index |-> index, leaf_hash |-> leaves[index + 1],
     audit_path |-> AuditPath(leaves, index), tree_size |-> Len(leaves)]

\* _verify, by size and index in the tree: the root rebuilt from a leaf and a
\* path, and the number of path entries used; a path that runs out yields no root.
NoRoot == <<"none">>

Rebuild(leaf, path) ==
    LET rebuild[n \in Nat] == [m \in Nat |->
            IF n <= 1 THEN [root |-> leaf, used |-> 0]
            ELSE LET k == LargestPowerOfTwoLessThan(n)
                     sub == IF m < k THEN rebuild[k][m] ELSE rebuild[n - k][m - k]
                     sibling == path[sub.used + 1]
                 IN IF sub.root = NoRoot \/ sub.used >= Len(path)
                    THEN [root |-> NoRoot, used |-> sub.used]
                    ELSE [root |-> IF m < k THEN HashNode(sub.root, sibling)
                                            ELSE HashNode(sibling, sub.root),
                          used |-> sub.used + 1]]
    IN rebuild

\* Faulty variant: the index is not held against the size.
VerifyProofUnranged(proof, root) ==
    /\ proof.tree_size > 0
    /\ LET rebuilt == Rebuild(proof.leaf_hash, proof.audit_path)
                          [proof.tree_size][proof.leaf_index]
       IN /\ rebuilt.used = Len(proof.audit_path)
          /\ rebuilt.root = root

\* verify_proof.
VerifyProof(proof, root) ==
    /\ proof.tree_size > 0
    /\ proof.leaf_index \in 0 .. proof.tree_size - 1
    /\ LET rebuilt == Rebuild(proof.leaf_hash, proof.audit_path)
                          [proof.tree_size][proof.leaf_index]
       IN /\ rebuilt.root # NoRoot
          /\ rebuilt.used = Len(proof.audit_path)
          /\ rebuilt.root = root

=============================================================================
