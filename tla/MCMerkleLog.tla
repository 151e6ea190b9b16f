---------------------------- MODULE MCMerkleLog -----------------------------
(***************************************************************************)
(* The Merkle log with two kinds of receipt, so that equal leaves occur,   *)
(* and the split point compared with its specification for a first stretch *)
(* of sizes.                                                               *)
(***************************************************************************)
EXTENDS MerkleLog, TLC

DataSymmetry == Permutations(Data)

\* The comment above the computation in the code: the highest power of two
\* strictly less than n.
ASSUME SplitIsLargestPower ==
    \A n \in 2 .. 64 :
        LET k == LargestPowerOfTwoLessThan(n)
        IN (\E a \in 0 .. 6 : k = 2 ^ a) /\ k < n /\ n <= 2 * k

=============================================================================
