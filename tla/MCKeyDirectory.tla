--------------------------- MODULE MCKeyDirectory ---------------------------
(***************************************************************************)
(* One body for all receipts: what tells them apart is the key they were   *)
(* signed with.                                                            *)
(***************************************************************************)
EXTENDS KeyDirectory, TLC

MCBody ==
    [id |-> "r", origin |-> NoDetail, input |-> 1, output |-> 1, total |-> 2,
     carried |-> NoDetail, dropped |-> NoDetail, hash |-> NoDetail]

KeySymmetry == Permutations(Keys) \union Permutations(Kids)

=============================================================================
