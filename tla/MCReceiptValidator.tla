------------------------- MODULE MCReceiptValidator -------------------------
(***************************************************************************)
(* Bodies for model checking: one honest body and bodies that differ from  *)
(* it in one respect each, so that every seal can be presented over fields *)
(* it was not made for.                                                    *)
(***************************************************************************)
EXTENDS ReceiptValidator, TLC

Plain(id, input, output) ==
    [id |-> id, origin |-> NoDetail,
     input |-> input, output |-> output, total |-> input + output,
     carried |-> NoDetail, dropped |-> NoDetail, hash |-> NoDetail]

Honest == Plain("r1", 20, 20)

MCBodies ==
    {Honest,
     [Honest EXCEPT !.origin = "x"],
     [Honest EXCEPT !.carried = "x"],
     [Honest EXCEPT !.dropped = "x"],
     [Honest EXCEPT !.hash = "x"],
     [Honest EXCEPT !.input = 21, !.total = 41],
     Plain("r2", 0, 20)}

\* Within 5% of 20, at 5%, and beyond it; nothing counted at all.
MCRecounts == {[input |-> 20, output |-> 21], [input |-> 22, output |-> 20],
               [input |-> 0, output |-> 0]}

KeySymmetry == Permutations(Keys)

=============================================================================
