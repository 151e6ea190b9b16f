---------------------------- MODULE MCHandshake -----------------------------
(***************************************************************************)
(* Providers and offers for model checking: versions whose orders by text, *)
(* by number and by last component differ, versions spelled in two ways,   *)
(* the two-part version of the frame layer, versions withdrawn between     *)
(* deployments, repeated entries, items with commas and blanks.            *)
(***************************************************************************)
EXTENDS Handshake, TLC

C(n) == [number |-> n, written |-> "plain"]
V(a, b, c) == <<C(a), C(b), C(c)>>

\* "1.02.0", and frame.py's IRP_VERSION.
Zeros == <<C(1), [number |-> 2, written |-> "zeros"], C(0)>>
TwoPart == <<C(0), C(1)>>

E(spelling, status) == [spelling |-> spelling, status |-> status]
D(registry, capabilities) ==
    [registry |-> registry, capabilities |-> capabilities, complete |-> TRUE]

MCDeployments ==
    {D(<<E(V(0, 1, 0), "experimental")>>, {"receipts"}),
     D(<<E(V(0, 9, 1), "deprecated"), E(V(0, 10, 0), "stable"), E(V(1, 2, 0), "removed")>>,
       {"receipts", "qos"}),
     D(<<E(V(0, 9, 1), "deprecated")>>, {}),
     D(<<E(Zeros, "stable"), E(V(1, 2, 0), "stable"), E(V(1, 2, 0), "stable")>>, {"qos"}),
     D(<<E(TwoPart, "experimental"), E(V(1, 2, 0), "stable")>>, {"receipts"}),
     [D(<<>>, {}) EXCEPT !.complete = FALSE]}

O(versions, capabilities) == [versions |-> versions, capabilities |-> capabilities]

MCOffers ==
    {O(<<<<V(0, 1, 0)>>>>, <<<<"receipts">>, <<"qos">>, <<"receipts">>>>),
     O(<<<<V(0, 9, 1)>>, <<V(0, 10, 0)>>>>, <<<<"qos">>, <<"receipts">>>>),
     O(<<<<V(0, 9, 2)>>, <<V(0, 9, 1)>>, <<V(0, 9, 1)>>>>, <<<<"qos">>>>),
     O(<<<<V(1, 2, 0), Blank>>, <<Zeros>>>>, <<>>),
     O(<<<<TwoPart>>, <<V(0, 1, 0)>>>>, <<<<"receipts", "qos">>>>),
     O(<<<<Blank>>>>, <<<<Blank>>, <<"qos">>>>)}

=============================================================================
