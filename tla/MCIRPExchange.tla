---------------------------- MODULE MCIRPExchange ---------------------------
(***************************************************************************)
(* Requests for TLC: a text of 40 characters in five words, counted 10 by  *)
(* the server and 9 by the client, with a part of one word, which the      *)
(* server does not read and the client counts 4; one that the handler      *)
(* fails on; and one without arguments.  The canned answer, 12 tokens to   *)
(* the server, is 9 to the client: at a threshold of 25% on the boundary,  *)
(* while the request, 10 against 13, is beyond it.                         *)
(***************************************************************************)
EXTENDS IRPExchange

InWords == [kind |-> "text",
            text |-> [chars |-> 40, cjk |-> 0, words |-> 5, special |-> 0]]
InParts == [kind |-> "parts",
            parts |-> <<[chars |-> 5, cjk |-> 0, words |-> 1, special |-> 0]>>]

MCPrompts == {<<InWords, InParts>>, NullMessages, NoArguments}
MCOnePrompt == {<<InWords>>}

\* All headers arrive, or none, or all but one or two.
MCLosses == {{}, Headers, {"origin"}, {"key"}, {"input", "signature"}}
MCNoneOrAll == {{}, Headers}

MCCannedAnswer == [chars |-> 44, cjk |-> 0, words |-> 7, special |-> 1]

MCKeys == 0 .. MaxRestarts
MCIds == 1 .. MaxTotal

=============================================================================
