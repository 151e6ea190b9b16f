----------------------------- MODULE AuditTrail -----------------------------
(***************************************************************************)
(* What the exchange between clients and a provider promises about calls,  *)
(* whatever happens to processes, connections and answers: a call gets at  *)
(* most one receipt, is audited at most once, and only while its caller is *)
(* waiting for it and after its receipt was issued.  A receipt may be      *)
(* issued for a call that nobody waits for any more; it is never audited.  *)
(***************************************************************************)
CONSTANT Calls

VARIABLES
    opened,     \* calls ever made
    open,       \* calls whose caller is waiting
    receipted,  \* calls for which the provider signed a receipt
    audited     \* calls whose receipt is in the caller's audit log

vars == <<opened, open, receipted, audited>>

Init ==
    /\ opened = {}
    /\ open = {}
    /\ receipted = {}
    /\ audited = {}

Open(call) ==
    /\ call \notin opened
    /\ opened' = opened \union {call}
    /\ open' = open \union {call}
    /\ UNCHANGED <<receipted, audited>>

\* A call that raises before anything is sent.
Fail(call) ==
    /\ call \notin opened
    /\ opened' = opened \union {call}
    /\ UNCHANGED <<open, receipted, audited>>

Issue(call) ==
    /\ call \in opened \ receipted
    /\ receipted' = receipted \union {call}
    /\ UNCHANGED <<opened, open, audited>>

Audit(call) ==
    /\ call \in open \intersect receipted
    /\ open' = open \ {call}
    /\ audited' = audited \union {call}
    /\ UNCHANGED <<opened, receipted>>

\* The call raises, or returns without being audited.
Close(call) ==
    /\ call \in open
    /\ open' = open \ {call}
    /\ UNCHANGED <<opened, receipted, audited>>

Next == \E call \in Calls : 
    Open(call) \/ Fail(call) \/ Issue(call) \/ Audit(call) \/ Close(call)

Spec == Init /\ [][Next]_vars

=============================================================================
