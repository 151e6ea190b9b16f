-------------------------- MODULE IRPExchangeProofs -------------------------
(***************************************************************************)
(* The exchange of any number of clients with the server implements the    *)
(* audit trail, each client's log holds its own calls, and every variable  *)
(* keeps its type.                                                         *)
(***************************************************************************)
EXTENDS IRPExchange, OrderLemmas, TLAPS

\* What the server answers with, its id being n.
Answered(n, origin, input, total, detail, signature) ==
    [body |-> [id |-> n, origin |-> origin, input |-> input, output |-> 12, total |-> total,
               carried |-> detail, dropped |-> detail, hash |-> NoDetail],
     signature |-> signature, hasKey |-> TRUE]

IsReceipt(r, n) ==
    \E origin, input, total, detail, signature :
        r = Answered(n, origin, input, total, detail, signature)

\* A total that is replaced changes nothing but the total.
LEMMA PostInitKeepsId ==
    ASSUME NEW b, "id" \in DOMAIN b
    PROVE  PostInit(b).id = b.id
BY DEF PostInit

\* The id of a receipt rebuilt from headers is that of the one sent.
LEMMA FromHeadersKeepsId ==
    ASSUME NEW r, NEW lost
    PROVE  FromHeaders(r, lost).body.id = r.body.id
<1>1. PICK origin, input, output, total, carried :
        FromHeaders(r, lost).body =
            PostInit([id |-> r.body.id, origin |-> origin, input |-> input,
                      output |-> output, total |-> total, carried |-> carried,
                      dropped |-> NoDetail, hash |-> NoDetail])
  BY DEF FromHeaders
<1>2. PICK b : b = [id |-> r.body.id, origin |-> origin, input |-> input,
                    output |-> output, total |-> total, carried |-> carried,
                    dropped |-> NoDetail, hash |-> NoDetail]
  OBVIOUS
<1>3. "id" \in DOMAIN b /\ b.id = r.body.id
  BY <1>2
<1> QED
  BY <1>1, <1>2, <1>3, PostInitKeepsId

\* One rebuilt from the usage has an id of its own, of the same issue.
LEMMA FromUsageKeepsIssue ==
    ASSUME NEW r, NEW n \in Nat, IsReceipt(r, n)
    PROVE  FromUsage([r.body EXCEPT !.id = -@]).body.id = -n
<1>1. PICK o, i, t, d, s : r = Answered(n, o, i, t, d, s)
  BY DEF IsReceipt
<1>2. r.body = [id |-> n, origin |-> o, input |-> i, output |-> 12, total |-> t,
                carried |-> d, dropped |-> d, hash |-> NoDetail]
  BY <1>1 DEF Answered
<1> DEFINE u == [r.body EXCEPT !.id = -@]
           b == [u EXCEPT !.origin = NoDetail, !.carried = NoDetail,
                          !.dropped = NoDetail, !.hash = NoDetail]
<1>3. u.id = -n /\ "id" \in DOMAIN u
  BY <1>2
<1> HIDE DEF u
<1>4. b.id = -n /\ "id" \in DOMAIN b
  BY <1>3
<1> HIDE DEF b
<1>5. PostInit(b).id = -n
  BY <1>4, PostInitKeepsId
<1>6. FromUsage(u).body = PostInit(b)
  BY DEF FromUsage, b
<1> QED
  BY <1>5, <1>6 DEF u

LEMMA AbsOfEither == \A n \in Nat : Abs(n) = n /\ Abs(-n) = n
BY DEF Abs

LEMMA IssuedIsReceipt ==
    ASSUME NEW n, NEW p
    PROVE  IsReceipt(IssuedReceipt(n, p), n)
BY DEF IsReceipt, Answered, IssuedReceipt

\* However the receipt is rebuilt, its id is of the same issue.
LEMMA RebuiltKeepsIssue ==
    ASSUME NEW r, NEW n \in Nat, IsReceipt(r, n), NEW lost
    PROVE  Abs(Rebuilt(r, lost).body.id) = n
<1>1. r.body.id = n
  BY DEF IsReceipt, Answered
<1>2. CASE "id" \in lost
  <2>1. Rebuilt(r, lost) = FromUsage([r.body EXCEPT !.id = -@])
    BY <1>2 DEF Rebuilt
  <2> QED
    BY <2>1, FromUsageKeepsIssue, AbsOfEither
<1>3. CASE "id" \notin lost
  <2>1. Rebuilt(r, lost) = FromHeaders(r, lost)
    BY <1>3 DEF Rebuilt
  <2> QED
    BY <1>1, <2>1, FromHeadersKeepsId, AbsOfEither
<1> QED
  BY <1>2, <1>3

-----------------------------------------------------------------------------
(* Sequences whose elements have no type of their own. *)

IsSeq(s) == \E S : s \in Seq(S)

LEMMA SeqFacts ==
    ASSUME NEW s, IsSeq(s)
    PROVE  Len(s) \in Nat /\ DOMAIN s = 1 .. Len(s)
BY DEF IsSeq

LEMMA AppendAny ==
    ASSUME NEW s, NEW e, IsSeq(s)
    PROVE  /\ IsSeq(Append(s, e)) /\ Len(Append(s, e)) = Len(s) + 1
           /\ \A i \in 1 .. Len(s) : Append(s, e)[i] = s[i]
           /\ Append(s, e)[Len(s) + 1] = e
<1>1. PICK S : s \in Seq(S)
  BY DEF IsSeq
<1> DEFINE T == S \union {e}
<1>2. s \in Seq(T) /\ e \in T
  BY <1>1
<1> HIDE DEF T
<1>3. Append(s, e) \in Seq(T)
  BY <1>2
<1> QED
  BY <1>2, <1>3 DEF IsSeq

-----------------------------------------------------------------------------
(* The inductive invariant. *)

Phases == {"new", "discovered", "idle", "waiting", "closed"}

Shapes ==
    /\ backlog \in Seq(Call) /\ serving \in Call \union {NoCall}
    /\ IsSeq(issued) /\ \A n \in 1 .. Len(issued) : issued[n].call \in Call
    /\ phase \in [Clients -> Phases] /\ validating \in [Clients -> BOOLEAN]
    /\ requests \in [Clients -> Seq(Prompts)]
    /\ \E T : answer \in [Clients -> T]
    /\ \E T : auditLog \in [Clients -> T]
    /\ \A c \in Clients : IsSeq(auditLog[c])
    /\ raised \subseteq Call

\* A call that has been made, and one that has come to its end.
Begun(k) == k.number <= Len(requests[k.client])
Ended(k) == k.number < Len(requests[k.client]) \/ phase[k.client] # "waiting"

\* Every place holds calls that have been made.
Known ==
    /\ serving # NoCall => Begun(serving)
    /\ \A j \in 1 .. Len(backlog) : Begun(backlog[j])
    /\ \A n \in 1 .. Len(issued) : Begun(issued[n].call)
    /\ \A k \in raised : Begun(k) /\ Ended(k)
    /\ \A c \in Clients : Len(requests[c]) <= MaxCalls
    /\ \A c \in Clients : phase[c] = "waiting" => Len(requests[c]) > 0
    /\ \A c \in Clients : phase[c] \in {"new", "discovered"} =>
            requests[c] = <<>> /\ auditLog[c] = <<>>

\* A caller's calls pass through the server in the order they were made.
Precedes(k, l) == k.client = l.client => k.number < l.number

Ordered ==
    /\ \A m, n \in 1 .. Len(issued) : m < n => Precedes(issued[m].call, issued[n].call)
    /\ \A i, j \in 1 .. Len(backlog) : i < j => Precedes(backlog[i], backlog[j])
    /\ \A n \in 1 .. Len(issued), j \in 1 .. Len(backlog) :
            Precedes(issued[n].call, backlog[j])
    /\ serving # NoCall =>
            /\ \A n \in 1 .. Len(issued) : Precedes(issued[n].call, serving)
            /\ \A j \in 1 .. Len(backlog) : Precedes(serving, backlog[j])

\* An answer is the receipt issued for the call its client waits for.
Answers ==
    \A c \in Clients : answer[c] # NoAnswer =>
        /\ phase[c] = "waiting"
        /\ \E n \in 1 .. Len(issued) :
            issued[n].call = CurrentCall(c) /\ IsReceipt(answer[c], n)

IssueNumber(c, i) == Abs(auditLog[c][i].id)

\* What is audited was issued for a call of that client which did not raise.
Audits ==
    \A c \in Clients : \A i \in 1 .. Len(auditLog[c]) :
        /\ IssueNumber(c, i) \in 1 .. Len(issued)
        /\ issued[IssueNumber(c, i)].call.client = c
        /\ issued[IssueNumber(c, i)].call \notin raised
        /\ Ended(issued[IssueNumber(c, i)].call)
        /\ \A j \in 1 .. i - 1 : IssueNumber(c, j) < IssueNumber(c, i)

AuditedIn(c, k) ==
    \E i \in 1 .. Len(auditLog[c]) : issued[IssueNumber(c, i)].call = k

\* What has ended at a validating client is audited or raised, unless it had no
\* arguments.
Returned ==
    \A k \in Call :
        k.client \in Clients /\ validating[k.client] /\ Begun(k) /\ Ended(k) =>
            k \in raised \/ Sent(k) = NoArguments \/ AuditedIn(k.client, k)

Inv == Shapes /\ Known /\ Ordered /\ Answers /\ Audits /\ Returned

LEMMA CallFacts ==
    /\ \A k \in Call : k.client \in Clients /\ k.number \in 1 .. MaxCalls
                        /\ k = [client |-> k.client, number |-> k.number]
    /\ \A c \in Clients : CurrentCall(c).client = c
                        /\ CurrentCall(c).number = Len(requests[c])
BY DEF Call, CurrentCall

LEMMA InvInit == Init => Inv
<1> SUFFICES ASSUME Init PROVE Inv
  OBVIOUS
<1>1. /\ server = "stopped" /\ backlog = <<>> /\ serving = NoCall /\ issued = <<>>
      /\ phase = [c \in Clients |-> "new"] /\ validating = [c \in Clients |-> FALSE]
      /\ requests = [c \in Clients |-> <<>>]
      /\ answer = [c \in Clients |-> NoAnswer] /\ auditLog = [c \in Clients |-> <<>>]
      /\ raised = {} /\ MaxCalls >= 0
  BY BoundsAssumption DEF Init
<1>2. Shapes
  <2>1. IsSeq(<<>>)
    BY DEF IsSeq
  <2>2. answer \in [Clients -> {NoAnswer}] /\ auditLog \in [Clients -> {<<>>}]
    BY <1>1
  <2>3. (\E T : answer \in [Clients -> T]) /\ (\E T : auditLog \in [Clients -> T])
    BY <2>2
  <2>4. \A c \in Clients : IsSeq(auditLog[c])
    BY <1>1, <2>1
  <2> QED
    BY <1>1, <2>1, <2>3, <2>4 DEF Shapes, Phases
<1>3. Known /\ Ordered /\ Answers /\ Audits
  BY <1>1 DEF Known, Ordered, Answers, Audits
<1>4. Returned
  BY <1>1, CallFacts DEF Returned, Begun
<1> QED
  BY <1>2, <1>3, <1>4 DEF Inv

-----------------------------------------------------------------------------
(* The steps of the server. *)

LEMMA Quiet ==
    ASSUME Inv,
           UNCHANGED <<backlog, serving, issued, phase, validating, requests, answer,
                       auditLog, raised>>
    PROVE  Inv'
<1>1. Shapes'
  BY DEF Inv, Shapes
<1>2. Known' /\ Ordered'
  BY DEF Inv, Known, Ordered, Begun, Ended
<1>3. Answers' /\ Audits' /\ Returned'
  BY DEF Inv, Answers, Audits, Returned, Begun, Ended, IssueNumber, AuditedIn, CurrentCall, Sent
<1> QED
  BY <1>1, <1>2, <1>3 DEF Inv

\* The client's part of the invariant depends on the client and on issued.
LEMMA ServerOnly ==
    ASSUME Inv, UNCHANGED <<issued, phase, validating, requests, answer, auditLog, raised>>
    PROVE  Answers' /\ Audits' /\ Returned'
BY DEF Inv, Answers, Audits, Returned, Begun, Ended, IssueNumber, AuditedIn, CurrentCall, Sent

\* Connections that are dropped leave the others in their order.
LEMMA DropStep ==
    ASSUME Inv, UNCHANGED <<issued, phase, validating, requests, answer, auditLog, raised>>,
           serving' = NoCall, backlog' \in {<<>>, backlog}
    PROVE  Inv'
<1>1. Shapes'
  <2>1. backlog' \in Seq(Call)
    <3>1. backlog \in Seq(Call) /\ <<>> \in Seq(Call)
      BY DEF Inv, Shapes
    <3> QED
      BY <3>1
  <2> QED
    BY <2>1 DEF Inv, Shapes
<1>2. Known'
  BY DEF Inv, Known, Begun, Ended
<1>3. Ordered'
  BY DEF Inv, Ordered
<1> QED
  BY <1>1, <1>2, <1>3, ServerOnly DEF Inv

LEMMA AcceptStep ==
    ASSUME Inv, Accept
    PROVE  Inv'
<1>1. /\ serving' = Head(backlog) /\ backlog' = Tail(backlog) /\ backlog # <<>>
      /\ UNCHANGED <<issued, phase, validating, requests, answer, auditLog, raised>>
  BY DEF Accept, clientVars
<1>2. backlog \in Seq(Call)
  BY DEF Inv, Shapes
<1>3. /\ Len(backlog) \in Nat /\ Len(backlog) > 0
      /\ backlog' \in Seq(Call) /\ Len(backlog') = Len(backlog) - 1
      /\ serving' = backlog[1] /\ backlog[1] \in Call
      /\ \A j \in 1 .. Len(backlog') : backlog'[j] = backlog[j + 1]
  BY <1>1, <1>2
<1>4. ASSUME NEW j \in 1 .. Len(backlog')
      PROVE  j + 1 \in 1 .. Len(backlog) /\ 1 < j + 1 /\ backlog'[j] = backlog[j + 1]
  BY <1>3
<1>5. Shapes'
  BY <1>1, <1>3 DEF Inv, Shapes
<1>6. Known'
  <2>1. 1 \in 1 .. Len(backlog)
    BY <1>3
  <2>2. Begun(backlog[1]) /\ \A j \in 1 .. Len(backlog') : Begun(backlog'[j])
    BY <1>4, <2>1 DEF Inv, Known
  <2> QED
    BY <1>1, <1>3, <2>2 DEF Inv, Known, Begun, Ended
<1>7. Ordered'
  <2>1. 1 \in 1 .. Len(backlog)
    BY <1>3
  <2>2. ASSUME NEW i \in 1 .. Len(backlog'), NEW j \in 1 .. Len(backlog'), i < j
        PROVE  Precedes(backlog'[i], backlog'[j])
    <3>1. /\ i + 1 \in 1 .. Len(backlog) /\ j + 1 \in 1 .. Len(backlog) /\ i + 1 < j + 1
          /\ backlog'[i] = backlog[i + 1] /\ backlog'[j] = backlog[j + 1]
      BY <1>4, <2>2
    <3> QED
      BY <3>1 DEF Inv, Ordered
  <2>3. ASSUME NEW n \in 1 .. Len(issued), NEW j \in 1 .. Len(backlog')
        PROVE  Precedes(issued[n].call, backlog'[j])
    BY <1>4 DEF Inv, Ordered
  <2>4. ASSUME NEW j \in 1 .. Len(backlog')
        PROVE  Precedes(serving', backlog'[j])
    BY <1>3, <1>4, <2>1 DEF Inv, Ordered
  <2>5. ASSUME NEW n \in 1 .. Len(issued)
        PROVE  Precedes(issued[n].call, serving')
    BY <1>3, <2>1 DEF Inv, Ordered
  <2>6. \A m, n \in 1 .. Len(issued) : m < n => Precedes(issued[m].call, issued[n].call)
    BY DEF Inv, Ordered
  <2>7. issued' = issued
    BY <1>1
  <2> QED
    BY <2>2, <2>3, <2>4, <2>5, <2>6, <2>7 DEF Ordered
<1> QED
  BY <1>1, <1>5, <1>6, <1>7, ServerOnly DEF Inv

LEMMA HandleChatStep ==
    ASSUME Inv, HandleChat
    PROVE  Inv'
<1> DEFINE n == Len(issued) + 1
<1>1. PICK p, new :
        /\ serving # NoCall /\ issued' = Append(issued, new) /\ new.call = serving
        /\ answer' = IF Waiting(serving)
                     THEN [answer EXCEPT ![serving.client] = IssuedReceipt(n, p)] ELSE answer
        /\ serving' = NoCall
  BY DEF HandleChat
<1>2. UNCHANGED <<backlog, phase, validating, requests, auditLog, raised>>
  BY DEF HandleChat, clientVars
<1>3. /\ serving \in Call /\ IsSeq(issued) /\ Len(issued) \in Nat
      /\ \A m \in 1 .. Len(issued) : issued[m].call \in Call
  BY <1>1, SeqFacts DEF Inv, Shapes
<1>4. /\ IsSeq(issued') /\ Len(issued') = n
      /\ \A m \in 1 .. Len(issued) : issued'[m] = issued[m]
      /\ issued'[n].call = serving
  BY <1>1, <1>3, AppendAny
<1> HIDE DEF n
<1>5. n \in Nat /\ \A m \in 1 .. n : m \in 1 .. Len(issued) \/ m = n
  BY <1>3 DEF n
<1>6. 1 .. Len(issued) \subseteq 1 .. Len(issued') /\ n \in 1 .. Len(issued')
  BY <1>3, <1>4 DEF n
<1>7. \A m \in 1 .. Len(issued') :
          (m \in 1 .. Len(issued) /\ issued'[m] = issued[m])
            \/ (m = n /\ issued'[m].call = serving)
  BY <1>4, <1>5
<1>8. Shapes'
  <2>1. \A m \in 1 .. Len(issued') : issued'[m].call \in Call
    BY <1>3, <1>7
  <2>2. \E T : answer' \in [Clients -> T]
    <3>1. PICK T : answer \in [Clients -> T]
      BY DEF Inv, Shapes
    <3>2. answer' \in [Clients -> T \union {IssuedReceipt(n, p)}]
      BY <1>1, <3>1 DEF n
    <3> QED
      BY <3>2
  <2> QED
    BY <1>1, <1>2, <1>4, <2>1, <2>2 DEF Inv, Shapes
<1>9. Known'
  <2>1. \A m \in 1 .. Len(issued') : Begun(issued'[m].call)
    BY <1>1, <1>7 DEF Inv, Known
  <2> QED
    BY <1>1, <1>2, <2>1 DEF Inv, Known, Begun, Ended
<1>10. Ordered'
  <2>1. ASSUME NEW i \in 1 .. Len(issued'), NEW j \in 1 .. Len(issued'), i < j
        PROVE  Precedes(issued'[i].call, issued'[j].call)
    <3>1. i \in 1 .. Len(issued) /\ issued'[i] = issued[i]
      BY <1>3, <1>4, <1>7, <2>1 DEF n
    <3>2. CASE j \in 1 .. Len(issued) /\ issued'[j] = issued[j]
      BY <2>1, <3>1, <3>2 DEF Inv, Ordered
    <3>3. CASE j = n /\ issued'[j].call = serving
      BY <1>1, <3>1, <3>3 DEF Inv, Ordered
    <3> QED
      BY <1>7, <3>2, <3>3
  <2>2. ASSUME NEW i \in 1 .. Len(issued'), NEW j \in 1 .. Len(backlog)
        PROVE  Precedes(issued'[i].call, backlog[j])
    BY <1>1, <1>7 DEF Inv, Ordered
  <2> QED
    BY <1>1, <1>2, <2>1, <2>2 DEF Inv, Ordered
<1>11. Answers'
  <2>1. ASSUME NEW c \in Clients, answer'[c] # NoAnswer
        PROVE  /\ phase[c] = "waiting"
               /\ \E m \in 1 .. Len(issued') :
                    issued'[m].call = CurrentCall(c) /\ IsReceipt(answer'[c], m)
    <3>1. CASE Waiting(serving) /\ c = serving.client
      <4>1. phase[c] = "waiting" /\ serving = CurrentCall(c)
        BY <3>1 DEF Waiting
      <4>2. answer'[c] = IssuedReceipt(n, p)
        BY <1>1, <3>1 DEF Inv, Shapes, n
      <4> QED
        BY <1>4, <1>6, <4>1, <4>2, IssuedIsReceipt
    <3>2. CASE ~(Waiting(serving) /\ c = serving.client)
      <4>1. answer'[c] = answer[c]
        BY <1>1, <3>2 DEF Inv, Shapes
      <4> QED
        BY <1>4, <1>6, <2>1, <4>1 DEF Inv, Answers
    <3> QED
      BY <3>1, <3>2
  <2> QED
    BY <1>2, <2>1 DEF Answers, CurrentCall
<1>12. Audits'
  <2>1. ASSUME NEW c \in Clients, NEW i \in 1 .. Len(auditLog[c])
        PROVE  /\ IssueNumber(c, i) \in 1 .. Len(issued')
               /\ issued'[IssueNumber(c, i)].call.client = c
               /\ issued'[IssueNumber(c, i)].call \notin raised
               /\ Ended(issued'[IssueNumber(c, i)].call)
               /\ \A j \in 1 .. i - 1 : IssueNumber(c, j) < IssueNumber(c, i)
    BY <1>4, <1>6 DEF Inv, Audits
  <2>2. auditLog' = auditLog /\ raised' = raised /\ requests' = requests /\ phase' = phase
    BY <1>2
  <2>3. \A c, i : IssueNumber(c, i)' = IssueNumber(c, i)
    BY <2>2 DEF IssueNumber
  <2>4. \A k : Ended(k)' <=> Ended(k)
    BY <2>2 DEF Ended
  <2> QED
    BY <2>1, <2>2, <2>3, <2>4 DEF Audits
<1>13. Returned'
  <2>1. ASSUME NEW k \in Call, k.client \in Clients, AuditedIn(k.client, k)
        PROVE  \E i \in 1 .. Len(auditLog[k.client]) :
                    issued'[IssueNumber(k.client, i)].call = k
    BY <1>4, <2>1 DEF Inv, Audits, AuditedIn
  <2> QED
    BY <1>2, <2>1 DEF Inv, Returned, Begun, Ended, AuditedIn, IssueNumber, Sent
<1> QED
  BY <1>8, <1>9, <1>10, <1>11, <1>12, <1>13 DEF Inv

-----------------------------------------------------------------------------
(* The steps of a client. *)

LEMMA ClientFacts ==
    ASSUME Inv, NEW c \in Clients
    PROVE  /\ phase \in [Clients -> Phases] /\ requests \in [Clients -> Seq(Prompts)]
           /\ Len(requests[c]) \in Nat /\ Len(requests[c]) <= MaxCalls
           /\ MaxCalls \in Nat
           /\ phase[c] = "waiting" => CurrentCall(c) \in Call /\ Begun(CurrentCall(c))
           /\ phase[c] = "waiting" => ~Ended(CurrentCall(c))
<1>1. /\ phase \in [Clients -> Phases] /\ requests \in [Clients -> Seq(Prompts)]
      /\ Len(requests[c]) \in Nat /\ MaxCalls \in Nat
  BY BoundsAssumption DEF Inv, Shapes
<1>2. /\ Len(requests[c]) <= MaxCalls
      /\ phase[c] = "waiting" => Len(requests[c]) > 0
  BY DEF Inv, Known
<1> QED
  BY <1>1, <1>2 DEF CurrentCall, Call, Begun, Ended

\* A client that waits neither before nor after the step.
LEMMA PhaseStep ==
    ASSUME Inv, NEW c \in Clients, NEW x \in Phases, x # "waiting", phase[c] # "waiting",
           phase' = [phase EXCEPT ![c] = x],
           UNCHANGED <<backlog, serving, issued, requests, answer, auditLog, raised>>,
           x \in {"new", "discovered"} => requests[c] = <<>> /\ auditLog[c] = <<>>,
           validating' \in [Clients -> BOOLEAN],
           \A d \in Clients : validating'[d] = validating[d] \/ requests[d] = <<>>
    PROVE  Inv'
<1>1. phase \in [Clients -> Phases] /\ requests \in [Clients -> Seq(Prompts)]
  BY DEF Inv, Shapes
<1>2. /\ phase' \in [Clients -> Phases] /\ phase'[c] = x
      /\ \A d \in Clients : d # c => phase'[d] = phase[d]
  BY <1>1
<1>3. \A d \in Clients : phase'[d] = "waiting" <=> phase[d] = "waiting"
  BY <1>2
<1>4. \A k \in Call : /\ Begun(k)' <=> Begun(k)
                      /\ Ended(k)' <=> Ended(k)
  BY <1>3, CallFacts DEF Begun, Ended
<1>5. Shapes'
  BY <1>2 DEF Inv, Shapes
<1>6. Known'
  <2>1. \A d \in Clients : phase'[d] \in {"new", "discovered"} =>
            requests[d] = <<>> /\ auditLog[d] = <<>>
    BY <1>2 DEF Inv, Known
  <2>2. \A k \in raised : Begun(k)' /\ Ended(k)'
    BY <1>4 DEF Inv, Known, Shapes
  <2> QED
    BY <1>3, <2>1, <2>2 DEF Inv, Known, Begun
<1>7. Ordered'
  BY DEF Inv, Ordered
<1>8. Answers'
  BY <1>3 DEF Inv, Answers, CurrentCall
<1>9. Audits'
  <2>1. \A d, i : IssueNumber(d, i)' = IssueNumber(d, i)
    BY DEF IssueNumber
  <2>2. ASSUME NEW d \in Clients, NEW i \in 1 .. Len(auditLog[d])
        PROVE  Ended(issued[IssueNumber(d, i)].call)'
    <3>1. issued[IssueNumber(d, i)].call \in Call /\ Ended(issued[IssueNumber(d, i)].call)
      BY DEF Inv, Shapes, Audits
    <3>2. PICK k \in Call : k = issued[IssueNumber(d, i)].call
      BY <3>1
    <3>3. Ended(k)'
      BY <1>4, <3>1, <3>2
    <3> QED
      BY <2>1, <3>2, <3>3 DEF Ended
  <2> QED
    BY <2>1, <2>2 DEF Inv, Audits
<1>10. Returned'
  <2>1. \A k \in Call : Begun(k) => requests[k.client] # <<>>
    BY <1>1, CallFacts DEF Begun
  <2>2. \A k : AuditedIn(k.client, k)' <=> AuditedIn(k.client, k)
    BY DEF AuditedIn, IssueNumber
  <2> QED
    BY <1>4, <2>1, <2>2 DEF Inv, Returned, Sent
<1> QED
  BY <1>5, <1>6, <1>7, <1>8, <1>9, <1>10 DEF Inv

LEMMA DiscoverStep == ASSUME Inv, NEW c \in Clients, Discover(c) PROVE Inv'
<1>1. /\ phase[c] = "new" /\ phase' = [phase EXCEPT ![c] = "discovered"]
      /\ UNCHANGED <<backlog, serving, issued, requests, answer, auditLog, raised, validating>>
  BY DEF Discover, serverVars
<1>2. requests[c] = <<>> /\ auditLog[c] = <<>> /\ validating \in [Clients -> BOOLEAN]
  BY <1>1 DEF Inv, Known, Shapes
<1> QED
  BY <1>1, <1>2, PhaseStep DEF Phases

LEMMA ConstructStep == ASSUME Inv, NEW c \in Clients, Construct(c) PROVE Inv'
<1>1. /\ phase[c] = "discovered" /\ phase' = [phase EXCEPT ![c] = "idle"]
      /\ UNCHANGED <<backlog, serving, issued, requests, answer, auditLog, raised>>
  BY DEF Construct, serverVars
<1>2. PICK b \in BOOLEAN : validating' = [validating EXCEPT ![c] = b]
  BY DEF Construct
<1>3. requests[c] = <<>> /\ validating \in [Clients -> BOOLEAN]
  BY <1>1 DEF Inv, Known, Shapes
<1>4. /\ validating' \in [Clients -> BOOLEAN]
      /\ \A d \in Clients : validating'[d] = validating[d] \/ requests[d] = <<>>
  BY <1>2, <1>3
<1> QED
  BY <1>1, <1>4, PhaseStep DEF Phases

LEMMA CloseStep == ASSUME Inv, NEW c \in Clients, Close(c) PROVE Inv'
<1>1. /\ phase[c] = "idle" /\ phase' = [phase EXCEPT ![c] = "closed"]
      /\ UNCHANGED <<backlog, serving, issued, requests, answer, auditLog, raised, validating>>
  BY DEF Close, serverVars
<1>2. validating \in [Clients -> BOOLEAN]
  BY DEF Inv, Shapes
<1> QED
  BY <1>1, <1>2, PhaseStep DEF Phases

\* A new call is none of those made before, and disturbs none of them.
LEMMA NewCall ==
    ASSUME Inv, NEW c \in Clients, NEW p \in Prompts, MayCall(c),
           phase[c] \in {"idle", "closed"}, phase'[c] \in {"waiting", "closed"},
           phase' \in [Clients -> Phases],
           \A d \in Clients : d # c => phase'[d] = phase[d],
           requests' = [requests EXCEPT ![c] = Append(@, p)]
    PROVE  /\ requests' \in [Clients -> Seq(Prompts)]
           /\ Len(requests'[c]) = Len(requests[c]) + 1
           /\ Len(requests'[c]) <= MaxCalls
           /\ \A d \in Clients : d # c => requests'[d] = requests[d]
           /\ CurrentCall(c)' \in Call /\ ~Begun(CurrentCall(c)')
           /\ CurrentCall(c)' = [client |-> c, number |-> Len(requests[c]) + 1]
           /\ \A k \in Call : Begun(k) => Begun(k)' /\ (Ended(k)' <=> Ended(k))
           /\ \A k \in Call : Begun(k)' => Begun(k) \/ k = CurrentCall(c)'
           /\ \A k \in Call : k.client = c /\ Begun(k) => k.number < CurrentCall(c)'.number
           /\ \A k \in Call : Begun(k) => Sent(k)' = Sent(k)
<1>1. /\ requests \in [Clients -> Seq(Prompts)] /\ Len(requests[c]) \in Nat
      /\ MaxCalls \in Nat /\ Len(requests[c]) < MaxCalls
  BY ClientFacts DEF MayCall
<1>2. /\ requests' \in [Clients -> Seq(Prompts)]
      /\ requests'[c] = Append(requests[c], p)
      /\ \A d \in Clients : d # c => requests'[d] = requests[d]
  BY <1>1
<1>3. Len(requests'[c]) = Len(requests[c]) + 1
  BY <1>1, <1>2
<1> DEFINE new == [client |-> c, number |-> Len(requests[c]) + 1]
<1>4. CurrentCall(c)' = new
  BY <1>3 DEF CurrentCall
<1>5. new \in Call /\ new.client = c /\ new.number = Len(requests[c]) + 1
  BY <1>1 DEF Call
<1>6. ~Begun(new)
  BY <1>1, <1>5 DEF Begun
<1>7. ASSUME NEW k \in Call
      PROVE  /\ Begun(k) => Begun(k)' /\ (Ended(k)' <=> Ended(k))
             /\ Begun(k)' => Begun(k) \/ k = new
             /\ k.client = c /\ Begun(k) => k.number < new.number
             /\ Begun(k) => Sent(k)' = Sent(k)
  <2>1. k.client \in Clients /\ k.number \in 1 .. MaxCalls
        /\ k = [client |-> k.client, number |-> k.number]
    BY CallFacts
  <2>2. CASE k.client = c
    <3>1. Begun(k) <=> k.number <= Len(requests[c])
      BY <2>2 DEF Begun
    <3>2. Begun(k)' <=> k.number <= Len(requests[c]) + 1
      BY <1>3, <2>2 DEF Begun
    <3>3. Ended(k)
      BY <2>2 DEF Ended
    <3>4. Begun(k) => Ended(k)'
      BY <1>1, <1>3, <2>1, <2>2, <3>1 DEF Ended
    <3>5. k.number = Len(requests[c]) + 1 => k = new
      BY <2>1, <2>2
    <3>6. Begun(k) => Sent(k)' = Sent(k)
      BY <1>1, <1>2, <2>1, <2>2, <3>1 DEF Sent
    <3> QED
      BY <1>1, <1>5, <2>1, <3>1, <3>2, <3>3, <3>4, <3>5, <3>6
  <2>3. CASE k.client # c
    BY <1>2, <2>1, <2>3 DEF Begun, Ended, Sent
  <2> QED
    BY <2>2, <2>3
<1> HIDE DEF new
<1> QED
  BY <1>1, <1>2, <1>3, <1>4, <1>5, <1>6, <1>7 DEF new

LEMMA CreateStep ==
    ASSUME Inv, NEW c \in Clients, NEW p \in Prompts, Create(c, p)
    PROVE  Inv'
<1>0. PICK k0 : k0 = CurrentCall(c)'
  OBVIOUS
<1>1. /\ phase[c] = "idle" /\ MayCall(c)
      /\ phase' = [phase EXCEPT ![c] = "waiting"]
      /\ requests' = [requests EXCEPT ![c] = Append(@, p)]
      /\ backlog' \in {Append(backlog, k0), backlog}
      /\ UNCHANGED <<serving, issued, validating, answer, auditLog, raised>>
  BY <1>0 DEF Create
<1>2. /\ phase' \in [Clients -> Phases] /\ phase'[c] = "waiting"
      /\ \A d \in Clients : d # c => phase'[d] = phase[d]
  BY <1>1, ClientFacts DEF Phases
<1>3. /\ requests' \in [Clients -> Seq(Prompts)]
      /\ Len(requests'[c]) = Len(requests[c]) + 1
      /\ Len(requests'[c]) <= MaxCalls
      /\ \A d \in Clients : d # c => requests'[d] = requests[d]
      /\ k0 \in Call /\ ~Begun(k0)
      /\ k0 = [client |-> c, number |-> Len(requests[c]) + 1]
  BY <1>0, <1>1, <1>2, NewCall
<1>4. /\ \A k \in Call : Begun(k) => Begun(k)' /\ (Ended(k)' <=> Ended(k))
      /\ \A k \in Call : Begun(k)' => Begun(k) \/ k = k0
      /\ \A k \in Call : k.client = c /\ Begun(k) => k.number < k0.number
  BY <1>0, <1>1, <1>2, NewCall
<1>5. k0.client = c /\ k0.number = Len(requests'[c])
  BY <1>3
<1>6. Begun(k0)' /\ ~Ended(k0)'
  <2>1. Len(requests'[c]) \in Nat
    BY <1>3
  <2>2. PICK k \in Call : k = k0
    BY <1>3
  <2>3. Begun(k)' /\ ~Ended(k)'
    BY <1>2, <1>5, <2>1, <2>2 DEF Begun, Ended
  <2> QED
    BY <1>2, <1>5, <2>1 DEF Begun, Ended
<1>7. backlog \in Seq(Call) /\ Len(backlog) \in Nat
  BY DEF Inv, Shapes
<1>8. /\ backlog' \in Seq(Call) /\ Len(backlog') \in {Len(backlog), Len(backlog) + 1}
      /\ \A j \in 1 .. Len(backlog') :
            \/ j \in 1 .. Len(backlog) /\ backlog'[j] = backlog[j]
            \/ j = Len(backlog) + 1 /\ backlog'[j] = k0
  <2>1. CASE backlog' = backlog
    BY <1>7, <2>1
  <2>2. CASE backlog' = Append(backlog, k0)
    <3>1. backlog' \in Seq(Call) /\ Len(backlog') = Len(backlog) + 1
      BY <1>3, <1>7, <2>2
    <3>2. ASSUME NEW j \in 1 .. Len(backlog) + 1
          PROVE  backlog'[j] = IF j = Len(backlog) + 1 THEN k0 ELSE backlog[j]
      BY <1>3, <1>7, <2>2
    <3>3. \A j \in 1 .. Len(backlog) + 1 : j \in 1 .. Len(backlog) \/ j = Len(backlog) + 1
      BY <1>7
    <3> QED
      BY <3>1, <3>2, <3>3
  <2> QED
    BY <1>1, <2>1, <2>2
<1>9. Shapes'
  BY <1>1, <1>2, <1>3, <1>8 DEF Inv, Shapes
<1>10. \A k : k \in Call /\ Begun(k) => Precedes(k, k0)
  BY <1>4, <1>5 DEF Precedes
<1>11. Known'
  <2>1. (serving # NoCall => Begun(serving))'
    BY <1>1, <1>4 DEF Inv, Shapes, Known
  <2>2. ASSUME NEW j \in 1 .. Len(backlog')
        PROVE  Begun(backlog[j])'
    <3>1. PICK k \in Call : k = backlog'[j]
      BY <1>8
    <3>2. CASE j \in 1 .. Len(backlog) /\ backlog'[j] = backlog[j]
      <4>1. Begun(k)
        BY <3>1, <3>2 DEF Inv, Known
      <4>2. Begun(k)'
        BY <1>4, <4>1
      <4> QED
        BY <3>1, <4>2 DEF Begun
    <3>3. CASE backlog'[j] = k0
      BY <1>6, <3>3 DEF Begun
    <3> QED
      BY <1>8, <3>2, <3>3
  <2>3. ASSUME NEW n \in 1 .. Len(issued)
        PROVE  Begun(issued[n].call)'
    <3>1. PICK k \in Call : k = issued[n].call /\ Begun(k)
      BY DEF Inv, Shapes, Known
    <3>2. Begun(k)'
      BY <1>4, <3>1
    <3> QED
      BY <1>1, <3>1, <3>2 DEF Begun
  <2>4. ASSUME NEW k \in raised
        PROVE  Begun(k)' /\ Ended(k)'
    BY <1>4 DEF Inv, Shapes, Known
  <2>5. ASSUME NEW d \in Clients
        PROVE  /\ Len(requests'[d]) <= MaxCalls
               /\ phase'[d] = "waiting" => Len(requests'[d]) > 0
               /\ phase'[d] \in {"new", "discovered"} =>
                    requests'[d] = <<>> /\ auditLog[d] = <<>>
    <3>1. CASE d = c
      BY <1>2, <1>3, <3>1, ClientFacts
    <3>2. CASE d # c
      BY <1>2, <1>3, <3>2 DEF Inv, Known
    <3> QED
      BY <3>1, <3>2
  <2> QED
    BY <1>1, <2>1, <2>2, <2>3, <2>4, <2>5 DEF Known, Begun
<1>12. Ordered'
  <2>1. ASSUME NEW i \in 1 .. Len(backlog'), NEW j \in 1 .. Len(backlog'), i < j
        PROVE  Precedes(backlog'[i], backlog'[j])
    <3>1. i \in 1 .. Len(backlog) /\ backlog'[i] = backlog[i]
      BY <1>7, <1>8, <2>1
    <3>2. CASE j \in 1 .. Len(backlog) /\ backlog'[j] = backlog[j]
      BY <2>1, <3>1, <3>2 DEF Inv, Ordered
    <3>3. CASE backlog'[j] = k0
      <4>1. backlog[i] \in Call /\ Begun(backlog[i])
        BY <1>7, <3>1 DEF Inv, Known
      <4> QED
        BY <1>10, <3>1, <3>3, <4>1
    <3> QED
      BY <1>8, <3>2, <3>3
  <2>2. ASSUME NEW n \in 1 .. Len(issued), NEW j \in 1 .. Len(backlog')
        PROVE  Precedes(issued[n].call, backlog'[j])
    <3>1. CASE j \in 1 .. Len(backlog) /\ backlog'[j] = backlog[j]
      BY <3>1 DEF Inv, Ordered
    <3>2. CASE backlog'[j] = k0
      <4>1. issued[n].call \in Call /\ Begun(issued[n].call)
        BY DEF Inv, Shapes, Known
      <4> QED
        BY <1>10, <3>2, <4>1
    <3> QED
      BY <1>8, <3>1, <3>2
  <2>3. ASSUME serving # NoCall, NEW j \in 1 .. Len(backlog')
        PROVE  Precedes(serving, backlog'[j])
    <3>1. CASE j \in 1 .. Len(backlog) /\ backlog'[j] = backlog[j]
      BY <2>3, <3>1 DEF Inv, Ordered
    <3>2. CASE backlog'[j] = k0
      <4>1. serving \in Call /\ Begun(serving)
        BY <2>3 DEF Inv, Shapes, Known
      <4> QED
        BY <1>10, <3>2, <4>1
    <3> QED
      BY <1>8, <3>1, <3>2
  <2>4. /\ \A m, n \in 1 .. Len(issued) : m < n => Precedes(issued[m].call, issued[n].call)
        /\ serving # NoCall => \A n \in 1 .. Len(issued) : Precedes(issued[n].call, serving)
    BY DEF Inv, Ordered
  <2>5. issued' = issued /\ serving' = serving
    BY <1>1
  <2> QED
    BY <2>1, <2>2, <2>3, <2>4, <2>5 DEF Ordered
<1>13. Answers'
  <2>1. ASSUME NEW d \in Clients, answer[d] # NoAnswer
        PROVE  /\ phase'[d] = "waiting" /\ CurrentCall(d)' = CurrentCall(d)
               /\ \E n \in 1 .. Len(issued) :
                    issued[n].call = CurrentCall(d) /\ IsReceipt(answer[d], n)
    <3>1. phase[d] = "waiting"
      BY <2>1 DEF Inv, Answers
    <3>2. d # c
      BY <1>1, <3>1
    <3> QED
      BY <1>2, <1>3, <2>1, <3>1, <3>2 DEF Inv, Answers, CurrentCall
  <2> QED
    BY <1>1, <2>1 DEF Answers
<1>14. Audits'
  <2>1. \A d, i : IssueNumber(d, i)' = IssueNumber(d, i)
    BY <1>1 DEF IssueNumber
  <2>2. ASSUME NEW d \in Clients, NEW i \in 1 .. Len(auditLog[d])
        PROVE  Ended(issued[IssueNumber(d, i)].call)'
    <3>1. PICK k \in Call : k = issued[IssueNumber(d, i)].call /\ Begun(k) /\ Ended(k)
      BY DEF Inv, Shapes, Audits, Known
    <3>2. Ended(k)'
      BY <1>4, <3>1
    <3> QED
      BY <1>1, <2>1, <3>1, <3>2 DEF Ended
  <2> QED
    BY <1>1, <2>1, <2>2 DEF Inv, Audits
<1>15. Returned'
  <2>1. \A k : AuditedIn(k.client, k)' <=> AuditedIn(k.client, k)
    BY <1>1 DEF AuditedIn, IssueNumber
  <2>2. ASSUME NEW k \in Call, Begun(k)', Ended(k)'
        PROVE  Begun(k) /\ Ended(k)
    <3>1. k # k0
      BY <1>2, <1>5, <2>2, <1>3, ClientFacts DEF Ended
    <3> QED
      BY <1>4, <2>2, <3>1
  <2>3. \A k \in Call : Begun(k) => Sent(k)' = Sent(k)
    BY <1>1, <1>2, NewCall
  <2> QED
    BY <1>1, <2>1, <2>2, <2>3 DEF Inv, Returned
<1> QED
  BY <1>9, <1>11, <1>12, <1>13, <1>14, <1>15 DEF Inv

\* A call on a closed client disturbs no other one.
LEMMA CreateClosedStep ==
    ASSUME Inv, NEW c \in Clients, NEW p \in Prompts, CreateClosed(c, p)
    PROVE  Inv'
<1>0. PICK k0 : k0 = CurrentCall(c)'
  OBVIOUS
<1>1. /\ phase[c] = "closed" /\ MayCall(c)
      /\ requests' = [requests EXCEPT ![c] = Append(@, p)]
      /\ raised' = raised \union {k0}
      /\ UNCHANGED <<backlog, serving, issued, phase, validating, answer, auditLog>>
  BY <1>0 DEF CreateClosed, serverVars
<1>2. phase' \in [Clients -> Phases] /\ phase'[c] = "closed"
  BY <1>1, ClientFacts
<1>3. /\ requests' \in [Clients -> Seq(Prompts)]
      /\ Len(requests'[c]) = Len(requests[c]) + 1
      /\ Len(requests'[c]) <= MaxCalls
      /\ \A d \in Clients : d # c => requests'[d] = requests[d]
      /\ k0 \in Call /\ ~Begun(k0) /\ k0 = [client |-> c, number |-> Len(requests[c]) + 1]
  BY <1>0, <1>1, <1>2, NewCall
<1>4. /\ \A k \in Call : Begun(k) => Begun(k)' /\ (Ended(k)' <=> Ended(k))
      /\ \A k \in Call : Begun(k)' => Begun(k) \/ k = k0
  BY <1>0, <1>1, <1>2, NewCall
<1>5. Begun(k0)' /\ Ended(k0)'
  BY <1>2, <1>3, ClientFacts DEF Begun, Ended
<1>6. Shapes'
  BY <1>1, <1>2, <1>3 DEF Inv, Shapes
<1>7. Known'
  <2>1. \A k : k \in Call /\ Begun(k) => Begun(k)'
    BY <1>4
  <2>2. \A j \in 1 .. Len(backlog) : backlog[j] \in Call
    BY DEF Inv, Shapes
  <2>3. /\ (serving # NoCall => Begun(serving))'
        /\ \A j \in 1 .. Len(backlog) : Begun(backlog[j])'
        /\ \A n \in 1 .. Len(issued) : Begun(issued[n].call)'
    <3>1. ASSUME NEW k, k \in Call, Begun(k) PROVE k.number <= Len(requests'[k.client])
      BY <2>1, <3>1 DEF Begun
    <3>2. ASSUME serving # NoCall PROVE Begun(serving)'
      BY <1>1, <3>1, <3>2 DEF Inv, Shapes, Known, Begun
    <3>3. ASSUME NEW j \in 1 .. Len(backlog) PROVE Begun(backlog[j])'
      <4>1. Begun(backlog[j])
        BY DEF Inv, Known
      <4>2. backlog'[j] = backlog[j]
        BY <1>1
      <4> QED
        BY <2>2, <3>1, <4>1, <4>2 DEF Begun
    <3>4. ASSUME NEW n \in 1 .. Len(issued) PROVE Begun(issued[n].call)'
      <4>1. Begun(issued[n].call) /\ issued[n].call \in Call
        BY DEF Inv, Shapes, Known
      <4>2. issued' = issued
        BY <1>1
      <4> QED
        BY <3>1, <4>1, <4>2 DEF Begun
    <3> QED
      BY <1>1, <3>2, <3>3, <3>4
  <2>4. ASSUME NEW k \in raised'
        PROVE  Begun(k)' /\ Ended(k)'
    BY <1>1, <1>4, <1>5, <2>4 DEF Inv, Shapes, Known
  <2>5. ASSUME NEW d \in Clients
        PROVE  /\ Len(requests'[d]) <= MaxCalls
               /\ phase'[d] = "waiting" => Len(requests'[d]) > 0
               /\ phase'[d] \in {"new", "discovered"} =>
                    requests'[d] = <<>> /\ auditLog[d] = <<>>
    <3>1. CASE d = c
      BY <1>2, <1>3, <3>1
    <3>2. CASE d # c
      BY <1>1, <1>3, <3>2 DEF Inv, Known
    <3> QED
      BY <3>1, <3>2
  <2>6. auditLog' = auditLog /\ backlog' = backlog /\ issued' = issued
    BY <1>1
  <2> QED
    BY <2>3, <2>4, <2>5, <2>6 DEF Known
<1>8. Ordered'
  BY <1>1 DEF Inv, Ordered
<1>9. Answers'
  <2>1. ASSUME NEW d \in Clients, answer[d] # NoAnswer
        PROVE  /\ phase[d] = "waiting" /\ CurrentCall(d)' = CurrentCall(d)
               /\ \E n \in 1 .. Len(issued) :
                    issued[n].call = CurrentCall(d) /\ IsReceipt(answer[d], n)
    <3>1. phase[d] = "waiting" /\ d # c
      BY <1>1, <2>1 DEF Inv, Answers
    <3> QED
      BY <1>3, <2>1, <3>1 DEF Inv, Answers, CurrentCall
  <2> QED
    BY <1>1, <2>1 DEF Answers
<1>10. Audits'
  <2>1. \A d, i : IssueNumber(d, i)' = IssueNumber(d, i)
    BY <1>1 DEF IssueNumber
  <2>2. ASSUME NEW d \in Clients, NEW i \in 1 .. Len(auditLog[d])
        PROVE  /\ Ended(issued[IssueNumber(d, i)].call)'
               /\ issued[IssueNumber(d, i)].call \notin raised'
    <3>1. PICK k \in Call : k = issued[IssueNumber(d, i)].call /\ Begun(k) /\ Ended(k)
                              /\ k \notin raised
      BY DEF Inv, Shapes, Audits, Known
    <3>2. Ended(k)'
      BY <1>4, <3>1
    <3>3. k # k0
      BY <1>3, <3>1
    <3> QED
      BY <1>1, <2>1, <3>1, <3>2, <3>3 DEF Ended
  <2> QED
    BY <1>1, <2>1, <2>2 DEF Inv, Audits
<1>11. Returned'
  <2>1. \A k : AuditedIn(k.client, k)' <=> AuditedIn(k.client, k)
    BY <1>1 DEF AuditedIn, IssueNumber
  <2>2. \A k \in Call : Begun(k) => Sent(k)' = Sent(k)
    BY <1>1, <1>2, NewCall
  <2> QED
    BY <1>1, <1>4, <2>1, <2>2 DEF Inv, Returned
<1> QED
  BY <1>6, <1>7, <1>8, <1>9, <1>10, <1>11 DEF Inv

\* The end of a call ends no other one.
LEMMA CallEnds ==
    ASSUME Inv, NEW c \in Clients, phase[c] = "waiting", requests' = requests,
           phase' = [phase EXCEPT ![c] = "idle"]
    PROVE  /\ phase' \in [Clients -> Phases] /\ phase'[c] = "idle"
           /\ \A d \in Clients : d # c => phase'[d] = phase[d]
           /\ \A k : Begun(k)' <=> Begun(k)
           /\ \A k \in Call : Ended(k) => Ended(k)'
           /\ \A k \in Call : Begun(k) /\ Ended(k)' => Ended(k) \/ k = CurrentCall(c)
           /\ CurrentCall(c) \in Call /\ Begun(CurrentCall(c)) /\ ~Ended(CurrentCall(c))
           /\ Ended(CurrentCall(c))'
<1>1. /\ phase' \in [Clients -> Phases] /\ phase'[c] = "idle"
      /\ \A d \in Clients : d # c => phase'[d] = phase[d]
  BY ClientFacts DEF Phases
<1>2. /\ \A k : Begun(k)' <=> Begun(k)
      /\ CurrentCall(c) \in Call /\ Begun(CurrentCall(c)) /\ ~Ended(CurrentCall(c))
  BY ClientFacts DEF Begun
<1>3. Ended(CurrentCall(c))'
  BY <1>1 DEF Ended, CurrentCall
<1>4. ASSUME NEW k \in Call
      PROVE  /\ Ended(k) => Ended(k)'
             /\ Begun(k) /\ Ended(k)' => Ended(k) \/ k = CurrentCall(c)
  <2>1. k.client \in Clients /\ k.number \in 1 .. MaxCalls
        /\ k = [client |-> k.client, number |-> k.number]
    BY CallFacts
  <2>2. CASE k.client = c
    BY <1>1, <2>1, <2>2, ClientFacts DEF Begun, Ended, CurrentCall
  <2>3. CASE k.client # c
    BY <1>1, <2>1, <2>3 DEF Ended
  <2> QED
    BY <2>2, <2>3
<1> QED
  BY <1>1, <1>2, <1>3, <1>4

\* What the end of a call leaves as it was.
LEMMA EndKeeps ==
    ASSUME Inv, NEW c \in Clients, phase[c] = "waiting", requests' = requests,
           phase' = [phase EXCEPT ![c] = "idle"], answer' = [answer EXCEPT ![c] = NoAnswer],
           UNCHANGED <<backlog, serving, issued, validating>>,
           \A k \in raised' : k \in raised \/ k = CurrentCall(c),
           \A d \in Clients : d # c => auditLog'[d] = auditLog[d]
    PROVE  Known' /\ Ordered' /\ Answers' /\ \E T : answer' \in [Clients -> T]
<1>1. /\ phase' \in [Clients -> Phases] /\ phase'[c] = "idle"
      /\ \A d \in Clients : d # c => phase'[d] = phase[d]
      /\ \A k : Begun(k)' <=> Begun(k)
      /\ \A k \in Call : Ended(k) => Ended(k)'
      /\ Begun(CurrentCall(c)) /\ Ended(CurrentCall(c))'
  BY CallEnds
<1>2. PICK T : answer \in [Clients -> T]
  BY DEF Inv, Shapes
<1>3. /\ answer' \in [Clients -> T \union {NoAnswer}] /\ answer'[c] = NoAnswer
      /\ \A d \in Clients : d # c => answer'[d] = answer[d]
  BY <1>2
<1>4. Known'
  <2>1. ASSUME NEW k \in raised'
        PROVE  Begun(k) /\ Ended(k)'
    <3>1. CASE k \in raised
      BY <1>1, <3>1 DEF Inv, Shapes, Known
    <3>2. CASE k = CurrentCall(c)
      BY <1>1, <3>2 DEF Ended, CurrentCall
    <3> QED
      BY <3>1, <3>2
  <2>2. ASSUME NEW d \in Clients
        PROVE  /\ phase'[d] = "waiting" => phase[d] = "waiting"
               /\ phase'[d] \in {"new", "discovered"} =>
                    phase[d] \in {"new", "discovered"} /\ auditLog'[d] = auditLog[d]
    BY <1>1
  <2> QED
    BY <1>1, <2>1, <2>2 DEF Inv, Known, Begun
<1>5. Ordered'
  BY DEF Inv, Ordered
<1>6. Answers'
  BY <1>1, <1>3 DEF Inv, Answers, CurrentCall
<1>7. \E S : answer' \in [Clients -> S]
  BY <1>3
<1> QED
  BY <1>4, <1>5, <1>6, <1>7

LEMMA AbortStep ==
    ASSUME Inv, NEW c \in Clients, Abort(c)
    PROVE  Inv'
<1>1. /\ phase[c] = "waiting" /\ phase' = [phase EXCEPT ![c] = "idle"]
      /\ answer' = [answer EXCEPT ![c] = NoAnswer]
      /\ raised' = raised \union {CurrentCall(c)}
      /\ UNCHANGED <<backlog, serving, issued, validating, requests, auditLog>>
  BY DEF Abort, serverVars
<1>2. /\ phase' \in [Clients -> Phases]
      /\ \A k : Begun(k)' <=> Begun(k)
      /\ \A k \in Call : Ended(k) => Ended(k)'
      /\ \A k \in Call : Begun(k) /\ Ended(k)' => Ended(k) \/ k = CurrentCall(c)
      /\ CurrentCall(c) \in Call /\ ~Ended(CurrentCall(c))
  BY <1>1, CallEnds
<1>3. Known' /\ Ordered' /\ Answers' /\ \E T : answer' \in [Clients -> T]
  BY <1>1, EndKeeps
<1>4. Shapes'
  BY <1>1, <1>2, <1>3 DEF Inv, Shapes
<1>5. Audits'
  <2>1. \A d, i : IssueNumber(d, i)' = IssueNumber(d, i)
    BY <1>1 DEF IssueNumber
  <2>2. ASSUME NEW d \in Clients, NEW i \in 1 .. Len(auditLog[d])
        PROVE  /\ Ended(issued[IssueNumber(d, i)].call)'
               /\ issued[IssueNumber(d, i)].call \notin raised'
    <3>1. PICK k \in Call : k = issued[IssueNumber(d, i)].call /\ Ended(k) /\ k \notin raised
      BY DEF Inv, Shapes, Audits
    <3>2. Ended(k)' /\ k # CurrentCall(c)
      BY <1>2, <3>1
    <3> QED
      BY <1>1, <2>1, <3>1, <3>2 DEF Ended
  <2> QED
    BY <1>1, <2>1, <2>2 DEF Inv, Audits
<1>6. Returned'
  <2>1. \A k : AuditedIn(k.client, k)' <=> AuditedIn(k.client, k)
    BY <1>1 DEF AuditedIn, IssueNumber
  <2> QED
    BY <1>1, <1>2, <2>1 DEF Inv, Returned, Sent
<1> QED
  BY <1>3, <1>4, <1>5, <1>6 DEF Inv

\* A validating client logs an entry, unless its request had no arguments.
Verifies(c) == validating[c] /\ Last(requests[c]) # NoArguments

Logs(c, entry) ==
    auditLog' = IF Verifies(c) THEN [auditLog EXCEPT ![c] = Append(@, entry)] ELSE auditLog

\* What a validating client logs is the receipt issued for its call.
LEMMA ReceiveEntry ==
    ASSUME Inv, NEW c \in Clients, Receive(c)
    PROVE  \E entry : \E n \in 1 .. Len(issued) :
                Abs(entry.id) = n /\ issued[n].call = CurrentCall(c) /\ Logs(c, entry)
<1>1. PICK n \in 1 .. Len(issued) :
        issued[n].call = CurrentCall(c) /\ IsReceipt(answer[c], n)
  BY DEF Inv, Answers, Receive
<1>2. n \in Nat
  BY SeqFacts DEF Inv, Shapes
<1>3. CASE Verifies(c)
  <2>1. PICK lost \in Losses : \E result \in {Verdict(c, lost)} :
          auditLog' = [auditLog EXCEPT ![c] = Append(@, Audited(result, lost))]
    BY <1>3 DEF Receive, Logged, Verifies
  <2>2. PICK entry : entry = Audited(Verdict(c, lost), lost)
    OBVIOUS
  <2>3. entry.id = Rebuilt(answer[c], lost).body.id
    BY <2>2 DEF Audited, Verdict, Result
  <2>4. Abs(entry.id) = n
    BY <1>1, <1>2, <2>3, RebuiltKeepsIssue
  <2>5. Logs(c, entry)
    BY <1>3, <2>1, <2>2 DEF Logs
  <2> QED
    BY <1>1, <2>4, <2>5
<1>4. CASE ~Verifies(c)
  <2>1. PICK entry : entry = [id |-> n]
    OBVIOUS
  <2>2. Abs(entry.id) = n
    BY <1>2, <2>1, AbsOfEither
  <2>3. Logs(c, entry)
    BY <1>4 DEF Receive, Logs, Verifies
  <2> QED
    BY <1>1, <2>2, <2>3
<1> QED
  BY <1>3, <1>4

LEMMA ReceiveStep ==
    ASSUME Inv, NEW c \in Clients, Receive(c)
    PROVE  Inv'
<1>1. /\ phase[c] = "waiting" /\ phase' = [phase EXCEPT ![c] = "idle"]
      /\ answer' = [answer EXCEPT ![c] = NoAnswer]
      /\ UNCHANGED <<backlog, serving, issued, validating, requests, raised>>
  BY DEF Receive, serverVars
<1>2a. PICK entry : \E n \in 1 .. Len(issued) :
         Abs(entry.id) = n /\ issued[n].call = CurrentCall(c) /\ Logs(c, entry)
  BY ReceiveEntry
<1>2. PICK n \in 1 .. Len(issued) :
        Abs(entry.id) = n /\ issued[n].call = CurrentCall(c) /\ Logs(c, entry)
  BY <1>2a
<1>3. /\ phase' \in [Clients -> Phases]
      /\ \A k : Begun(k)' <=> Begun(k)
      /\ \A k \in Call : Ended(k) => Ended(k)'
      /\ \A k \in Call : Begun(k) /\ Ended(k)' => Ended(k) \/ k = CurrentCall(c)
      /\ CurrentCall(c) \in Call /\ ~Ended(CurrentCall(c))
  BY <1>1, CallEnds
<1>0. PICK L : L = Len(auditLog[c])
  OBVIOUS
<1>4. PICK T : auditLog \in [Clients -> T]
  BY DEF Inv, Shapes
<1>5. /\ L \in Nat /\ IsSeq(auditLog[c])
  BY <1>0, SeqFacts DEF Inv, Shapes
<1>6. /\ auditLog' \in [Clients -> T \union {Append(auditLog[c], entry)}]
      /\ \A d \in Clients : d # c => auditLog'[d] = auditLog[d]
      /\ auditLog'[c] = IF Verifies(c) THEN Append(auditLog[c], entry) ELSE auditLog[c]
  BY <1>2, <1>4 DEF Logs
<1>7. /\ IsSeq(auditLog'[c])
      /\ Len(auditLog'[c]) = IF Verifies(c) THEN L + 1 ELSE L
      /\ \A i \in 1 .. L : auditLog'[c][i] = auditLog[c][i]
      /\ Verifies(c) => auditLog'[c][L + 1] = entry
  BY <1>0, <1>5, <1>6, AppendAny
<1>8. Known' /\ Ordered' /\ Answers' /\ \E S : answer' \in [Clients -> S]
  BY <1>1, <1>6, EndKeeps
<1>9. \A d \in Clients : IsSeq(auditLog'[d])
  BY <1>6, <1>7 DEF Inv, Shapes
<1>10. Shapes'
  BY <1>1, <1>3, <1>6, <1>8, <1>9 DEF Inv, Shapes
<1>11. \A d \in Clients : \A i \in 1 .. Len(auditLog[d]) :
          i \in 1 .. Len(auditLog'[d]) /\ auditLog'[d][i] = auditLog[d][i]
  <2>1. \A i \in 1 .. L : i \in 1 .. Len(auditLog'[c])
    BY <1>5, <1>7
  <2>2. ASSUME NEW i \in 1 .. Len(auditLog[c])
        PROVE  i \in 1 .. Len(auditLog'[c]) /\ auditLog'[c][i] = auditLog[c][i]
    BY <1>0, <1>7, <2>1
  <2> QED
    BY <1>6, <2>2
<1>12. \A d \in Clients : \A i \in 1 .. Len(auditLog'[d]) :
          i \in 1 .. Len(auditLog[d]) \/ (d = c /\ i = L + 1 /\ Verifies(c))
  <2>1. \A i \in 1 .. L + 1 : i \in 1 .. L \/ i = L + 1
    BY <1>5
  <2> QED
    BY <1>0, <1>6, <1>7, <2>1
<1>13. \A d \in Clients : \A i \in 1 .. Len(auditLog[d]) :
          IssueNumber(d, i)' = IssueNumber(d, i)
  BY <1>11 DEF IssueNumber
<1>14. Verifies(c) => IssueNumber(c, L + 1)' = n
  BY <1>2, <1>7 DEF IssueNumber
<1>15. \A j \in 1 .. L : IssueNumber(c, j) < n
  <2>1. SUFFICES ASSUME NEW j \in 1 .. L PROVE IssueNumber(c, j) < n
    OBVIOUS
  <2>2. PICK m \in 1 .. Len(issued) :
          /\ m = IssueNumber(c, j)
          /\ issued[m].call.client = c /\ Ended(issued[m].call)
    BY <1>0 DEF Inv, Audits
  <2>3. issued[m].call.number < Len(requests[c])
    BY <1>1, <2>2 DEF Ended
  <2>4. n < m => Len(requests[c]) < issued[m].call.number
    <3>1. n < m => Precedes(CurrentCall(c), issued[m].call)
      BY <1>2 DEF Inv, Ordered
    <3> QED
      BY <2>2, <3>1 DEF Precedes, CurrentCall
  <2>5. issued[m].call.number \in Nat /\ Len(requests[c]) \in Nat
    <3>1. issued[m].call \in Call
      BY DEF Inv, Shapes
    <3> QED
      BY <3>1, ClientFacts, CallFacts
  <2>6. m # n
    BY <1>2, <1>3, <2>2
  <2>7. m \in Nat /\ n \in Nat
    BY SeqFacts DEF Inv, Shapes
  <2> QED
    BY <2>2, <2>3, <2>4, <2>5, <2>6, <2>7
<1>16. Audits'
  <2>1. ASSUME NEW d \in Clients, NEW i \in 1 .. Len(auditLog[d])
        PROVE  /\ IssueNumber(d, i) \in 1 .. Len(issued)
               /\ issued[IssueNumber(d, i)].call.client = d
               /\ issued[IssueNumber(d, i)].call \notin raised
               /\ Ended(issued[IssueNumber(d, i)].call)'
               /\ \A j \in 1 .. i - 1 : IssueNumber(d, j) < IssueNumber(d, i)
    <3>1. PICK k \in Call : k = issued[IssueNumber(d, i)].call /\ Ended(k)
      BY DEF Inv, Shapes, Audits
    <3>2. Ended(k)' /\ issued' = issued
      BY <1>1, <1>3, <3>1
    <3>3. Ended(issued[IssueNumber(d, i)].call)'
      BY <1>13, <3>1, <3>2 DEF Ended
    <3> QED
      BY <3>3 DEF Inv, Audits
  <2>2. /\ issued[n].call.client = c /\ issued[n].call \notin raised
    BY <1>2, <1>3 DEF Inv, Known, CurrentCall
  <2>3. Ended(CurrentCall(c))' /\ CurrentCall(c)' = CurrentCall(c)
    BY <1>1, CallEnds DEF CurrentCall
  <2>4. ASSUME NEW d \in Clients, NEW i \in 1 .. Len(auditLog'[d])
        PROVE  /\ IssueNumber(d, i)' \in 1 .. Len(issued)
               /\ issued[IssueNumber(d, i)'].call.client = d
               /\ issued[IssueNumber(d, i)'].call \notin raised
               /\ Ended(issued[IssueNumber(d, i)].call)'
               /\ \A j \in 1 .. i - 1 : IssueNumber(d, j)' < IssueNumber(d, i)'
    <3>1. CASE i \in 1 .. Len(auditLog[d])
      <4>1. IssueNumber(d, i)' = IssueNumber(d, i)
        BY <1>13, <3>1
      <4>2. Len(auditLog[d]) \in Nat
        BY SeqFacts DEF Inv, Shapes
      <4>3. \A j \in 1 .. i - 1 : j \in 1 .. Len(auditLog[d])
        BY <3>1, <4>2
      <4>4. \A j \in 1 .. i - 1 : IssueNumber(d, j)' = IssueNumber(d, j)
        BY <1>13, <4>3
      <4> QED
        BY <2>1, <3>1, <4>1, <4>4
    <3>2. CASE d = c /\ i = L + 1 /\ Verifies(c)
      <4>1. IssueNumber(d, i)' = n
        BY <1>14, <3>2
      <4>2. Ended(issued[IssueNumber(d, i)].call)'
        BY <1>1, <1>2, <2>3, <4>1 DEF Ended, CurrentCall
      <4>3. \A j \in 1 .. i - 1 : j \in 1 .. L
        BY <1>5, <3>2
      <4>4. \A j \in 1 .. i - 1 : IssueNumber(d, j)' = IssueNumber(d, j)
        BY <1>0, <1>13, <3>2, <4>3
      <4> QED
        BY <1>2, <1>15, <2>2, <3>2, <4>1, <4>2, <4>3, <4>4
    <3> QED
      BY <1>12, <3>1, <3>2
  <2>5. issued' = issued /\ raised' = raised
    BY <1>1
  <2> QED
    BY <2>4, <2>5 DEF Audits
<1>17. Returned'
  <2>1. ASSUME NEW k \in Call, k.client \in Clients, AuditedIn(k.client, k)
        PROVE  AuditedIn(k.client, k)'
    BY <1>1, <1>11, <1>13, <2>1 DEF AuditedIn
  <2>2. Verifies(c) => AuditedIn(c, CurrentCall(c))'
    <3>1. Verifies(c) => L + 1 \in 1 .. Len(auditLog'[c])
      BY <1>5, <1>7
    <3> QED
      BY <1>1, <1>2, <1>14, <3>1 DEF AuditedIn, CurrentCall
  <2>3. ASSUME NEW k \in Call, k.client \in Clients, validating[k.client], Begun(k), Ended(k)'
        PROVE  k \in raised \/ Sent(k) = NoArguments \/ AuditedIn(k.client, k)'
    <3>1. CASE Ended(k)
      BY <2>1, <2>3, <3>1 DEF Inv, Returned
    <3>2. CASE k = CurrentCall(c)
      <4>1. k.client = c /\ CurrentCall(c)' = k
        BY <1>1, <3>2 DEF CurrentCall
      <4>2. Sent(k) = Last(requests[c])
        BY <3>2 DEF Sent, CurrentCall, Last
      <4> QED
        BY <2>2, <2>3, <4>1, <4>2 DEF AuditedIn, Verifies
    <3> QED
      BY <1>3, <2>3, <3>1, <3>2
  <2> QED
    BY <1>1, <1>3, <2>3 DEF Returned, Sent
<1> QED
  BY <1>8, <1>10, <1>16, <1>17 DEF Inv

-----------------------------------------------------------------------------
(* The invariant, and what follows from it. *)

LEMMA InvStep == Inv /\ [Next]_vars => Inv'
<1> SUFFICES ASSUME Inv, [Next]_vars PROVE Inv'
  OBVIOUS
<1>1. CASE UNCHANGED vars
  BY <1>1, Quiet DEF vars, serverVars, clientVars
<1>2. ASSUME NEW c \in Clients, Discover(c) PROVE Inv'
  BY <1>2, DiscoverStep
<1>3. ASSUME NEW c \in Clients, Construct(c) PROVE Inv'
  BY <1>3, ConstructStep
<1>4. ASSUME NEW c \in Clients, Upload(c) PROVE Inv'
  BY <1>4, Quiet DEF Upload, serverVars
<1>5. ASSUME NEW c \in Clients, Receive(c) PROVE Inv'
  BY <1>5, ReceiveStep
<1>6. ASSUME NEW c \in Clients, Timeout(c) \/ Refuse(c) \/ Reset(c) PROVE Inv'
  BY <1>6, AbortStep DEF Timeout, Refuse, Reset
<1>7. ASSUME NEW c \in Clients, Close(c) PROVE Inv'
  BY <1>7, CloseStep
<1>8. ASSUME NEW c \in Clients, NEW p \in Prompts, Create(c, p) PROVE Inv'
  BY <1>8, CreateStep
<1>9. ASSUME NEW c \in Clients, NEW p \in Prompts, CreateClosed(c, p) PROVE Inv'
  BY <1>9, CreateClosedStep
<1>10. CASE Accept
  BY <1>10, AcceptStep
<1>11. CASE HandleChat
  BY <1>11, HandleChatStep
<1>12. CASE Discard
  BY <1>12, DropStep DEF Discard, clientVars
<1>13. CASE Crash
  BY <1>13, DropStep DEF Crash, clientVars
<1>14. CASE Serve \/ Shutdown \/ Restart
  BY <1>14, Quiet DEF Serve, Shutdown, Restart, clientVars
<1> QED
  BY <1>1, <1>2, <1>3, <1>4, <1>5, <1>6, <1>7, <1>8, <1>9, <1>10, <1>11, <1>12, <1>13,
     <1>14 DEF Next

LEMMA InvAlways == Spec => []Inv
<1> QED
  BY InvInit, InvStep, PTL DEF Spec

\* An entry of a log, by the names the properties use.
LEMMA EntryFacts ==
    ASSUME Inv, NEW c \in Clients
    PROVE  /\ Indices(c) = 1 .. Len(auditLog[c]) /\ Len(auditLog[c]) \in Nat
           /\ \A i : IssueOf(auditLog[c][i]) = issued[IssueNumber(c, i)]
BY SeqFacts DEF Inv, Shapes, Indices, IssueOf, IssueNumber

\* Each log holds receipts of the client's own calls only, in the order they
\* were issued, none twice, and none of a call that had raised: so late answers
\* of calls that timed out are never taken for those of the calls after them.
THEOREM AuditsCorrect == Spec => []AuditsOwnCallsInOrder
<1>1. Inv => AuditsOwnCallsInOrder
  <2> SUFFICES ASSUME Inv, NEW c \in Clients, NEW i \in Indices(c)
               PROVE  /\ IssueOf(auditLog[c][i]).call.client = c
                      /\ IssueOf(auditLog[c][i]).call \notin raised
                      /\ \A j \in 1 .. i - 1 :
                            Abs(auditLog[c][j].id) < Abs(auditLog[c][i].id)
                              /\ IssueOf(auditLog[c][j]).call # IssueOf(auditLog[c][i]).call
    BY DEF AuditsOwnCallsInOrder
  <2>1. i \in 1 .. Len(auditLog[c]) /\ Len(auditLog[c]) \in Nat
        /\ \A j : IssueOf(auditLog[c][j]) = issued[IssueNumber(c, j)]
    BY EntryFacts
  <2>2. /\ IssueNumber(c, i) \in 1 .. Len(issued)
        /\ issued[IssueNumber(c, i)].call.client = c
        /\ issued[IssueNumber(c, i)].call \notin raised
        /\ \A j \in 1 .. i - 1 : IssueNumber(c, j) < IssueNumber(c, i)
    BY <2>1 DEF Inv, Audits
  <2>3. ASSUME NEW j \in 1 .. i - 1
        PROVE  issued[IssueNumber(c, j)].call # issued[IssueNumber(c, i)].call
    <3>1. j \in 1 .. Len(auditLog[c])
      BY <2>1
    <3>2. /\ IssueNumber(c, j) \in 1 .. Len(issued)
          /\ issued[IssueNumber(c, j)].call.client = c
      BY <3>1 DEF Inv, Audits
    <3>3. Precedes(issued[IssueNumber(c, j)].call, issued[IssueNumber(c, i)].call)
      BY <2>2, <3>2 DEF Inv, Ordered
    <3>4. issued[IssueNumber(c, j)].call \in Call
      BY <3>2 DEF Inv, Shapes
    <3>5. issued[IssueNumber(c, j)].call.number \in Nat
      BY <3>4, CallFacts
    <3> QED
      BY <2>2, <3>2, <3>3, <3>5 DEF Precedes
  <2> QED
    BY <2>1, <2>2, <2>3 DEF IssueNumber
<1> QED
  BY <1>1, InvAlways, PTL

-----------------------------------------------------------------------------
(* The refinement: what the audit trail sees of a state, and its steps. *)

View ==
    /\ \A k : k \in Made <=> k \in Call /\ Begun(k)
    /\ \A k : k \in OpenCalls <=> k \in Call /\ Begun(k) /\ ~Ended(k)
    /\ \A k : k \in ReceiptedCalls <=> \E n \in 1 .. Len(issued) : issued[n].call = k
    /\ \A k : k \in AllAudited <=> \E c \in Clients : AuditedIn(c, k)

LEMMA ViewHolds == Inv => View
<1> SUFFICES ASSUME Inv PROVE View
  OBVIOUS
<1>1. ASSUME NEW k PROVE k \in Made <=> k \in Call /\ Begun(k)
  <2>1. k \in Made <=> \E d \in Clients : \E n \in DOMAIN requests[d] :
                          k = [client |-> d, number |-> n]
    BY DEF Made
  <2>2. ASSUME NEW d \in Clients
        PROVE  /\ DOMAIN requests[d] = 1 .. Len(requests[d]) /\ Len(requests[d]) \in Nat
               /\ Len(requests[d]) <= MaxCalls /\ MaxCalls \in Nat
    BY ClientFacts
  <2>3. ASSUME NEW d \in Clients, NEW n \in DOMAIN requests[d],
               k = [client |-> d, number |-> n]
        PROVE  k \in Call /\ Begun(k)
    BY <2>2, <2>3 DEF Call, Begun
  <2>4. ASSUME k \in Call, Begun(k) PROVE k \in Made
    <3>1. k.client \in Clients /\ k.number \in DOMAIN requests[k.client]
          /\ k = [client |-> k.client, number |-> k.number]
      BY <2>2, <2>4, CallFacts DEF Begun
    <3> QED
      BY <2>1, <3>1
  <2> QED
    BY <2>1, <2>3, <2>4
<1>2. ASSUME NEW k PROVE k \in OpenCalls <=> k \in Call /\ Begun(k) /\ ~Ended(k)
  <2>1. k \in OpenCalls <=> \E d \in Clients : phase[d] = "waiting" /\ k = CurrentCall(d)
    BY DEF OpenCalls
  <2>2. ASSUME NEW d \in Clients, phase[d] = "waiting", k = CurrentCall(d)
        PROVE  k \in Call /\ Begun(k) /\ ~Ended(k)
    BY <2>2, ClientFacts
  <2>3. ASSUME k \in Call, Begun(k), ~Ended(k)
        PROVE  k.client \in Clients /\ phase[k.client] = "waiting" /\ k = CurrentCall(k.client)
    BY <2>3, CallFacts, ClientFacts DEF Begun, Ended, CurrentCall
  <2> QED
    BY <2>1, <2>2, <2>3
<1>3. \A k : k \in ReceiptedCalls <=> \E n \in 1 .. Len(issued) : issued[n].call = k
  BY SeqFacts DEF Inv, Shapes, ReceiptedCalls
<1>4. ASSUME NEW k PROVE k \in AllAudited <=> \E c \in Clients : AuditedIn(c, k)
  <2>1. \A c \in Clients : k \in AuditedCalls(c) <=> AuditedIn(c, k)
    BY EntryFacts DEF AuditedCalls, AuditedIn
  <2> QED
    BY <2>1 DEF AllAudited
<1> QED
  BY <1>1, <1>2, <1>3, <1>4 DEF View

LEMMA ViewNext == Inv' => View'
BY ViewHolds, PTL

\* Steps that concern neither callers nor receipts.
LEMMA TrailQuiet ==
    ASSUME UNCHANGED <<requests, issued, auditLog>>,
           \A d \in Clients : phase'[d] = "waiting" <=> phase[d] = "waiting"
    PROVE  UNCHANGED Trail!vars
<1>1. Made' = Made /\ ReceiptedCalls' = ReceiptedCalls
  BY DEF Made, ReceiptedCalls
<1>2. \A d : CurrentCall(d)' = CurrentCall(d)
  BY DEF CurrentCall
<1>3. OpenCalls' = OpenCalls
  BY <1>2 DEF OpenCalls
<1>4. \A d : AuditedCalls(d)' = AuditedCalls(d)
  BY DEF AuditedCalls, Indices, IssueOf
<1>5. AllAudited' = AllAudited
  BY <1>4 DEF AllAudited
<1> QED
  BY <1>1, <1>3, <1>5 DEF Trail!vars

LEMMA TrailCreate ==
    ASSUME Inv, Inv', NEW c \in Clients, NEW p \in Prompts, Create(c, p)
    PROVE  \E call \in Call : Trail!Open(call)
<1>0. PICK k0 : k0 = CurrentCall(c)'
  OBVIOUS
<1>1. /\ phase[c] = "idle" /\ MayCall(c)
      /\ phase' = [phase EXCEPT ![c] = "waiting"]
      /\ requests' = [requests EXCEPT ![c] = Append(@, p)]
      /\ UNCHANGED <<issued, auditLog>>
  BY DEF Create
<1>2. /\ phase' \in [Clients -> Phases] /\ phase'[c] = "waiting"
      /\ \A d \in Clients : d # c => phase'[d] = phase[d]
  BY <1>1, ClientFacts DEF Phases
<1>3. /\ k0 \in Call /\ ~Begun(k0)
      /\ \A k \in Call : Begun(k) => Begun(k)' /\ (Ended(k)' <=> Ended(k))
      /\ \A k \in Call : Begun(k)' => Begun(k) \/ k = k0
  BY <1>0, <1>1, <1>2, NewCall
<1>4. k0 \in OpenCalls'
  BY <1>0, <1>2 DEF OpenCalls
<1>5. View /\ View'
  BY ViewHolds, ViewNext
<1>6. Begun(k0)' /\ ~Ended(k0)'
  BY <1>4, <1>5 DEF View
<1>7. Made' = Made \union {k0} /\ k0 \notin Made
  BY <1>3, <1>5, <1>6 DEF View
<1>8. OpenCalls' = OpenCalls \union {k0}
  BY <1>3, <1>5, <1>6 DEF View
<1>9. ReceiptedCalls' = ReceiptedCalls /\ AllAudited' = AllAudited
  <2>1. \A d : AuditedCalls(d)' = AuditedCalls(d)
    BY <1>1 DEF AuditedCalls, Indices, IssueOf
  <2> QED
    BY <1>1, <2>1 DEF ReceiptedCalls, AllAudited
<1> QED
  BY <1>3, <1>7, <1>8, <1>9 DEF Trail!Open

LEMMA TrailCreateClosed ==
    ASSUME Inv, Inv', NEW c \in Clients, NEW p \in Prompts, CreateClosed(c, p)
    PROVE  \E call \in Call : Trail!Fail(call)
<1>0. PICK k0 : k0 = CurrentCall(c)'
  OBVIOUS
<1>1. /\ phase[c] = "closed" /\ MayCall(c)
      /\ requests' = [requests EXCEPT ![c] = Append(@, p)]
      /\ raised' = raised \union {k0}
      /\ UNCHANGED <<issued, auditLog, phase>>
  BY <1>0 DEF CreateClosed, serverVars
<1>2. phase' \in [Clients -> Phases] /\ phase'[c] = "closed"
  BY <1>1, ClientFacts
<1>3. /\ k0 \in Call /\ ~Begun(k0)
      /\ \A k \in Call : Begun(k) => Begun(k)' /\ (Ended(k)' <=> Ended(k))
      /\ \A k \in Call : Begun(k)' => Begun(k) \/ k = k0
  BY <1>0, <1>1, <1>2, NewCall
<1>4. Begun(k0)' /\ Ended(k0)'
  BY <1>1 DEF Inv, Known
<1>5. View /\ View'
  BY ViewHolds, ViewNext
<1>6. Made' = Made \union {k0} /\ k0 \notin Made
  BY <1>3, <1>4, <1>5 DEF View
<1>7. OpenCalls' = OpenCalls
  BY <1>3, <1>4, <1>5 DEF View
<1>8. ReceiptedCalls' = ReceiptedCalls /\ AllAudited' = AllAudited
  <2>1. \A d : AuditedCalls(d)' = AuditedCalls(d)
    BY <1>1 DEF AuditedCalls, Indices, IssueOf
  <2> QED
    BY <1>1, <2>1 DEF ReceiptedCalls, AllAudited
<1> QED
  BY <1>3, <1>6, <1>7, <1>8 DEF Trail!Fail

LEMMA TrailHandleChat ==
    ASSUME Inv, Inv', HandleChat
    PROVE  \E call \in Call : Trail!Issue(call)
<1>1. PICK new :
        serving # NoCall /\ issued' = Append(issued, new) /\ new.call = serving
  BY DEF HandleChat
<1>2. UNCHANGED <<phase, requests, auditLog>>
  BY DEF HandleChat, clientVars
<1>3. /\ serving \in Call /\ Begun(serving)
      /\ IsSeq(issued) /\ Len(issued) \in Nat
  BY <1>1, SeqFacts DEF Inv, Shapes, Known
<1>4. /\ Len(issued') = Len(issued) + 1
      /\ \A m \in 1 .. Len(issued) : issued'[m] = issued[m]
      /\ issued'[Len(issued) + 1].call = serving
  BY <1>1, <1>3, AppendAny
<1>5. \A m \in 1 .. Len(issued') : m \in 1 .. Len(issued) \/ m = Len(issued) + 1
  BY <1>3, <1>4
<1>6. View /\ View'
  BY ViewHolds, ViewNext
<1>7. ReceiptedCalls' = ReceiptedCalls \union {serving}
  <2>1. ASSUME NEW k
        PROVE  (\E m \in 1 .. Len(issued') : issued'[m].call = k)
                  <=> (\E m \in 1 .. Len(issued) : issued[m].call = k) \/ k = serving
    <3>1. 1 .. Len(issued) \subseteq 1 .. Len(issued')
          /\ Len(issued) + 1 \in 1 .. Len(issued')
      BY <1>3, <1>4
    <3> QED
      BY <1>4, <1>5, <3>1
  <2> QED
    BY <1>6, <2>1 DEF View
<1>8. serving \in Made \ ReceiptedCalls
  <2>1. ASSUME NEW m \in 1 .. Len(issued) PROVE issued[m].call # serving
    <3>1. Precedes(issued[m].call, serving)
      BY <1>1 DEF Inv, Ordered
    <3>2. serving.number \in Nat
      BY <1>3, CallFacts
    <3> QED
      BY <3>1, <3>2 DEF Precedes
  <2> QED
    BY <1>3, <1>6, <2>1 DEF View
<1>9. Made' = Made /\ OpenCalls' = OpenCalls
  <2>1. \A d : CurrentCall(d)' = CurrentCall(d)
    BY <1>2 DEF CurrentCall
  <2> QED
    BY <1>2, <2>1 DEF Made, OpenCalls
<1>10. AllAudited' = AllAudited
  <2>1. \A d, i : IssueNumber(d, i)' = IssueNumber(d, i)
    BY <1>2 DEF IssueNumber
  <2>2. ASSUME NEW d \in Clients, NEW i \in 1 .. Len(auditLog[d])
        PROVE  issued'[IssueNumber(d, i)] = issued[IssueNumber(d, i)]
    BY <1>4 DEF Inv, Audits
  <2>3. ASSUME NEW d \in Clients, NEW k
        PROVE  AuditedIn(d, k)' <=> AuditedIn(d, k)
    BY <1>2, <2>1, <2>2 DEF AuditedIn
  <2> QED
    BY <1>6, <2>3 DEF View
<1> QED
  BY <1>3, <1>7, <1>8, <1>9, <1>10 DEF Trail!Issue

\* The end of a call, to the audit trail.
LEMMA TrailEnd ==
    ASSUME Inv, Inv', NEW c \in Clients, phase[c] = "waiting",
           phase' = [phase EXCEPT ![c] = "idle"], UNCHANGED <<requests, issued>>
    PROVE  /\ CurrentCall(c) \in Call /\ CurrentCall(c) \in OpenCalls
           /\ OpenCalls' = OpenCalls \ {CurrentCall(c)}
           /\ Made' = Made /\ ReceiptedCalls' = ReceiptedCalls
<1>1. PICK k0 : k0 = CurrentCall(c)
  OBVIOUS
<1>2. /\ \A k : Begun(k)' <=> Begun(k)
      /\ \A k \in Call : Ended(k) => Ended(k)'
      /\ \A k \in Call : Begun(k) /\ Ended(k)' => Ended(k) \/ k = k0
      /\ k0 \in Call /\ Begun(k0) /\ ~Ended(k0)
  BY <1>1, CallEnds
<1>3. Ended(k0)'
  BY <1>1, CallEnds DEF Ended, CurrentCall
<1>4. View /\ View'
  BY ViewHolds, ViewNext
<1>5. k0 \in OpenCalls /\ OpenCalls' = OpenCalls \ {k0}
  BY <1>2, <1>3, <1>4 DEF View
<1> QED
  BY <1>1, <1>2, <1>5 DEF Made, ReceiptedCalls

LEMMA TrailAbort ==
    ASSUME Inv, Inv', NEW c \in Clients, Abort(c)
    PROVE  \E call \in Call : Trail!Close(call)
<1>1. /\ phase[c] = "waiting" /\ phase' = [phase EXCEPT ![c] = "idle"]
      /\ UNCHANGED <<requests, issued, auditLog>>
  BY DEF Abort, serverVars
<1>2. \A d : AuditedCalls(d)' = AuditedCalls(d)
  BY <1>1 DEF AuditedCalls, Indices, IssueOf
<1>3. AllAudited' = AllAudited
  BY <1>2 DEF AllAudited
<1> QED
  BY <1>1, <1>3, TrailEnd DEF Trail!Close

LEMMA TrailReceive ==
    ASSUME Inv, Inv', NEW c \in Clients, Receive(c)
    PROVE  \E call \in Call : Trail!Audit(call) \/ Trail!Close(call)
<1>1. /\ phase[c] = "waiting" /\ phase' = [phase EXCEPT ![c] = "idle"]
      /\ UNCHANGED <<requests, issued>>
  BY DEF Receive, serverVars
<1>2. PICK k0 : k0 = CurrentCall(c)
  OBVIOUS
<1>3. /\ k0 \in Call /\ k0 \in OpenCalls /\ OpenCalls' = OpenCalls \ {k0}
      /\ Made' = Made /\ ReceiptedCalls' = ReceiptedCalls
  BY <1>1, <1>2, TrailEnd
<1>4. PICK entry : \E n \in 1 .. Len(issued) :
        Abs(entry.id) = n /\ issued[n].call = CurrentCall(c) /\ Logs(c, entry)
  BY ReceiveEntry
<1>5. PICK n \in 1 .. Len(issued) :
        Abs(entry.id) = n /\ issued[n].call = k0 /\ Logs(c, entry)
  BY <1>2, <1>4
<1>6. View /\ View'
  BY ViewHolds, ViewNext
<1>7. CASE ~Verifies(c)
  <2>1. auditLog' = auditLog
    BY <1>5, <1>7 DEF Logs
  <2>2. \A d : AuditedCalls(d)' = AuditedCalls(d)
    BY <1>1, <2>1 DEF AuditedCalls, Indices, IssueOf
  <2>3. AllAudited' = AllAudited
    BY <2>2 DEF AllAudited
  <2> QED
    BY <1>3, <2>3 DEF Trail!Close
<1>8. CASE Verifies(c)
  <2>1. PICK T : auditLog \in [Clients -> T]
    BY DEF Inv, Shapes
  <2>2. PICK L : L = Len(auditLog[c])
    OBVIOUS
  <2>3. L \in Nat /\ IsSeq(auditLog[c])
    BY <2>2, SeqFacts DEF Inv, Shapes
  <2>4. /\ auditLog'[c] = Append(auditLog[c], entry)
        /\ \A d \in Clients : d # c => auditLog'[d] = auditLog[d]
    BY <1>5, <1>8, <2>1 DEF Logs
  <2>5. /\ Len(auditLog'[c]) = L + 1
        /\ \A i \in 1 .. L : auditLog'[c][i] = auditLog[c][i]
        /\ auditLog'[c][L + 1] = entry
    BY <2>2, <2>3, <2>4, AppendAny
  <2>6. \A i \in 1 .. L : IssueNumber(c, i)' = IssueNumber(c, i)
    BY <2>5 DEF IssueNumber
  <2>7. IssueNumber(c, L + 1)' = n
    BY <1>5, <2>5 DEF IssueNumber
  <2>8. \A i \in 1 .. L + 1 : i \in 1 .. L \/ i = L + 1
    BY <2>3
  <2>9. 1 .. L \subseteq 1 .. L + 1 /\ L + 1 \in 1 .. L + 1
    BY <2>3
  <2>10. \A k : AuditedIn(c, k)' <=> AuditedIn(c, k) \/ k = k0
    BY <1>1, <1>5, <2>2, <2>5, <2>6, <2>7, <2>8, <2>9 DEF AuditedIn
  <2>11. \A d \in Clients : d # c => \A k : AuditedIn(d, k)' <=> AuditedIn(d, k)
    BY <1>1, <2>4 DEF AuditedIn, IssueNumber
  <2>12. AllAudited' = AllAudited \union {k0}
    BY <1>6, <2>10, <2>11 DEF View
  <2>13. k0 \in ReceiptedCalls
    BY <1>5, <1>6 DEF View
  <2> QED
    BY <1>3, <2>12, <2>13 DEF Trail!Audit
<1> QED
  BY <1>7, <1>8

LEMMA TrailInit == Init => Trail!Init
<1> SUFFICES ASSUME Init PROVE Trail!Init
  OBVIOUS
<1>1. /\ requests = [c \in Clients |-> <<>>] /\ phase = [c \in Clients |-> "new"]
      /\ issued = <<>> /\ auditLog = [c \in Clients |-> <<>>]
  BY DEF Init
<1>2. Made = {} /\ OpenCalls = {} /\ ReceiptedCalls = {}
  BY <1>1 DEF Made, OpenCalls, ReceiptedCalls
<1>3. \A c \in Clients : AuditedCalls(c) = {}
  BY <1>1 DEF AuditedCalls, Indices
<1>4. AllAudited = {}
  BY <1>3 DEF AllAudited
<1> QED
  BY <1>2, <1>4 DEF Trail!Init

LEMMA TrailStep == Inv /\ Inv' /\ [Next]_vars => [Trail!Next]_Trail!vars
<1> SUFFICES ASSUME Inv, Inv', [Next]_vars PROVE [Trail!Next]_Trail!vars
  OBVIOUS
<1>1. ASSUME UNCHANGED <<requests, issued, auditLog, phase>>
      PROVE  UNCHANGED Trail!vars
  BY <1>1, TrailQuiet
<1>2. ASSUME NEW c \in Clients, NEW x \in {"discovered", "idle", "closed"},
             phase[c] # "waiting", phase' = [phase EXCEPT ![c] = x],
             UNCHANGED <<requests, issued, auditLog>>
      PROVE  UNCHANGED Trail!vars
  <2>1. phase \in [Clients -> Phases]
    BY DEF Inv, Shapes
  <2>2. \A d \in Clients : phase'[d] = "waiting" <=> phase[d] = "waiting"
    BY <1>2, <2>1
  <2> QED
    BY <1>2, <2>2, TrailQuiet
<1>3. ASSUME UNCHANGED vars PROVE UNCHANGED Trail!vars
  BY <1>1, <1>3 DEF vars, serverVars, clientVars
<1>4. ASSUME NEW c \in Clients, Discover(c) \/ Construct(c) \/ Close(c)
      PROVE  UNCHANGED Trail!vars
  BY <1>2, <1>4 DEF Discover, Construct, Close, serverVars
<1>5. ASSUME NEW c \in Clients, Upload(c) PROVE UNCHANGED Trail!vars
  BY <1>1, <1>5 DEF Upload, serverVars
<1>6. ASSUME NEW c \in Clients, Receive(c) PROVE Trail!Next
  BY <1>6, TrailReceive DEF Trail!Next
<1>7. ASSUME NEW c \in Clients, Timeout(c) \/ Refuse(c) \/ Reset(c) PROVE Trail!Next
  BY <1>7, TrailAbort DEF Timeout, Refuse, Reset, Trail!Next
<1>8. ASSUME NEW c \in Clients, NEW p \in Prompts, Create(c, p) PROVE Trail!Next
  BY <1>8, TrailCreate DEF Trail!Next
<1>9. ASSUME NEW c \in Clients, NEW p \in Prompts, CreateClosed(c, p) PROVE Trail!Next
  BY <1>9, TrailCreateClosed DEF Trail!Next
<1>10. ASSUME HandleChat PROVE Trail!Next
  BY <1>10, TrailHandleChat DEF Trail!Next
<1>11. ASSUME Accept \/ Discard \/ Serve \/ Shutdown \/ Crash \/ Restart
       PROVE  UNCHANGED Trail!vars
  BY <1>1, <1>11 DEF Accept, Discard, Serve, Shutdown, Crash, Restart, clientVars
<1> QED
  BY <1>3, <1>4, <1>5, <1>6, <1>7, <1>8, <1>9, <1>10, <1>11 DEF Next

\* Every behaviour of clients, connections and server is one of the audit trail:
\* a call is receipted and audited at most once, and audited only while its
\* caller waits for it.
THEOREM TrailRefined == Spec => ImplementsTrail
<1>1. Inv /\ [Next]_vars => [Trail!Next]_Trail!vars
  BY InvStep, TrailStep
<1>2. Init => Trail!Init
  BY TrailInit
<1> QED
  BY <1>1, <1>2, InvAlways, PTL DEF Spec, ImplementsTrail, Trail!Spec

-----------------------------------------------------------------------------
(* What the server counts. *)

\* A sum of counts is a count.
LEMMA TotalIsCount ==
    ASSUME NEW counts \in Seq(Nat)
    PROVE  Total(counts) \in Nat
<1> DEFINE top == Len(counts)
           next == [n \in Nat |-> [v \in Nat |-> IF n \in 1 .. top THEN v + counts[n] ELSE v]]
<1>1. top \in Nat /\ \A n \in 1 .. top : counts[n] \in Nat
  OBVIOUS
<1>2. next \in [Nat -> [Nat -> Nat]]
  <2>1. \A n, v \in Nat : (IF n \in 1 .. top THEN v + counts[n] ELSE v) \in Nat
    BY <1>1
  <2> HIDE DEF top
  <2> QED BY <2>1
<1>3. \A n, v \in Nat : next[n][v] = IF n \in 1 .. top THEN v + counts[n] ELSE v
  OBVIOUS
<1> HIDE DEF next, top
<1>4. PICK f : Iteration(f, 0, next, Nat)
  <2>1. IsIteration(0, next, Nat)
    BY <1>2 DEF IsIteration
  <2> QED BY <2>1, IterationHasSolution
<1>5. f \in [Nat -> Nat] /\ f[0] = 0
  BY <1>4 DEF Iteration
<1>6. ASSUME NEW n \in 0 .. top
      PROVE  f[n] = IF n = 0 THEN 0 ELSE f[n - 1] + counts[n]
  <2>1. CASE n = 0
    BY <1>5, <2>1
  <2>2. CASE n # 0
    <3>1. n - 1 \in Nat /\ n - 1 + 1 = n /\ n \in 1 .. top /\ n \in Nat
      BY <1>1, <2>2
    <3>2. f[n - 1 + 1] = next[n - 1 + 1][f[n - 1]]
      BY <1>4, <3>1 DEF Iteration
    <3>3. f[n] = next[n][f[n - 1]] /\ f[n - 1] \in Nat
      BY <1>5, <3>1, <3>2
    <3> QED BY <1>3, <2>2, <3>1, <3>3
  <2> QED BY <2>1, <2>2
<1> DEFINE g == [n \in 0 .. top |-> f[n]]
<1>7. g = [n \in 0 .. top |-> IF n = 0 THEN 0 ELSE g[n - 1] + counts[n]]
  <2>1. ASSUME NEW n \in 0 .. top
        PROVE  f[n] = IF n = 0 THEN 0 ELSE g[n - 1] + counts[n]
    <3>1. CASE n = 0
      BY <1>6, <3>1
    <3>2. CASE n # 0
      <4>1. n - 1 \in 0 .. top
        BY <1>1, <3>2
      <4> QED BY <1>6, <3>2, <4>1
    <3> QED BY <3>1, <3>2
  <2> QED BY <2>1
<1> HIDE DEF g
<1> DEFINE F == CHOOSE h : h = [n \in 0 .. top |-> IF n = 0 THEN 0 ELSE h[n - 1] + counts[n]]
<1>8. F = [n \in 0 .. top |-> IF n = 0 THEN 0 ELSE F[n - 1] + counts[n]]
  BY <1>7
<1>9. Total(counts) = F[top]
  BY DEF Total, top
<1> HIDE DEF F
<1> DEFINE S == {n \in Nat : n \in 0 .. top => F[n] \in Nat}
<1>10. ASSUME NEW n \in Nat, \A m \in 0 .. n - 1 : m \in S PROVE n \in S
  <2> SUFFICES ASSUME n \in 0 .. top PROVE F[n] \in Nat
    OBVIOUS
  <2>1. F[n] = IF n = 0 THEN 0 ELSE F[n - 1] + counts[n]
    BY <1>8
  <2>2. CASE n # 0
    <3>1. n - 1 \in 0 .. n - 1 /\ n - 1 \in 0 .. top /\ n \in 1 .. top
      BY <1>1, <2>2
    <3>2. F[n - 1] \in Nat /\ counts[n] \in Nat
      BY <1>1, <1>10, <3>1
    <3> QED BY <2>1, <2>2, <3>2
  <2> QED BY <2>1, <2>2
<1> HIDE DEF S
<1>11. top \in S
  BY <1>1, <1>10, StrongInduction
<1> QED BY <1>1, <1>9, <1>11 DEF S

\* What the server counts, of any request: never nothing.
LEMMA ServerCounts ==
    ASSUME NEW p \in Seq(Message)
    PROVE  ServerCount(JoinedLength(p)) \in Nat \ {0}
<1> DEFINE counts == [i \in DOMAIN p |-> IF p[i].kind = "text" THEN p[i].text.chars ELSE 0]
<1>1. ASSUME NEW i \in DOMAIN p
      PROVE  (IF p[i].kind = "text" THEN p[i].text.chars ELSE 0) \in Nat
  <2>1. p[i] \in Message
    OBVIOUS
  <2>2. p[i].kind = "text" => p[i].text \in Text
    BY <2>1 DEF Message
  <2> QED BY <2>2 DEF Text
<1>2. counts \in Seq(Nat)
  <2>1. DOMAIN p = 1 .. Len(p) /\ Len(p) \in Nat
    OBVIOUS
  <2> QED BY <1>1, <2>1
<1> HIDE DEF counts
<1>3. Total(counts) \in Nat
  BY <1>2, TotalIsCount
<1>4. JoinedLength(p) = Total(counts)
  BY DEF JoinedLength, counts
<1>5. ASSUME NEW n \in Nat PROVE ServerCount(n) \in Nat \ {0}
  <2>1. n \div 4 \in Nat
    OBVIOUS
  <2>2. ASSUME NEW a \in Nat PROVE Max({1, a}) \in Nat \ {0}
    <3>1. \E x \in {1, a} : \A y \in {1, a} : x >= y
      OBVIOUS
    <3>2. Max({1, a}) \in {1, a} /\ \A y \in {1, a} : Max({1, a}) >= y
      BY <3>1 DEF Max
    <3> QED BY <3>2
  <2> QED BY <2>1, <2>2 DEF ServerCount
<1> QED BY <1>3, <1>4, <1>5

-----------------------------------------------------------------------------
(* The verdicts, for a provider that signs the fields the headers carry, and *)
(* for one that signs more.                                                  *)

\* The receipt that process made as its n-th, for a prompt.
FullDetail == CHOOSE d \in Details : d # NoDetail

LEMMA FullDetailGiven == FullDetail \in Details /\ FullDetail # NoDetail
<1>1. \E d \in Details : d # NoDetail
  BY NoDetailAssumption, DetailsAssumption
<1> QED
  BY <1>1 DEF FullDetail

BodyBy(n, p) ==
    LET counted == ServerCount(JoinedLength(p))
        detail == IF SignsFull THEN FullDetail ELSE NoDetail
    IN [id |-> n, origin |-> FullDetail, input |-> counted, output |-> 12,
        total |-> counted + 12, carried |-> detail, dropped |-> detail, hash |-> NoDetail]

SignedForm(body) == IF SignsFull THEN FullCanonical(body) ELSE LegacyCanonical(body)

ReceiptBy(maker, n, p) ==
    [body |-> BodyBy(n, p), signature |-> Seal(ProcessKey(maker), SignedForm(BodyBy(n, p))),
     hasKey |-> TRUE]

LEMMA IssuedByProcess ==
    ASSUME NEW n, NEW p
    PROVE  IssuedReceipt(n, p) = ReceiptBy(process, n, p)
BY DEF IssuedReceipt, ReceiptBy, BodyBy, SignedForm, FullDetail

\* A field of a receipt of which some headers were lost, and the whole body, in
\* which a lost total is made up for by the sum.
Kept(lost, field, value, default) == IF field \in lost THEN default ELSE value

Arrived(b, n, p, lost) ==
    LET counted == ServerCount(JoinedLength(p))
        detail == IF SignsFull THEN FullDetail ELSE NoDetail
    IN \E total :
        /\ b = [id |-> n, origin |-> Kept(lost, "origin", FullDetail, NoDetail),
                input |-> Kept(lost, "input", counted, 0),
                output |-> Kept(lost, "output", 12, 0), total |-> total,
                carried |-> Kept(lost, "carried", detail, NoDetail),
                dropped |-> NoDetail, hash |-> NoDetail]
        /\ "input" \notin lost /\ "output" \notin lost => total = counted + 12

LEMMA HeadersOf ==
    ASSUME NEW maker, NEW n, NEW p, NEW lost,
           ServerCount(JoinedLength(p)) \in Nat \ {0}
    PROVE  LET r == FromHeaders(ReceiptBy(maker, n, p), lost)
           IN /\ r.signature = Kept(lost, "signature",
                                    Seal(ProcessKey(maker), SignedForm(BodyBy(n, p))), Unsigned)
              /\ r.hasKey = Kept(lost, "key", TRUE, FALSE)
              /\ Arrived(r.body, n, p, lost)
<1>1. PICK r : r = FromHeaders(ReceiptBy(maker, n, p), lost)
  OBVIOUS
<1>2. PICK counted \in Nat \ {0} : counted = ServerCount(JoinedLength(p))
  OBVIOUS
<1>3. PICK detail : detail = IF SignsFull THEN FullDetail ELSE NoDetail
  OBVIOUS
<1>4. PICK origin, input, output, total, carried :
        /\ origin = Kept(lost, "origin", FullDetail, NoDetail)
        /\ input = Kept(lost, "input", counted, 0)
        /\ output = Kept(lost, "output", 12, 0)
        /\ total = Kept(lost, "total", counted + 12, 0)
        /\ carried = Kept(lost, "carried", detail, NoDetail)
  OBVIOUS
<1>5. PICK body : body = BodyBy(n, p)
  OBVIOUS
<1>6. body = [id |-> n, origin |-> FullDetail, input |-> counted, output |-> 12,
              total |-> counted + 12, carried |-> detail, dropped |-> detail,
              hash |-> NoDetail]
  BY <1>2, <1>3, <1>5 DEF BodyBy
<1>7. PICK signed : signed = Seal(ProcessKey(maker), SignedForm(BodyBy(n, p)))
  OBVIOUS
<1>8. ReceiptBy(maker, n, p) = [body |-> body, signature |-> signed, hasKey |-> TRUE]
  BY <1>5, <1>7 DEF ReceiptBy
<1>9. PICK b : b = [id |-> n, origin |-> origin, input |-> input, output |-> output,
                    total |-> total, carried |-> carried, dropped |-> NoDetail,
                    hash |-> NoDetail]
  OBVIOUS
<1>10. r = [body |-> PostInit(b), signature |-> Kept(lost, "signature", signed, Unsigned),
            hasKey |-> Kept(lost, "key", TRUE, FALSE)]
  <2>1. PICK q : q = ReceiptBy(maker, n, p)
    OBVIOUS
  <2>2. q.body = body /\ q.signature = signed /\ q.hasKey = TRUE
    BY <1>8, <2>1
  <2>3. FromHeaders(q, lost) =
          [body |-> PostInit(
              [id |-> q.body.id, origin |-> Kept(lost, "origin", q.body.origin, NoDetail),
               input |-> Kept(lost, "input", q.body.input, 0),
               output |-> Kept(lost, "output", q.body.output, 0),
               total |-> Kept(lost, "total", q.body.total, 0),
               carried |-> Kept(lost, "carried", q.body.carried, NoDetail),
               dropped |-> NoDetail, hash |-> NoDetail]),
           signature |-> Kept(lost, "signature", q.signature, Unsigned),
           hasKey |-> Kept(lost, "key", q.hasKey, FALSE)]
    BY Zenon DEF FromHeaders, Kept
  <2>4. /\ body.id = n /\ body.origin = FullDetail /\ body.input = counted
        /\ body.output = 12 /\ body.total = counted + 12 /\ body.carried = detail
    BY <1>6
  <2> QED
    BY <1>1, <1>4, <1>9, <2>1, <2>2, <2>3, <2>4, Zenon
<1>11. \E sum :
         /\ PostInit(b) = [id |-> n, origin |-> origin, input |-> input, output |-> output,
                           total |-> sum, carried |-> carried, dropped |-> NoDetail,
                           hash |-> NoDetail]
         /\ "input" \notin lost /\ "output" \notin lost => sum = counted + 12
  <2>1. CASE total = 0
    <3>1. PostInit(b) = [b EXCEPT !.total = b.input + b.output]
      BY <1>9, <2>1 DEF PostInit
    <3>2. PostInit(b) = [id |-> n, origin |-> origin, input |-> input, output |-> output,
                         total |-> input + output, carried |-> carried,
                         dropped |-> NoDetail, hash |-> NoDetail]
      BY <1>9, <3>1
    <3>3. "input" \notin lost /\ "output" \notin lost => input + output = counted + 12
      BY <1>4 DEF Kept
    <3> QED
      BY <3>2, <3>3
  <2>2. CASE total # 0
    <3>1. PostInit(b) = b
      BY <1>9, <2>2 DEF PostInit
    <3>2. total = counted + 12
      BY <1>4, <2>2 DEF Kept
    <3> QED
      BY <1>9, <3>1, <3>2
  <2> QED
    BY <2>1, <2>2
<1>12. Arrived(PostInit(b), n, p, lost)
  BY <1>2, <1>3, <1>4, <1>11, Zenon DEF Arrived
<1>13. /\ r.body = PostInit(b) /\ r.signature = Kept(lost, "signature", signed, Unsigned)
       /\ r.hasKey = Kept(lost, "key", TRUE, FALSE)
  BY <1>10
<1> QED
  BY <1>1, <1>7, <1>12, <1>13, Zenon

\* The legacy form of a body without the fields it leaves out is all of it.
LEMMA LegacyOfShort ==
    ASSUME NEW body, body = [f \in DOMAIN body |-> body[f]],
           body.carried = NoDetail, body.dropped = NoDetail
    PROVE  LegacyCanonical(body) = [form |-> "legacy", body |-> body]
<1>1. [body EXCEPT !.carried = NoDetail, !.dropped = NoDetail] = body
  OBVIOUS
<1> QED
  BY <1>1 DEF LegacyCanonical

\* Of what was signed, a verifier tries the right form only if no field of it
\* was dropped, and none it covers was lost.
LEMMA FormsTried ==
    ASSUME NEW n, NEW p, NEW lost, NEW b, Arrived(b, n, p, lost),
           ServerCount(JoinedLength(p)) \in Nat \ {0}
    PROVE  SignedForm(BodyBy(n, p)) \in Canonicals(b)
               <=> ~SignsFull /\ lost \intersect {"origin", "input", "output"} = {}
<1>1. PICK counted \in Nat \ {0} : counted = ServerCount(JoinedLength(p))
  OBVIOUS
<1>2. PICK body : body = BodyBy(n, p)
  OBVIOUS
<1>3. FullDetail # NoDetail
  BY FullDetailGiven
<1>4. PICK detail : detail = IF SignsFull THEN FullDetail ELSE NoDetail
  OBVIOUS
<1>5. body = [id |-> n, origin |-> FullDetail, input |-> counted, output |-> 12,
              total |-> counted + 12, carried |-> detail, dropped |-> detail,
              hash |-> NoDetail]
  BY <1>1, <1>2, <1>4 DEF BodyBy
<1>6. PICK origin, input, output, total, carried :
        /\ origin = Kept(lost, "origin", FullDetail, NoDetail)
        /\ input = Kept(lost, "input", counted, 0)
        /\ output = Kept(lost, "output", 12, 0)
        /\ carried = Kept(lost, "carried", detail, NoDetail)
        /\ b = [id |-> n, origin |-> origin, input |-> input, output |-> output,
                total |-> total, carried |-> carried, dropped |-> NoDetail,
                hash |-> NoDetail]
        /\ "input" \notin lost /\ "output" \notin lost => total = counted + 12
  BY <1>1, <1>4, Zenon DEF Arrived
<1>7. CASE SignsFull
  <2>1. body.dropped = FullDetail /\ b.dropped = NoDetail
    BY <1>7, <1>4, <1>5, <1>6
  <2>2. SignedForm(body) = [form |-> "full", body |-> body]
    BY <1>7 DEF SignedForm, FullCanonical
  <2>3. SignedForm(body) # FullCanonical(b)
    <3>1. SignedForm(body).body = body /\ FullCanonical(b).body = b
      BY <2>2 DEF FullCanonical
    <3> QED
      BY <1>3, <2>1, <3>1
  <2>4. SignedForm(body) # LegacyCanonical(b)
    <3>1. SignedForm(body).form = "full" /\ LegacyCanonical(b).form = "legacy"
      BY <2>2 DEF LegacyCanonical
    <3> QED
      BY <3>1
  <2> QED
    BY <1>2, <1>7, <2>3, <2>4 DEF Canonicals
<1>8. CASE ~SignsFull
  <2>1. detail = NoDetail /\ carried = NoDetail
    BY <1>8, <1>4, <1>6 DEF Kept
  <2>2. SignedForm(body) = [form |-> "legacy", body |-> body]
    <3>1. body = [f \in DOMAIN body |-> body[f]]
      BY <1>5
    <3>2. body.carried = NoDetail /\ body.dropped = NoDetail
      BY <1>5, <2>1
    <3> QED
      BY <1>8, <3>1, <3>2, LegacyOfShort DEF SignedForm
  <2>3. LegacyCanonical(b) = [form |-> "legacy", body |-> b]
    <3>1. b = [f \in DOMAIN b |-> b[f]]
      BY <1>6
    <3>2. b.carried = NoDetail /\ b.dropped = NoDetail
      BY <1>6, <2>1
    <3> QED
      BY <3>1, <3>2, LegacyOfShort
  <2>4. SignedForm(body) # FullCanonical(b)
    <3>1. SignedForm(body).form = "legacy" /\ FullCanonical(b).form = "full"
      BY <2>2 DEF FullCanonical
    <3> QED
      BY <3>1
  <2>5. SignedForm(body) = LegacyCanonical(b) <=> body = b
    <3>1. SignedForm(body).body = body /\ LegacyCanonical(b).body = b
      BY <2>2, <2>3
    <3> QED
      BY <2>2, <2>3, <3>1
  <2>6. body = b <=> lost \intersect {"origin", "input", "output"} = {}
    <3>1. ASSUME body = b PROVE lost \intersect {"origin", "input", "output"} = {}
      <4>1. origin = FullDetail /\ input = counted /\ output = 12
        BY <1>5, <1>6, <3>1
      <4> QED
        BY <1>3, <1>6, <4>1 DEF Kept
    <3>2. ASSUME lost \intersect {"origin", "input", "output"} = {} PROVE body = b
      <4>1. "origin" \notin lost /\ "input" \notin lost /\ "output" \notin lost
        BY <3>2
      <4>2. origin = FullDetail /\ input = counted /\ output = 12 /\ total = counted + 12
        BY <1>6, <4>1 DEF Kept
      <4> QED
        BY <1>5, <1>6, <2>1, <4>2
    <3> QED
      BY <3>1, <3>2
  <2> QED
    BY <1>2, <1>8, <2>4, <2>5, <2>6 DEF Canonicals
<1> QED
  BY <1>7, <1>8

\* Rebuilt from headers, a receipt is genuine for the key of its maker, if the
\* maker signs what the headers carry and all of them arrived, and otherwise an
\* error as long as it has a signature.
LEMMA HeaderVerdict ==
    ASSUME NEW maker, NEW n, NEW p, NEW key \in Keys, NEW local, NEW lost,
           "id" \notin lost, ServerCount(JoinedLength(p)) \in Nat \ {0}
    PROVE  LET e == Result(key, FromHeaders(ReceiptBy(maker, n, p), lost), local)
           IN /\ e.id = n /\ e.local = local
              /\ e.input = Kept(lost, "input", ServerCount(JoinedLength(p)), 0)
              /\ e.output = Kept(lost, "output", 12, 0)
              /\ e.genuine <=> /\ ~SignsFull /\ key = ProcessKey(maker)
                               /\ lost \intersect Needed = {}
              /\ "signature" \notin lost => (e.status = "error" <=> ~e.genuine)
<1>1. PICK r : r = FromHeaders(ReceiptBy(maker, n, p), lost)
  OBVIOUS
<1>2. PICK message : message = SignedForm(BodyBy(n, p))
  OBVIOUS
<1>0. Arrived(r.body, n, p, lost)
  BY <1>1, HeadersOf, Zenon
<1>3. PICK b : r.body = b /\ Arrived(b, n, p, lost)
  BY <1>0, Zenon
<1>4. /\ r.signature = IF "signature" \in lost THEN Unsigned
                       ELSE Seal(ProcessKey(maker), message)
      /\ r.hasKey = IF "key" \in lost THEN FALSE ELSE TRUE
  <2>1. PICK sealed, public :
            sealed = Kept(lost, "signature", Seal(ProcessKey(maker), message), Unsigned)
              /\ public = Kept(lost, "key", TRUE, FALSE)
    OBVIOUS
  <2>2. r.signature = sealed /\ r.hasKey = public
    <3>1. LET q == FromHeaders(ReceiptBy(maker, n, p), lost)
          IN /\ q.signature = Kept(lost, "signature",
                                   Seal(ProcessKey(maker), SignedForm(BodyBy(n, p))), Unsigned)
             /\ q.hasKey = Kept(lost, "key", TRUE, FALSE)
             /\ Arrived(q.body, n, p, lost)
      BY HeadersOf
    <3> QED
      BY <1>1, <1>2, <2>1, <3>1
  <2> QED
    BY <2>1, <2>2 DEF Kept
<1>5. "signature" \notin lost => r.signature # Unsigned /\ r.signature.kind = "seal"
  <2>1. Seal(ProcessKey(maker), message).kind = "seal" /\ Unsigned.kind = "none"
    BY DEF Seal, Unsigned
  <2> QED
    BY <1>4, <2>1
<1>6. Genuine(key, r) <=> /\ ~SignsFull /\ key = ProcessKey(maker)
                          /\ lost \intersect Needed = {}
  <2>1. CASE "signature" \in lost \/ "key" \in lost
    <3>1. ~Genuine(key, r)
      BY <1>4, <2>1 DEF Genuine, Consults
    <3>2. lost \intersect Needed # {}
      BY <2>1 DEF Needed
    <3> QED
      BY <3>1, <3>2
  <2>2. CASE "signature" \notin lost /\ "key" \notin lost
    <3>1. Genuine(key, r) <=> r.signature \in {Seal(key, m) : m \in Canonicals(b)}
      BY <1>3, <1>4, <1>5, <2>2 DEF Genuine, Consults
    <3>2. \A k, l, m, o : Seal(k, m) = Seal(l, o) <=> k = l /\ m = o
      <4>1. ASSUME NEW k, NEW l, NEW m, NEW o, Seal(k, m) = Seal(l, o) PROVE k = l /\ m = o
        <5>1. Seal(k, m).key = k /\ Seal(l, o).key = l
          BY DEF Seal
        <5>2. Seal(k, m).message = m /\ Seal(l, o).message = o
          BY DEF Seal
        <5> QED BY <4>1, <5>1, <5>2
      <4> QED BY <4>1
    <3>3. r.signature \in {Seal(key, m) : m \in Canonicals(b)}
            <=> key = ProcessKey(maker) /\ message \in Canonicals(b)
      BY <1>4, <2>2, <3>2
    <3>4. message \in Canonicals(b)
            <=> ~SignsFull /\ lost \intersect {"origin", "input", "output"} = {}
      BY <1>2, <1>3, FormsTried
    <3>5. lost \intersect {"origin", "input", "output"} = {}
            <=> lost \intersect Needed = {}
      BY <2>2 DEF Needed
    <3> QED
      BY <3>1, <3>3, <3>4, <3>5
  <2> QED
    BY <2>1, <2>2
<1>7. PICK e : e = Result(key, r, local)
  OBVIOUS
<1>8. /\ e.id = b.id /\ e.input = b.input /\ e.output = b.output
      /\ e.local = local /\ e.genuine = Genuine(key, r)
      /\ e.status = Status(r, Genuine(key, r), WithinThreshold(b, local))
  BY <1>3, <1>7 DEF Result
<1>9. /\ e.id = n /\ e.input = Kept(lost, "input", ServerCount(JoinedLength(p)), 0)
      /\ e.output = Kept(lost, "output", 12, 0)
  <2>1. /\ b.id = n /\ b.input = Kept(lost, "input", ServerCount(JoinedLength(p)), 0)
        /\ b.output = Kept(lost, "output", 12, 0)
    BY <1>3 DEF Arrived
  <2> QED
    BY <1>8, <2>1
<1>10. "signature" \notin lost => (e.status = "error" <=> ~e.genuine)
  BY <1>5, <1>8 DEF Status
<1>11. e.genuine <=> /\ ~SignsFull /\ key = ProcessKey(maker)
                     /\ lost \intersect Needed = {}
  BY <1>6, <1>8
<1> QED
  BY <1>1, <1>7, <1>8, <1>9, <1>10, <1>11

\* Rebuilt from the usage it is not genuine.
LEMMA UsageVerdict ==
    ASSUME NEW maker, NEW n, NEW p, NEW key, NEW local
    PROVE  LET r == ReceiptBy(maker, n, p)
               e == Result(key, FromUsage([r.body EXCEPT !.id = -@]), local)
           IN /\ e.id = -n /\ e.input = ServerCount(JoinedLength(p)) /\ e.output = 12
              /\ e.local = local /\ ~e.genuine
<1>1. PICK r : r = ReceiptBy(maker, n, p)
  OBVIOUS
<1>2. PICK counted : counted = ServerCount(JoinedLength(p))
  OBVIOUS
<1>0. PICK detail : detail = IF SignsFull THEN FullDetail ELSE NoDetail
  OBVIOUS
<1>3. r.body = [id |-> n, origin |-> FullDetail, input |-> counted, output |-> 12,
                total |-> counted + 12, carried |-> detail, dropped |-> detail,
                hash |-> NoDetail]
  BY <1>0, <1>1, <1>2 DEF ReceiptBy, BodyBy
<1>4. PICK b : b = [r.body EXCEPT !.id = -@]
  OBVIOUS
<1>5. b = [id |-> -n, origin |-> FullDetail, input |-> counted, output |-> 12,
           total |-> counted + 12, carried |-> detail, dropped |-> detail,
           hash |-> NoDetail]
  BY <1>3, <1>4
<1>6. PICK d : d = [b EXCEPT !.origin = NoDetail, !.carried = NoDetail,
                             !.dropped = NoDetail, !.hash = NoDetail]
  OBVIOUS
<1>7. d = [id |-> -n, origin |-> NoDetail, input |-> counted, output |-> 12,
           total |-> counted + 12, carried |-> NoDetail, dropped |-> NoDetail,
           hash |-> NoDetail]
  BY <1>5, <1>6
<1>8. PostInit(d).id = -n /\ PostInit(d).input = counted /\ PostInit(d).output = 12
  BY <1>7 DEF PostInit
<1>9. PICK u : u = FromUsage(b)
  OBVIOUS
<1>10. u.body = PostInit(d) /\ u.signature = Unsigned
  BY <1>6, <1>9 DEF FromUsage
<1>11. ~Genuine(key, u)
  BY <1>10 DEF Genuine, Consults
<1>12. PICK e : e = Result(key, u, local)
  OBVIOUS
<1>13. /\ e.id = u.body.id /\ e.input = u.body.input /\ e.output = u.body.output
       /\ e.local = local /\ e.genuine = Genuine(key, u)
  BY <1>12 DEF Result
<1> QED
  BY <1>1, <1>2, <1>4, <1>8, <1>9, <1>10, <1>11, <1>12, <1>13

-----------------------------------------------------------------------------
(* The second inductive invariant: what answers and entries say. *)

Processes ==
    /\ process \in 0 .. MaxRestarts /\ (server = "down" => process < MaxRestarts)
    /\ found \in [Clients -> 0 .. MaxRestarts]
    /\ \A n \in 1 .. Len(issued) : issued[n].process \in 0 .. MaxRestarts

\* r is the n-th receipt, made for the prompt of the call k.
Sound(r, n, k) ==
    /\ issued[n].call = k /\ Sent(k) # NullMessages
    /\ r = ReceiptBy(issued[n].process, n, MessagesOf(Sent(k)))
    /\ issued[n].body = r.body

SoundAnswer(r, k) == \E n \in 1 .. Len(issued) : Sound(r, n, k)

AnswersSound ==
    \A c \in Clients : answer[c] # NoAnswer => SoundAnswer(answer[c], CurrentCall(c))

\* An entry e of c's log about the issue number n.
EntrySound(e, n, c) ==
    /\ e.genuine <=> /\ ~SignsFull /\ (Seeded \/ issued[n].process = found[c])
                     /\ e.lost \intersect Needed = {}
    /\ e.lost \intersect {"id", "signature"} = {} => (e.status = "error" <=> ~e.genuine)
    /\ e.genuine => e.input = issued[n].body.input /\ e.output = issued[n].body.output
    /\ Sent(issued[n].call) \notin {NullMessages, NoArguments}
    /\ e.input = IF FromHeader(e) /\ "input" \in e.lost THEN 0
                 ELSE ServerCount(JoinedLength(Sent(issued[n].call)))
    /\ e.local.input = Recount(Sent(issued[n].call))

EntryOf(e, n, c) == \E i \in 1 .. Len(auditLog[c]) : e = auditLog[c][i] /\ n = IssueNumber(c, i)

EntriesSound == \A c \in Clients : \A e, n : EntryOf(e, n, c) => EntrySound(e, n, c)

Truth == Processes /\ AnswersSound /\ EntriesSound

LEMMA EntryOfFacts ==
    ASSUME Inv, NEW c \in Clients, NEW e, NEW n, EntryOf(e, n, c)
    PROVE  /\ n \in 1 .. Len(issued) /\ issued[n].call \in Call
           /\ Begun(issued[n].call) /\ Ended(issued[n].call)
           /\ n = Abs(e.id)
BY DEF Inv, Shapes, Known, Audits, EntryOf, IssueNumber

LEMMA TruthInit == Init => Truth
<1> SUFFICES ASSUME Init PROVE Truth
  OBVIOUS
<1>1. /\ server = "stopped" /\ process = 0 /\ issued = <<>>
      /\ found = [c \in Clients |-> 0] /\ answer = [c \in Clients |-> NoAnswer]
      /\ auditLog = [c \in Clients |-> <<>>] /\ MaxRestarts \in Nat
  BY BoundsAssumption DEF Init
<1> QED
  BY <1>1 DEF Truth, Processes, AnswersSound, EntriesSound, EntryOf

\* Later steps leave the facts about a receipt and its prompt as they were.
LEMMA FactsKept ==
    ASSUME Inv, Truth,
           \A m \in 1 .. Len(issued) : m \in 1 .. Len(issued') /\ issued'[m] = issued[m],
           \A k \in Call : Begun(k) => Sent(k)' = Sent(k),
           \A d \in Clients : found'[d] = found[d] \/ auditLog[d] = <<>>
    PROVE  /\ \A c \in Clients : \A e, n : EntryOf(e, n, c) => EntrySound(e, n, c)'
           /\ \A c \in Clients : \A r, k :
                answer[c] # NoAnswer /\ r = answer[c] /\ k = CurrentCall(c)
                    => SoundAnswer(r, k)'
<1>1. ASSUME NEW c \in Clients, NEW e, NEW n, EntryOf(e, n, c)
      PROVE  EntrySound(e, n, c)'
  <2>1. /\ n \in 1 .. Len(issued) /\ issued[n].call \in Call /\ Begun(issued[n].call)
    BY <1>1, EntryOfFacts
  <2>2. EntrySound(e, n, c)
    BY <1>1 DEF Truth, EntriesSound
  <2>3. issued'[n] = issued[n]
    BY <2>1
  <2>4. PICK k \in Call : k = issued[n].call /\ Begun(k)
    BY <2>1
  <2>5. Sent(k)' = Sent(k)
    BY <2>4
  <2>6. found'[c] = found[c]
    <3>1. auditLog[c] # <<>>
      BY <1>1 DEF EntryOf
    <3> QED
      BY <3>1
  <2>7. (FromHeader(e)' <=> FromHeader(e))
    BY DEF FromHeader
  <2>8. k = issued'[n].call
    BY <2>3, <2>4
  <2>9. requests'[k.client][k.number] = requests[k.client][k.number]
    BY <2>5 DEF Sent
  <2> QED
    BY <2>2, <2>3, <2>4, <2>6, <2>7, <2>8, <2>9 DEF EntrySound, Sent
<1>2. ASSUME NEW c \in Clients, NEW r, NEW k,
             answer[c] # NoAnswer, r = answer[c], k = CurrentCall(c)
      PROVE  SoundAnswer(r, k)'
  <2>1. k \in Call /\ Begun(k)
    BY <1>2, ClientFacts DEF Inv, Answers
  <2>2. Sent(k)' = Sent(k)
    BY <2>1
  <2>3. PICK n \in 1 .. Len(issued) : Sound(r, n, k)
    BY <1>2 DEF Truth, AnswersSound, SoundAnswer
  <2>4. n \in 1 .. Len(issued') /\ issued'[n] = issued[n]
    OBVIOUS
  <2>5. Sound(r, n, k)'
    BY <2>2, <2>3, <2>4 DEF Sound, ReceiptBy, ProcessKey, BodyBy
  <2> QED
    BY <2>4, <2>5 DEF SoundAnswer
<1> QED
  BY <1>1, <1>2

\* Steps that sign and log nothing.
LEMMA TruthKept ==
    ASSUME Inv, Truth, UNCHANGED <<issued, auditLog>>, Processes',
           \A d \in Clients : found'[d] = found[d] \/ auditLog[d] = <<>>,
           \A d \in Clients : \/ requests'[d] = requests[d]
                              \/ answer[d] = NoAnswer
                                    /\ \E p : requests'[d] = Append(requests[d], p),
           \A d \in Clients : answer'[d] \in {answer[d], NoAnswer}
    PROVE  Truth'
<1>1. ASSUME NEW k \in Call, Begun(k)
      PROVE  Sent(k)' = Sent(k)
  <2>1. k.client \in Clients /\ k.number \in 1 .. MaxCalls
    BY CallFacts
  <2>2. requests[k.client] \in Seq(Prompts) /\ k.number \in 1 .. Len(requests[k.client])
    BY <1>1, <2>1 DEF Inv, Shapes, Begun
  <2>3. IsSeq(requests[k.client])
    BY <2>2 DEF IsSeq
  <2>4. requests'[k.client][k.number] = requests[k.client][k.number]
    BY <2>1, <2>2, <2>3, AppendAny
  <2> QED
    BY <2>4 DEF Sent
<1>2. /\ \A c \in Clients : \A e, n : EntryOf(e, n, c) => EntrySound(e, n, c)'
      /\ \A c \in Clients : \A r, k :
           answer[c] # NoAnswer /\ r = answer[c] /\ k = CurrentCall(c) => SoundAnswer(r, k)'
  BY <1>1, FactsKept
<1>3. EntriesSound'
  <2>1. \A c, e, n : EntryOf(e, n, c)' <=> EntryOf(e, n, c)
    BY DEF EntryOf, IssueNumber
  <2> QED
    BY <1>2, <2>1 DEF EntriesSound
<1>4. AnswersSound'
  <2>1. ASSUME NEW c \in Clients, answer'[c] # NoAnswer
        PROVE  SoundAnswer(answer[c], CurrentCall(c))'
    <3>1. answer'[c] = answer[c] /\ answer[c] # NoAnswer /\ requests'[c] = requests[c]
      BY <2>1
    <3>2. CurrentCall(c)' = CurrentCall(c)
      BY <3>1 DEF CurrentCall
    <3>3. PICK r, k : r = answer[c] /\ k = CurrentCall(c)
      OBVIOUS
    <3>4. SoundAnswer(r, k)'
      BY <1>2, <3>1, <3>3
    <3> QED
      BY <3>1, <3>2, <3>3, <3>4 DEF SoundAnswer, Sound
  <2> QED
    BY <2>1 DEF AnswersSound
<1> QED
  BY <1>3, <1>4 DEF Truth

\* A new receipt is what its maker makes for the prompt it answers.
LEMMA TruthHandleChat ==
    ASSUME Inv, Truth, HandleChat
    PROVE  Truth'
<1>1. PICK k \in Call : k = serving
  BY DEF HandleChat, Inv, Shapes
<1>2. PICK p : p = (IF k \in uploaded THEN MessagesOf(Sent(k)) ELSE EmptyPrompt)
  OBVIOUS
<1>3. PICK n : n = Len(issued) + 1
  OBVIOUS
<1>4. PICK r : r = ReceiptBy(process, n, p)
  OBVIOUS
<1>5. IssuedReceipt(Len(issued) + 1, p) = r
  BY <1>3, <1>4, IssuedByProcess
<1>6. /\ issued' = Append(issued, [call |-> k, process |-> process, body |-> r.body])
      /\ answer' = IF Waiting(k) THEN [answer EXCEPT ![k.client] = r] ELSE answer
      /\ IF k \in uploaded THEN Sent(k) # NullMessages ELSE ~Waiting(k)
      /\ UNCHANGED <<server, process, found, phase, requests, auditLog>>
  BY <1>1, <1>2, <1>5 DEF HandleChat, clientVars
<1>7. PICK new : new = [call |-> k, process |-> process, body |-> r.body]
  OBVIOUS
<1>8. IsSeq(issued) /\ Len(issued) \in Nat
  BY SeqFacts DEF Inv, Shapes
<1>9. /\ Len(issued') = n /\ issued'[n] = new
      /\ \A m \in 1 .. Len(issued) : m \in 1 .. n /\ issued'[m] = issued[m]
      /\ \A m \in 1 .. n : m \in 1 .. Len(issued) \/ m = n
      /\ n \in 1 .. n
  BY <1>3, <1>6, <1>7, <1>8, AppendAny
<1>10. Processes'
  <2>1. \A m \in 1 .. n : issued'[m].process \in 0 .. MaxRestarts
    BY <1>7, <1>9 DEF Truth, Processes
  <2> QED
    BY <1>6, <1>9, <2>1 DEF Truth, Processes
<1>11. \A l : Sent(l)' = Sent(l) /\ CurrentCall(l)' = CurrentCall(l)
  BY <1>6 DEF Sent, CurrentCall
<1>12. /\ \A c \in Clients : \A e, m : EntryOf(e, m, c) => EntrySound(e, m, c)'
       /\ \A c \in Clients : \A a, l :
            answer[c] # NoAnswer /\ a = answer[c] /\ l = CurrentCall(c) => SoundAnswer(a, l)'
  BY <1>6, <1>9, <1>11, FactsKept
<1>13. EntriesSound'
  <2>1. \A c, e, m : EntryOf(e, m, c)' <=> EntryOf(e, m, c)
    BY <1>6 DEF EntryOf, IssueNumber
  <2> QED
    BY <1>12, <2>1 DEF EntriesSound
<1>14. ASSUME Waiting(k) PROVE SoundAnswer(r, k)'
  <2>1. k \in uploaded /\ p = MessagesOf(Sent(k)) /\ Sent(k) # NullMessages
    BY <1>2, <1>6, <1>14
  <2>2. Sent(k)' = Sent(k)
    BY <1>11
  <2>3. issued'[n].call = k /\ issued'[n].process = process /\ issued'[n].body = r.body
    BY <1>7, <1>9
  <2>4. Sound(r, n, k)'
    BY <1>4, <2>1, <2>2, <2>3 DEF Sound, ReceiptBy, ProcessKey
  <2> QED
    BY <1>9, <2>4 DEF SoundAnswer
<1>15. AnswersSound'
  <2>1. ASSUME NEW c \in Clients, answer'[c] # NoAnswer
        PROVE  SoundAnswer(answer[c], CurrentCall(c))'
    <3>1. CASE Waiting(k) /\ c = k.client
      <4>1. k = CurrentCall(c) /\ answer'[c] = r
        BY <1>6, <3>1 DEF Waiting, Inv, Shapes
      <4>2. CurrentCall(c)' = k
        BY <1>11, <4>1
      <4> QED
        BY <1>14, <3>1, <4>1, <4>2 DEF SoundAnswer, Sound
    <3>2. CASE ~(Waiting(k) /\ c = k.client)
      <4>1. answer'[c] = answer[c]
        BY <1>6, <3>2 DEF Inv, Shapes
      <4>2. PICK a, l : a = answer[c] /\ l = CurrentCall(c)
        OBVIOUS
      <4>3. SoundAnswer(a, l)'
        BY <1>12, <2>1, <4>1, <4>2
      <4>4. CurrentCall(c)' = l
        BY <1>11, <4>2
      <4> QED
        BY <4>1, <4>2, <4>3, <4>4 DEF SoundAnswer, Sound
    <3> QED
      BY <3>1, <3>2
  <2> QED
    BY <2>1 DEF AnswersSound
<1> QED
  BY <1>10, <1>13, <1>15 DEF Truth

\* The keys of processes differ exactly when they are not handed one seed.
LEMMA KeysOfProcesses ==
    ASSUME NEW p \in 0 .. MaxRestarts, NEW q \in 0 .. MaxRestarts
    PROVE  /\ ProcessKey(p) \in Keys
           /\ ProcessKey(p) # ProcessKey(q) <=> ~Seeded /\ q # p
<1>1. 0 \in 0 .. MaxRestarts
  BY BoundsAssumption
<1> QED
  BY <1>1, KeysAssumption, SwitchesAssumption DEF ProcessKey

\* The entry logged says of the receipt issued what its maker's key decides.
LEMMA TruthReceive ==
    ASSUME Inv, Truth, NEW c \in Clients, Receive(c)
    PROVE  Truth'
<1>1. /\ phase[c] = "waiting" /\ answer[c] # NoAnswer
      /\ answer' = [answer EXCEPT ![c] = NoAnswer]
      /\ UNCHANGED <<server, process, issued, found, validating, requests>>
  BY DEF Receive, serverVars, clientVars
<1>2. Processes'
  BY <1>1 DEF Truth, Processes
<1>3. PICK k, r : k = CurrentCall(c) /\ r = answer[c]
  OBVIOUS
<1>4. k \in Call /\ k.client = c /\ k.number = Len(requests[c])
      /\ requests[c] \in Seq(Prompts)
  BY <1>1, <1>3, ClientFacts, CallFacts
<1>5. PICK n \in 1 .. Len(issued) : Sound(r, n, k)
  BY <1>1, <1>3 DEF Truth, AnswersSound, SoundAnswer
<1>6. PICK p, q : p = Sent(k) /\ q = MessagesOf(p)
  OBVIOUS
<1>7. PICK maker \in 0 .. MaxRestarts : maker = issued[n].process
  BY DEF Truth, Processes
<1>8. /\ r = ReceiptBy(maker, n, q) /\ issued[n].call = k /\ p # NullMessages
      /\ issued[n].body = r.body
  BY <1>5, <1>6, <1>7 DEF Sound
<1>9. Last(requests[c]) = p
  BY <1>4, <1>6 DEF Last, Sent
<1>10. found[c] \in 0 .. MaxRestarts
  BY DEF Truth, Processes
<1>11. PICK key \in Keys : key = ProcessKey(found[c])
  BY <1>10, KeysOfProcesses
<1>12. key = ProcessKey(maker) <=> Seeded \/ maker = found[c]
  BY <1>10, <1>11, KeysOfProcesses
<1>13. n \in Nat /\ n > 0
  BY SeqFacts DEF Inv, Shapes
<1>14. PICK local : local = [input |-> Recount(p), output |-> ApproximateCount(CannedAnswer)]
  OBVIOUS
<1>15. PICK counted : counted = ServerCount(JoinedLength(p))
  OBVIOUS
<1>16. ASSUME Verifies(c)
       PROVE  p # NoArguments /\ q = p /\ counted \in Nat \ {0}
  <2>1. p # NoArguments /\ q = p
    BY <1>6, <1>9, <1>16 DEF Verifies, MessagesOf
  <2>2. p \in Prompts
    BY <1>1, <1>4, <1>6, ClientFacts DEF Sent, Begun, Inv, Known
  <2>3. p \in Seq(Message)
    BY <1>8, <2>1, <2>2, PromptsAssumption
  <2> QED
    BY <1>15, <2>1, <2>3, ServerCounts
<1>17. PICK entry :
         /\ Verifies(c) => \E lost : entry = Audited(Result(key, Rebuilt(r, lost), local), lost)
         /\ Logs(c, entry)
  <2>1. CASE ~Verifies(c)
    BY <2>1 DEF Receive, Logs, Verifies
  <2>2. CASE Verifies(c)
    <3>1. PICK lost \in Losses : \E result \in {Verdict(c, lost)} :
            auditLog' = [auditLog EXCEPT ![c] = Append(@, Audited(result, lost))]
      BY <2>2 DEF Receive, Logged, Verifies
    <3>2. Verdict(c, lost) = Result(key, Rebuilt(r, lost), local)
      BY <1>3, <1>9, <1>11, <1>14 DEF Verdict
    <3>3. PICK e : e = Audited(Verdict(c, lost), lost)
      OBVIOUS
    <3>4. Logs(c, e)
      BY <2>2, <3>1, <3>3 DEF Logs
    <3> QED
      BY <3>2, <3>3, <3>4
  <2> QED
    BY <2>1, <2>2
<1>18. ASSUME Verifies(c) PROVE EntrySound(entry, n, c) /\ Abs(entry.id) = n
  <2>1. PICK lost : entry = Audited(Result(key, Rebuilt(r, lost), local), lost)
    BY <1>17, <1>18
  <2>2. PICK result : result = Result(key, Rebuilt(r, lost), local)
    OBVIOUS
  <2>3. /\ entry.id = result.id /\ entry.input = result.input /\ entry.output = result.output
        /\ entry.local = result.local /\ entry.genuine = result.genuine
        /\ entry.status = result.status /\ entry.lost = lost
    BY <2>1, <2>2 DEF Audited
  <2>4. /\ q = p /\ counted \in Nat \ {0} /\ r = ReceiptBy(maker, n, p)
        /\ p \notin {NullMessages, NoArguments}
    BY <1>8, <1>16, <1>18
  <2>5. r.body.input = counted /\ r.body.output = 12
    BY <1>15, <2>4 DEF ReceiptBy, BodyBy
  <2>6. local.input = Recount(p)
    BY <1>14
  <2>7. CASE "id" \notin lost
    <3>1. result = Result(key, FromHeaders(ReceiptBy(maker, n, p), lost), local)
      BY <2>2, <2>4, <2>7 DEF Rebuilt
    <3>2. /\ result.id = n /\ result.local = local
          /\ result.input = Kept(lost, "input", counted, 0)
          /\ result.output = Kept(lost, "output", 12, 0)
          /\ result.genuine <=> /\ ~SignsFull /\ key = ProcessKey(maker)
                                /\ lost \intersect Needed = {}
          /\ "signature" \notin lost => (result.status = "error" <=> ~result.genuine)
      BY <1>15, <2>4, <2>7, <3>1, HeaderVerdict
    <3>3. FromHeader(entry) /\ Abs(entry.id) = n
      BY <1>13, <2>3, <3>2, AbsOfEither DEF FromHeader
    <3>4. entry.genuine <=> /\ ~SignsFull /\ (Seeded \/ issued[n].process = found[c])
                            /\ entry.lost \intersect Needed = {}
      BY <1>7, <1>12, <2>3, <3>2
    <3>5. entry.genuine => entry.input = counted /\ entry.output = 12
      BY <2>3, <3>2, <3>4 DEF Kept, Needed
    <3>6. /\ entry.input = IF "input" \in entry.lost THEN 0 ELSE counted
          /\ entry.local.input = Recount(p)
      BY <2>3, <2>6, <3>2 DEF Kept
    <3>7. entry.lost \intersect {"id", "signature"} = {}
            => (entry.status = "error" <=> ~entry.genuine)
      BY <2>3, <3>2
    <3> QED
      BY <1>6, <1>8, <1>15, <2>4, <2>5, <3>3, <3>4, <3>5, <3>6, <3>7 DEF EntrySound
  <2>8. CASE "id" \in lost
    <3>1. result = Result(key, FromUsage([r.body EXCEPT !.id = -@]), local)
      BY <2>2, <2>8 DEF Rebuilt
    <3>2. /\ result.id = -n /\ result.input = counted /\ result.output = 12
          /\ result.local = local /\ ~result.genuine
      BY <1>15, <2>4, <3>1, UsageVerdict
    <3>3. ~FromHeader(entry) /\ Abs(entry.id) = n
      BY <1>13, <2>3, <3>2, AbsOfEither DEF FromHeader
    <3>4. "id" \in entry.lost /\ entry.lost \intersect Needed # {}
          /\ entry.lost \intersect {"id", "signature"} # {}
      BY <2>3, <2>8 DEF Needed
    <3>5. entry.input = counted /\ entry.local.input = Recount(p) /\ ~entry.genuine
      BY <2>3, <2>6, <3>2
    <3> QED
      BY <1>6, <1>8, <1>15, <2>4, <3>3, <3>4, <3>5 DEF EntrySound
  <2> QED
    BY <2>7, <2>8
<1>19. ASSUME NEW d \in Clients, NEW e, NEW m, EntryOf(e, m, d)'
       PROVE  EntryOf(e, m, d) \/ (d = c /\ e = entry /\ m = n /\ Verifies(c))
  <2>1. PICK T : auditLog \in [Clients -> T]
    BY DEF Inv, Shapes
  <2>2. PICK L : L = Len(auditLog[c])
    OBVIOUS
  <2>3. L \in Nat /\ IsSeq(auditLog[c])
    BY <2>2, SeqFacts DEF Inv, Shapes
  <2>4. /\ auditLog'[c] = IF Verifies(c) THEN Append(auditLog[c], entry) ELSE auditLog[c]
        /\ \A b \in Clients : b # c => auditLog'[b] = auditLog[b]
    BY <1>17, <2>1 DEF Logs
  <2>5. PICK i \in 1 .. Len(auditLog'[d]) : e = auditLog'[d][i] /\ m = Abs(auditLog'[d][i].id)
    BY <1>19 DEF EntryOf, IssueNumber
  <2>6. CASE d # c \/ ~Verifies(c)
    BY <2>4, <2>5, <2>6 DEF EntryOf, IssueNumber
  <2>7. CASE d = c /\ Verifies(c)
    <3>1. /\ Len(auditLog'[c]) = L + 1 /\ auditLog'[c][L + 1] = entry
          /\ \A j \in 1 .. L : auditLog'[c][j] = auditLog[c][j]
      BY <2>2, <2>3, <2>4, <2>7, AppendAny
    <3>2. i \in 1 .. L \/ i = L + 1
      BY <2>3, <2>5, <2>7, <3>1
    <3>3. CASE i \in 1 .. L
      BY <2>2, <2>5, <2>7, <3>1, <3>3 DEF EntryOf, IssueNumber
    <3>4. CASE i = L + 1
      BY <1>18, <2>5, <2>7, <3>1, <3>4
    <3> QED
      BY <3>2, <3>3, <3>4
  <2> QED
    BY <2>6, <2>7
<1>20. EntriesSound'
  <2>1. \A d, e, m : EntrySound(e, m, d)' <=> EntrySound(e, m, d)
    BY <1>1 DEF EntrySound, FromHeader, Sent
  <2> QED
    BY <1>18, <1>19, <2>1 DEF Truth, EntriesSound
<1>21. AnswersSound'
  <2>1. PICK T : answer \in [Clients -> T]
    BY DEF Inv, Shapes
  <2>2. ASSUME NEW d \in Clients, answer'[d] # NoAnswer
        PROVE  answer[d] # NoAnswer /\ answer'[d] = answer[d]
    BY <1>1, <2>1, <2>2
  <2>3. ASSUME NEW d \in Clients, answer'[d] = answer[d]
        PROVE  SoundAnswer(answer[d], CurrentCall(d))'
                  <=> SoundAnswer(answer[d], CurrentCall(d))
    BY <1>1, <2>3 DEF SoundAnswer, Sound, Sent, ReceiptBy, ProcessKey, CurrentCall
  <2> QED
    BY <2>2, <2>3 DEF Truth, AnswersSound
<1> QED
  BY <1>2, <1>20, <1>21 DEF Truth

\* The end of a call by an exception, or a step that leaves calls alone.
LEMMA TruthQuiet ==
    ASSUME Inv, Truth, UNCHANGED <<issued, auditLog, requests, found, process>>,
           server' = "down" => process < MaxRestarts,
           \A d \in Clients : answer'[d] \in {answer[d], NoAnswer}
    PROVE  Truth'
<1>1. Processes'
  BY DEF Truth, Processes
<1> QED
  BY <1>1, TruthKept

LEMMA TruthStep == Inv /\ Truth /\ [Next]_vars => Truth'
<1> SUFFICES ASSUME Inv, Truth, [Next]_vars PROVE Truth'
  OBVIOUS
<1>1. server = "down" => process < MaxRestarts
  BY DEF Truth, Processes
<1>2. ASSUME UNCHANGED <<issued, auditLog, requests, found, process, answer, server>>
      PROVE  Truth'
  BY <1>1, <1>2, TruthQuiet
<1>3. CASE UNCHANGED vars
  BY <1>2, <1>3 DEF vars, serverVars, clientVars
<1>4. ASSUME NEW c \in Clients, Discover(c) PROVE Truth'
  <2>1. /\ found' = [found EXCEPT ![c] = process] /\ phase[c] = "new"
        /\ UNCHANGED <<issued, auditLog, requests, process, answer, server>>
    BY <1>4 DEF Discover, serverVars
  <2>2. found' \in [Clients -> 0 .. MaxRestarts]
        /\ \A d \in Clients : d # c => found'[d] = found[d]
    BY <2>1 DEF Truth, Processes
  <2>3. auditLog[c] = <<>>
    BY <2>1 DEF Inv, Known
  <2>4. Processes'
    BY <2>1, <2>2 DEF Truth, Processes
  <2> QED
    BY <2>1, <2>2, <2>3, <2>4, TruthKept
<1>5. ASSUME NEW c \in Clients, Construct(c) \/ Close(c) \/ Upload(c) PROVE Truth'
  BY <1>2, <1>5 DEF Construct, Close, Upload, serverVars
<1>6. ASSUME NEW c \in Clients, Receive(c) PROVE Truth'
  BY <1>6, TruthReceive
<1>7. ASSUME NEW c \in Clients, Timeout(c) \/ Refuse(c) \/ Reset(c) PROVE Truth'
  <2>1. /\ answer' = [answer EXCEPT ![c] = NoAnswer]
        /\ UNCHANGED <<issued, auditLog, requests, found, process, server>>
    BY <1>7 DEF Timeout, Refuse, Reset, Abort, serverVars
  <2>2. \A d \in Clients : answer'[d] \in {answer[d], NoAnswer}
    BY <2>1 DEF Inv, Shapes
  <2> QED
    BY <1>1, <2>1, <2>2, TruthQuiet
<1>8. ASSUME NEW c \in Clients, NEW p \in Prompts, Create(c, p) \/ CreateClosed(c, p)
      PROVE  Truth'
  <2>1. /\ requests' = [requests EXCEPT ![c] = Append(@, p)]
        /\ phase[c] \in {"idle", "closed"}
        /\ UNCHANGED <<issued, auditLog, found, process, answer, server>>
    BY <1>8 DEF Create, CreateClosed, serverVars
  <2>2. answer[c] = NoAnswer
    BY <2>1 DEF Inv, Answers
  <2>3. \A d \in Clients : requests'[d] = IF d = c THEN Append(requests[c], p) ELSE requests[d]
    BY <2>1, ClientFacts
  <2>4. Processes'
    BY <2>1 DEF Truth, Processes
  <2> QED
    BY <2>1, <2>2, <2>3, <2>4, TruthKept
<1>9. CASE HandleChat
  BY <1>9, TruthHandleChat
<1>10. CASE Accept \/ Discard
  BY <1>2, <1>10 DEF Accept, Discard, clientVars
<1>11. CASE Serve \/ Shutdown
  BY <1>11, TruthQuiet DEF Serve, Shutdown, clientVars
<1>12. CASE Crash
  BY <1>12, TruthQuiet DEF Crash, clientVars
<1>13. CASE Restart
  <2>1. /\ server = "down" /\ server' = "stopped" /\ process' = process + 1
        /\ UNCHANGED <<issued, auditLog, requests, found, answer>>
    BY <1>13 DEF Restart, clientVars
  <2>2. Processes'
    BY <1>1, <2>1, BoundsAssumption DEF Truth, Processes
  <2> QED
    BY <2>1, <2>2, TruthKept
<1> QED
  BY <1>3, <1>4, <1>5, <1>6, <1>7, <1>8, <1>9, <1>10, <1>11, <1>12, <1>13 DEF Next

LEMMA TruthAlways == Spec => []Truth
<1> QED
  BY TruthStep, TruthInit, InvAlways, PTL DEF Spec

\* An entry by the names the properties use.
LEMMA EntryTruth ==
    ASSUME Inv, Truth, NEW c \in Clients, NEW i \in Indices(c)
    PROVE  \E e, n : /\ e = auditLog[c][i] /\ IssueOf(auditLog[c][i]) = issued[n]
                     /\ EntrySound(e, n, c) /\ issued[n].call.client = c
<1>1. PICK e, n : e = auditLog[c][i] /\ n = IssueNumber(c, i)
  OBVIOUS
<1>2. i \in 1 .. Len(auditLog[c])
  BY EntryFacts
<1>3. EntryOf(e, n, c)
  BY <1>1, <1>2 DEF EntryOf
<1>4. EntrySound(e, n, c)
  BY <1>3 DEF Truth, EntriesSound
<1>5. issued[n].call.client = c
  BY <1>1, <1>2 DEF Inv, Audits
<1>6. IssueOf(auditLog[c][i]) = issued[n]
  BY <1>1, EntryFacts
<1> QED
  BY <1>1, <1>4, <1>5, <1>6

\* Whatever the server, the connections and the timeouts do, each finished call
\* of a validating client is in its audit log or ended in an exception, but for
\* those without arguments, which are never in it.
THEOREM ReturnsCorrect == Spec => []EveryReturnAudited
<1>1. Inv /\ Truth => EveryReturnAudited
  <2> SUFFICES ASSUME Inv, Truth, NEW c \in Clients, validating[c]
               PROVE  {k \in FinishedCalls(c) : k \in raised \/ Sent(k) # NoArguments}
                        = AuditedCalls(c) \union {k \in raised : k.client = c}
    BY DEF EveryReturnAudited
  <2>1. \A k : k \in FinishedCalls(c) <=>
                k \in Call /\ k.client = c /\ Begun(k) /\ Ended(k)
    <3>1. requests \in [Clients -> Seq(Prompts)]
      BY ClientFacts
    <3>2. \A k : k \in Made /\ k.client = c <=> k \in Call /\ k.client = c /\ Begun(k)
      <4>1. \A k : k \in Made <=> \E d \in Clients : \E n \in DOMAIN requests[d] :
                                      k = [client |-> d, number |-> n]
        BY DEF Made
      <4>2. DOMAIN requests[c] = 1 .. Len(requests[c]) /\ Len(requests[c]) \in Nat
            /\ Len(requests[c]) <= MaxCalls /\ MaxCalls \in Nat
        BY <3>1, ClientFacts
      <4>3. ASSUME NEW k, k \in Made, k.client = c
            PROVE  k \in Call /\ Begun(k)
        <5>0. PICK d \in Clients : \E n \in DOMAIN requests[d] :
                k = [client |-> d, number |-> n]
          BY <4>1, <4>3
        <5>1. PICK n \in DOMAIN requests[d] : k = [client |-> d, number |-> n]
          BY <5>0
        <5>2. d = c /\ n \in 1 .. Len(requests[c]) /\ k.number = n
          BY <4>2, <4>3, <5>1
        <5> QED
          BY <4>2, <5>1, <5>2 DEF Call, Begun
      <4>4. ASSUME NEW k, k \in Call, k.client = c, Begun(k)
            PROVE  k \in Made
        <5>1. k.number \in 1 .. MaxCalls /\ k = [client |-> c, number |-> k.number]
          BY <4>4, CallFacts
        <5>2. k.number \in DOMAIN requests[c]
          BY <4>2, <4>4, <5>1 DEF Begun
        <5> QED
          BY <4>1, <5>1, <5>2
      <4> QED
        BY <4>3, <4>4
    <3>3. ASSUME NEW k, k \in Call, k.client = c, Begun(k)
          PROVE  Ended(k) <=> ~(phase[c] = "waiting" /\ k = CurrentCall(c))
      <4>1. k.number \in 1 .. MaxCalls /\ k = [client |-> c, number |-> k.number]
        BY <3>3, CallFacts
      <4> QED
        BY <3>3, <4>1, ClientFacts DEF Begun, Ended, CurrentCall
    <3>4. \A k : k \in FinishedCalls(c) <=>
                  k \in Made /\ k.client = c /\ ~(phase[c] = "waiting" /\ k = CurrentCall(c))
      BY DEF FinishedCalls
    <3> QED
      BY <3>2, <3>3, <3>4
  <2>2. \A k : k \in AuditedCalls(c) <=> AuditedIn(c, k)
    BY EntryFacts DEF AuditedCalls, AuditedIn
  <2>3. ASSUME NEW k, AuditedIn(c, k)
        PROVE  k \in Call /\ k.client = c /\ Begun(k) /\ Ended(k) /\ Sent(k) # NoArguments
    <3>1. k \in Call /\ k.client = c /\ Begun(k) /\ Ended(k)
      BY <2>3 DEF Inv, Shapes, Known, Audits, AuditedIn
    <3>2. PICK i \in Indices(c) : issued[IssueNumber(c, i)].call = k
      BY <2>3, EntryFacts DEF AuditedIn
    <3>3. PICK e, n : IssueOf(auditLog[c][i]) = issued[n] /\ EntrySound(e, n, c)
      BY <3>2, EntryTruth
    <3>4. issued[n].call = k
      BY <3>2, <3>3, EntryFacts
    <3> QED
      BY <3>1, <3>3, <3>4 DEF EntrySound
  <2>4. ASSUME NEW k \in raised
        PROVE  k \in Call /\ Begun(k) /\ Ended(k)
    BY DEF Inv, Shapes, Known
  <2>5. ASSUME NEW k, k \in Call, k.client = c, Begun(k), Ended(k)
        PROVE  k \in raised \/ Sent(k) = NoArguments \/ AuditedIn(c, k)
    BY <2>5 DEF Inv, Returned
  <2> QED
    BY <2>1, <2>2, <2>3, <2>4, <2>5
<1> QED
  BY <1>1, InvAlways, TruthAlways, PTL

\* An entry is genuine exactly when all that was signed arrived and the process
\* that signed is the one whose key the client had discovered, or shares its
\* seed, and every other with an id and a signature is an error; for every number
\* of clients, calls and restarts and whichever headers are lost, if providers
\* sign the fields headers carry.
THEOREM VerdictsCorrect == ~SignsFull /\ Spec => []VerdictsTrackProcess
<1> SUFFICES ASSUME ~SignsFull PROVE Spec => []VerdictsTrackProcess
  OBVIOUS
<1>1. Inv /\ Truth => VerdictsTrackProcess
  <2> SUFFICES ASSUME Inv, Truth, NEW c \in Clients, NEW i \in Indices(c)
               PROVE  LET entry == auditLog[c][i]
                          issue == IssueOf(entry)
                      IN /\ entry.genuine <=> /\ entry.lost \intersect Needed = {}
                                              /\ Seeded \/ issue.process = found[c]
                         /\ entry.lost \intersect {"id", "signature"} = {} =>
                              (entry.status = "error" <=> ~entry.genuine)
                         /\ entry.genuine => /\ entry.input = issue.body.input
                                             /\ entry.output = issue.body.output
    BY DEF VerdictsTrackProcess
  <2>1. PICK e, n : /\ e = auditLog[c][i] /\ IssueOf(auditLog[c][i]) = issued[n]
                    /\ EntrySound(e, n, c)
    BY EntryTruth
  <2> QED
    BY <2>1 DEF EntrySound
<1> QED
  BY <1>1, InvAlways, TruthAlways, PTL

\* No receipt is believed, and each that arrives with its id and its signature
\* is logged as an error.
NoneVerifies ==
    \A c \in Clients : \A i \in Indices(c) :
        LET entry == auditLog[c][i]
        IN /\ ~entry.genuine
           /\ entry.lost \intersect {"id", "signature"} = {} => entry.status = "error"

\* A provider that fills in and signs the fields no header is read for is never
\* believed, whatever process signs, whatever key the client discovered and
\* whichever headers arrive: what the client rebuilds is not what was signed.
THEOREM FullFormRefused == SignsFull /\ Spec => []NoneVerifies
<1> SUFFICES ASSUME SignsFull PROVE Spec => []NoneVerifies
  OBVIOUS
<1>1. Inv /\ Truth => NoneVerifies
  <2> SUFFICES ASSUME Inv, Truth, NEW c \in Clients, NEW i \in Indices(c)
               PROVE  /\ ~auditLog[c][i].genuine
                      /\ auditLog[c][i].lost \intersect {"id", "signature"} = {} =>
                            auditLog[c][i].status = "error"
    BY DEF NoneVerifies
  <2>1. PICK e, n : e = auditLog[c][i] /\ EntrySound(e, n, c)
    BY EntryTruth
  <2> QED
    BY <2>1 DEF EntrySound
<1> QED
  BY <1>1, InvAlways, TruthAlways, PTL

\* A recount is always of the request the receipt was issued and billed for,
\* whichever fields the provider signs and whichever headers are lost.
THEOREM RecountsCorrect == Spec => []RecountsMatchRequest
<1>1. Inv /\ Truth => RecountsMatchRequest
  <2> SUFFICES ASSUME Inv, Truth, NEW c \in Clients, NEW i \in Indices(c)
               PROVE  LET entry == auditLog[c][i]
                          request == requests[c][IssueOf(entry).call.number]
                      IN /\ request \notin {NullMessages, NoArguments}
                         /\ entry.input = IF FromHeader(entry) /\ "input" \in entry.lost THEN 0
                                          ELSE ServerCount(JoinedLength(request))
                         /\ entry.local.input = Recount(request)
    BY DEF RecountsMatchRequest
  <2>1. PICK e, n : /\ e = auditLog[c][i] /\ IssueOf(auditLog[c][i]) = issued[n]
                    /\ EntrySound(e, n, c) /\ issued[n].call.client = c
    BY EntryTruth
  <2>2. Sent(issued[n].call) = requests[c][issued[n].call.number]
    BY <2>1 DEF Sent
  <2> QED
    BY <2>1, <2>2 DEF EntrySound
<1> QED
  BY <1>1, InvAlways, TruthAlways, PTL

-----------------------------------------------------------------------------
(* Types. *)

\* A receipt the server issues has the types of a receipt's fields.
LEMMA IssuedBody ==
    ASSUME NEW n \in Ids, NEW p \in Seq(Message)
    PROVE  IssuedReceipt(n, p).body \in Body /\ IssuedReceipt(n, p).body.id = n
<1> DEFINE counted == ServerCount(JoinedLength(p))
           detail == IF SignsFull THEN FullDetail ELSE NoDetail
<1>1. counted \in Nat
  BY ServerCounts
<1>2. detail \in Details /\ NoDetail \in Details /\ FullDetail \in Details
  BY FullDetailGiven, NoDetailAssumption
<1>3. IssuedReceipt(n, p).body =
        [id |-> n, origin |-> FullDetail, input |-> counted, output |-> 12,
         total |-> counted + 12, carried |-> detail, dropped |-> detail, hash |-> NoDetail]
  BY DEF IssuedReceipt, FullDetail
<1> HIDE DEF counted, detail
<1> QED BY <1>1, <1>2, <1>3 DEF Body

\* The bound on the calls, and what it bounds.
Bounded == IsFiniteSet(Made) /\ Cardinality(Made) <= MaxTotal

\* Each call makes one call more, and only below the bound.
LEMMA BoundedStep == Inv /\ Bounded /\ [Next]_vars => Bounded'
<1> SUFFICES ASSUME Inv, Bounded, [Next]_vars PROVE Bounded'
  OBVIOUS
<1>1. CASE requests' = requests
  BY <1>1 DEF Bounded, Made
<1>2. ASSUME NEW c \in Clients, NEW p \in Prompts, MayCall(c),
             requests' = [requests EXCEPT ![c] = Append(@, p)]
      PROVE  Bounded'
  <2> DEFINE k == [client |-> c, number |-> Len(requests[c]) + 1]
  <2>1. requests \in [Clients -> Seq(Prompts)] /\ Len(requests[c]) \in Nat
    BY ClientFacts
  <2>2. /\ DOMAIN requests'[c] = DOMAIN requests[c] \union {Len(requests[c]) + 1}
        /\ \A d \in Clients : d # c => requests'[d] = requests[d]
    <3>1. requests'[c] = Append(requests[c], p) /\ requests[c] \in Seq(Prompts)
      BY <1>2, <2>1
    <3>2. /\ DOMAIN Append(requests[c], p) = 1 .. Len(requests[c]) + 1
          /\ DOMAIN requests[c] = 1 .. Len(requests[c])
      BY <3>1
    <3>3. \A d \in Clients : d # c => requests'[d] = requests[d]
      BY <1>2, <2>1
    <3> QED BY <2>1, <3>1, <3>2, <3>3
  <2>3. Made' = Made \union {k}
    <3>1. Made' = UNION {{[client |-> d, number |-> n] : n \in DOMAIN requests'[d]} : d \in Clients}
      BY DEF Made
    <3>2. Made = UNION {{[client |-> d, number |-> n] : n \in DOMAIN requests[d]} : d \in Clients}
      BY DEF Made
    <3>3. ASSUME NEW x \in Made' PROVE x \in Made \union {k}
      <4>1. PICK d \in Clients : \E n \in DOMAIN requests'[d] : x = [client |-> d, number |-> n]
        BY <3>1
      <4>2. PICK n \in DOMAIN requests'[d] : x = [client |-> d, number |-> n]
        BY <4>1
      <4> QED BY <2>2, <3>2, <4>2
    <3>4. ASSUME NEW x \in Made PROVE x \in Made'
      <4>1. PICK d \in Clients : \E n \in DOMAIN requests[d] : x = [client |-> d, number |-> n]
        BY <3>2
      <4>2. PICK n \in DOMAIN requests[d] : x = [client |-> d, number |-> n]
        BY <4>1
      <4>3. n \in DOMAIN requests'[d]
        BY <2>2, <4>2
      <4> QED BY <3>1, <4>2, <4>3
    <3>5. k \in Made'
      BY <2>2, <3>1
    <3> QED BY <3>3, <3>4, <3>5
  <2>4. IsFiniteSet(Made) /\ Cardinality(Made) \in Nat /\ Cardinality(Made) < MaxTotal
    BY <1>2, FS_CardinalityType DEF Bounded, MayCall
  <2> HIDE DEF k
  <2>5. IsFiniteSet(Made \union {k}) /\ Cardinality(Made \union {k}) <= Cardinality(Made) + 1
    <3>1. /\ IsFiniteSet(Made \union {k})
          /\ Cardinality(Made \union {k}) =
                IF k \in Made THEN Cardinality(Made) ELSE Cardinality(Made) + 1
      BY <2>4, FS_AddElement
    <3>2. Cardinality(Made) \in Nat
      BY <2>4
    <3> QED BY <3>1, <3>2
  <2>6. Cardinality(Made \union {k}) \in Nat /\ MaxTotal \in Nat
    BY <2>5, FS_CardinalityType, BoundsAssumption
  <2>7. IsFiniteSet(Made') /\ Cardinality(Made') <= MaxTotal
    BY <2>3, <2>4, <2>5, <2>6
  <2> QED BY <2>7 DEF Bounded
<1>3. \/ requests' = requests
      \/ \E c \in Clients, p \in Prompts :
            MayCall(c) /\ requests' = [requests EXCEPT ![c] = Append(@, p)]
  <2>1. ASSUME NEW c \in Clients, NEW p \in Prompts, Create(c, p) \/ CreateClosed(c, p)
        PROVE  MayCall(c) /\ requests' = [requests EXCEPT ![c] = Append(@, p)]
    BY <2>1 DEF Create, CreateClosed
  <2>2. ASSUME NEW c \in Clients,
               \/ Discover(c) \/ Construct(c) \/ Upload(c) \/ Receive(c)
               \/ Timeout(c) \/ Refuse(c) \/ Reset(c) \/ Close(c)
        PROVE  requests' = requests
    BY <2>2 DEF Discover, Construct, Upload, Receive, Timeout, Refuse, Reset, Close, Abort
  <2>3. ASSUME Accept \/ HandleChat \/ Discard \/ Serve \/ Shutdown \/ Crash \/ Restart
        PROVE  requests' = requests
    BY <2>3 DEF Accept, HandleChat, Discard, Serve, Shutdown, Crash, Restart, clientVars
  <2>4. ASSUME UNCHANGED vars PROVE requests' = requests
    BY <2>4 DEF vars, clientVars
  <2> QED BY <2>1, <2>2, <2>3, <2>4 DEF Next
<1> QED BY <1>1, <1>2, <1>3

\* There is at most one receipt for each call, so no more than calls.
IssuesFit == Len(issued) <= MaxTotal

LEMMA IssuesBounded == Inv /\ Bounded => IssuesFit
<1> SUFFICES ASSUME Inv, Bounded PROVE Len(issued) <= MaxTotal
  BY DEF IssuesFit
<1> DEFINE f == [n \in 1 .. Len(issued) |-> issued[n].call]
<1>1. Len(issued) \in Nat
  BY SeqFacts DEF Inv, Shapes
<1>2. ASSUME NEW n \in 1 .. Len(issued) PROVE issued[n].call \in Made
  <2>1. issued[n].call \in Call /\ Begun(issued[n].call)
    BY DEF Inv, Shapes, Known
  <2> QED BY <2>1, ViewHolds DEF View
<1>3. ASSUME NEW m \in 1 .. Len(issued), NEW n \in 1 .. Len(issued), m < n
      PROVE  issued[m].call # issued[n].call
  <2>1. Precedes(issued[m].call, issued[n].call)
    BY <1>3 DEF Inv, Ordered
  <2>2. issued[m].call \in Call
    BY DEF Inv, Shapes
  <2>3. issued[m].call.number \in 1 .. MaxCalls
    BY <2>2 DEF Call
  <2>4. issued[m].call.number \in Int
    BY <2>3
  <2> QED BY <2>1, <2>4 DEF Precedes
<1>4. f \in [1 .. Len(issued) -> Made]
  BY <1>2
<1>5. \A m, n \in 1 .. Len(issued) : f[m] = f[n] => m = n
  BY <1>3
<1> HIDE DEF f
<1>6. f \in Injection(1 .. Len(issued), Made)
  BY <1>4, <1>5 DEF Injection, IsInjective
<1>7. /\ IsFiniteSet(1 .. Len(issued))
      /\ Cardinality(1 .. Len(issued)) <= Cardinality(Made)
  BY <1>6, FS_Injection DEF Bounded
<1>8. Cardinality(1 .. Len(issued)) = Len(issued)
  <2>1. Cardinality(1 .. Len(issued)) = IF 1 > Len(issued) THEN 0 ELSE Len(issued) - 1 + 1
    BY <1>1, FS_Interval
  <2> QED BY <1>1, <2>1
<1>9. Cardinality(Made) \in Nat /\ MaxTotal \in Nat /\ Cardinality(Made) <= MaxTotal
  BY FS_CardinalityType, BoundsAssumption DEF Bounded
<1> QED BY <1>1, <1>7, <1>8, <1>9

\* The same of the next state.
LEMMA IssuesBoundedNext == Inv' /\ Bounded' => IssuesFit'
BY IssuesBounded, PTL

\* Where the server and its process are, and what it has issued.
Typing ==
    /\ server \in {"serving", "stopped", "down"} /\ process \in 0 .. MaxRestarts
    /\ server = "down" => process < MaxRestarts /\ backlog = <<>> /\ serving = NoCall
    /\ found \in [Clients -> 0 .. MaxRestarts]
    /\ uploaded \subseteq Call
    /\ \A n \in 1 .. Len(issued) :
            /\ issued[n].process \in 0 .. process
            /\ issued[n].body \in Body /\ issued[n].body.id = n

LEMMA TypingInit == Init => Typing /\ Bounded
<1> SUFFICES ASSUME Init PROVE Typing /\ Bounded
  OBVIOUS
<1>1. Typing
  BY BoundsAssumption DEF Init, Typing
<1>2. Made = {}
  BY DEF Init, Made
<1>3. Bounded
  BY <1>2, FS_EmptySet, BoundsAssumption DEF Bounded
<1> QED BY <1>1, <1>3

\* A request that was answered is one the client made, or an empty one.
LEMMA AnsweredRequest ==
    ASSUME Inv, HandleChat
    PROVE  \E p \in Seq(Message) : \E new :
              /\ issued' = Append(issued, new) /\ new.process = process
              /\ new.body = IssuedReceipt(Len(issued) + 1, p).body
<1> DEFINE p == IF serving \in uploaded THEN MessagesOf(Sent(serving)) ELSE EmptyPrompt
<1>1. serving \in Call /\ Begun(serving)
  BY DEF HandleChat, Inv, Shapes, Known
<1>2. ASSUME serving \in uploaded PROVE Sent(serving) \in Prompts \ {NullMessages}
  <2>1. serving.client \in Clients /\ serving.number \in 1 .. MaxCalls
    BY <1>1 DEF Call
  <2>2. requests[serving.client] \in Seq(Prompts)
    BY <2>1, ClientFacts
  <2>3. serving.number \in 1 .. Len(requests[serving.client])
    BY <1>1, <2>1, <2>2 DEF Begun
  <2>4. requests[serving.client][serving.number] \in Prompts
    BY <2>2, <2>3
  <2> QED BY <1>2, <2>4 DEF HandleChat, Sent
<1>3. p \in Seq(Message)
  <2>1. EmptyPrompt \in Seq(Message)
    BY DEF EmptyPrompt
  <2> QED BY <1>2, <2>1, PromptsAssumption DEF MessagesOf
<1>4. issued' = Append(issued, [call |-> serving, process |-> process,
                                body |-> IssuedReceipt(Len(issued) + 1, p).body])
  BY DEF HandleChat
<1> HIDE DEF p
<1> QED BY <1>3, <1>4

\* The new receipt's id is the number of receipts, within the bound on calls.
LEMMA HandleChatTyping == Inv /\ Inv' /\ Bounded' /\ Typing /\ HandleChat => Typing'
<1> SUFFICES ASSUME Inv, Inv', Bounded', Typing, HandleChat PROVE Typing'
  OBVIOUS
<1>0. PICK p \in Seq(Message) : \E new :
              /\ issued' = Append(issued, new) /\ new.process = process
              /\ new.body = IssuedReceipt(Len(issued) + 1, p).body
  BY AnsweredRequest
<1>1. PICK new : /\ issued' = Append(issued, new) /\ new.process = process
                 /\ new.body = IssuedReceipt(Len(issued) + 1, p).body
  BY <1>0
<1> DEFINE n == Len(issued) + 1
<1>2. /\ IsSeq(issued) /\ Len(issued) \in Nat /\ Len(issued') = n
      /\ \A m \in 1 .. Len(issued) : issued'[m] = issued[m]
      /\ issued'[n] = new
  BY <1>1, SeqFacts, AppendAny DEF Inv, Shapes
<1>3. n \in Ids
  <2>1. Len(issued') <= MaxTotal
    BY IssuesBoundedNext DEF IssuesFit
  <2> QED BY <1>2, <2>1, IdsAssumption, BoundsAssumption
<1>4. new.body \in Body /\ new.body.id = n
  BY <1>1, <1>3, IssuedBody
<1>5. process \in 0 .. process /\ process' = process /\ server' = server
      /\ backlog' = backlog /\ serving' = NoCall /\ UNCHANGED clientVars
  BY DEF HandleChat, Typing
<1>6. ASSUME NEW m \in 1 .. Len(issued')
      PROVE  /\ issued'[m].process \in 0 .. process
             /\ issued'[m].body \in Body /\ issued'[m].body.id = m
  <2>1. CASE m = n
    BY <1>1, <1>2, <1>4, <1>5, <2>1
  <2>2. CASE m # n
    <3>1. m \in 1 .. Len(issued)
      BY <1>2, <2>2
    <3> QED BY <1>2, <3>1 DEF Typing
  <2> QED BY <2>1, <2>2
<1> QED BY <1>5, <1>6 DEF Typing, clientVars

\* A crash needs a restart to be left, a restart needs a crash before it.
LEMMA TypingStep == Inv /\ Inv' /\ Bounded' /\ Typing /\ [Next]_vars => Typing'
<1> SUFFICES ASSUME Inv, Inv', Bounded', Typing, [Next]_vars PROVE Typing'
  OBVIOUS
<1> DEFINE Issues == \A n \in 1 .. Len(issued) :
                        /\ issued[n].process \in 0 .. process
                        /\ issued[n].body \in Body /\ issued[n].body.id = n
<1>1. CASE UNCHANGED <<server, process, backlog, serving, issued, found, uploaded>>
  BY <1>1 DEF Typing
<1>2. ASSUME NEW c \in Clients, Discover(c) PROVE Typing'
  <2>1. found' \in [Clients -> 0 .. MaxRestarts]
    BY <1>2 DEF Discover, Typing
  <2> QED BY <1>2, <2>1 DEF Discover, Typing, serverVars
<1>3. ASSUME NEW c \in Clients, Upload(c) PROVE Typing'
  <2>1. uploaded' \subseteq Call
    BY <1>3, ClientFacts DEF Upload, Typing
  <2> QED BY <1>3, <2>1 DEF Upload, Typing, serverVars
<1>4. ASSUME NEW c \in Clients, NEW p \in Prompts, Create(c, p) PROVE Typing'
  <2>1. server = "down" => backlog' = backlog
    BY <1>4 DEF Create
  <2>2. UNCHANGED <<server, process, serving, issued, found, uploaded>>
    BY <1>4 DEF Create
  <2> QED BY <2>1, <2>2 DEF Typing
<1>5. CASE Accept
  <2>1. server' = "serving" /\ UNCHANGED <<process, issued, found, uploaded>>
    BY <1>5 DEF Accept, clientVars
  <2> QED BY <2>1 DEF Typing
<1>6. CASE HandleChat
  BY <1>6, HandleChatTyping
<1>7. CASE Discard
  <2>1. serving' = NoCall /\ UNCHANGED <<server, process, backlog, issued, found, uploaded>>
    BY <1>7 DEF Discard, clientVars
  <2> QED BY <2>1 DEF Typing
<1>8. CASE Serve \/ Shutdown
  <2>1. /\ server' \in {"serving", "stopped"}
        /\ UNCHANGED <<process, backlog, serving, issued, found, uploaded>>
    BY <1>8 DEF Serve, Shutdown, clientVars
  <2> QED BY <2>1 DEF Typing
<1>9. CASE Crash
  <2>1. /\ server' = "down" /\ backlog' = <<>> /\ serving' = NoCall /\ process < MaxRestarts
        /\ UNCHANGED <<process, issued, found, uploaded>>
    BY <1>9 DEF Crash, clientVars
  <2> QED BY <2>1 DEF Typing
<1>10. CASE Restart
  <2>1. /\ server = "down" /\ server' = "stopped" /\ process' = process + 1
        /\ UNCHANGED <<backlog, serving, issued, found, uploaded>>
    BY <1>10 DEF Restart, clientVars
  <2>2. process' \in 0 .. MaxRestarts /\ 0 .. process \subseteq 0 .. process'
    BY <2>1, BoundsAssumption DEF Typing
  <2> QED BY <2>1, <2>2 DEF Typing
<1>11. ASSUME NEW c \in Clients,
              \/ Construct(c) \/ Receive(c) \/ Timeout(c) \/ Refuse(c) \/ Reset(c) \/ Close(c)
              \/ \E p \in Prompts : CreateClosed(c, p)
       PROVE  UNCHANGED <<server, process, backlog, serving, issued, found, uploaded>>
  BY <1>11 DEF Construct, Receive, Timeout, Refuse, Reset, Close, CreateClosed, Abort, serverVars
<1>12. CASE UNCHANGED vars
  BY <1>1, <1>12 DEF vars, serverVars, clientVars
<1> QED
  BY <1>1, <1>2, <1>3, <1>4, <1>5, <1>6, <1>7, <1>8, <1>9, <1>10, <1>11, <1>12 DEF Next

\* An answer under way is of the call its client waits for, which has left the
\* server: the numbers of a client's calls go up along issued, serving, backlog.
LEMMA AnswerPlaces ==
    ASSUME Inv, Typing, NEW c \in Clients, answer[c] # NoAnswer
    PROVE  /\ phase[c] = "waiting"
           /\ CurrentCall(c) \notin Range(backlog) \union {serving}
           /\ issued[answer[c].body.id].call = CurrentCall(c)
<1>1. PICK n \in 1 .. Len(issued) : issued[n].call = CurrentCall(c) /\ IsReceipt(answer[c], n)
  BY DEF Inv, Answers
<1>2. phase[c] = "waiting" /\ CurrentCall(c) \in Call
  BY ClientFacts DEF Inv, Answers
<1>3. answer[c].body.id = n
  BY <1>1 DEF IsReceipt, Answered
<1> DEFINE k == CurrentCall(c)
<1>4. \A l \in Call : Precedes(k, l) => k # l
  <2>1. k.number \in Int
    BY <1>2 DEF Call
  <2> QED BY <2>1 DEF Precedes
<1>5. k # serving
  <2>1. CASE serving = NoCall
    BY <1>2, <2>1, NoCallAssumption
  <2>2. CASE serving # NoCall
    <3>1. Precedes(issued[n].call, serving) /\ serving \in Call
      BY <2>2 DEF Inv, Ordered, Shapes
    <3> QED BY <1>1, <1>4, <3>1
  <2> QED BY <2>1, <2>2
<1>6. k \notin Range(backlog)
  <2>1. backlog \in Seq(Call) /\ DOMAIN backlog = 1 .. Len(backlog)
    BY DEF Inv, Shapes
  <2>2. ASSUME NEW j \in 1 .. Len(backlog) PROVE k # backlog[j]
    <3>1. Precedes(issued[n].call, backlog[j])
      BY DEF Inv, Ordered
    <3>2. backlog[j] \in Call
      BY <2>1
    <3> QED BY <1>1, <1>4, <3>1, <3>2
  <2> QED BY <2>1, <2>2 DEF Range
<1> QED BY <1>1, <1>2, <1>3, <1>5, <1>6

\* The exchange's variables keep their types, for any number of clients, calls
\* and restarts, and no call is in two places at once.
THEOREM TypeCorrect == Spec => []TypeOK
<1>1. Inv /\ Typing => TypeOK
  <2> SUFFICES ASSUME Inv, Typing PROVE TypeOK
    OBVIOUS
  <2>1. /\ backlog \in Seq(Call) /\ serving \in Call \union {NoCall}
        /\ phase \in [Clients -> {"new", "discovered", "idle", "waiting", "closed"}]
        /\ validating \in [Clients -> BOOLEAN]
        /\ requests \in [Clients -> Seq(Prompts)] /\ raised \subseteq Call
    BY DEF Inv, Shapes, Phases
  <2>2. \A i \in DOMAIN issued :
           issued[i].call \in Call /\ issued[i].process \in 0 .. process
             /\ issued[i].body \in Body /\ issued[i].body.id = i
    BY SeqFacts DEF Inv, Shapes, Typing
  <2>3. \A c \in Clients : answer[c] # NoAnswer =>
           /\ phase[c] = "waiting"
           /\ CurrentCall(c) \notin Range(backlog) \union {serving}
           /\ issued[answer[c].body.id].call = CurrentCall(c)
    BY AnswerPlaces
  <2> QED BY <2>1, <2>2, <2>3 DEF Typing, TypeOK
<1>2. Spec => [](Typing /\ Bounded)
  <2>1. Inv /\ Inv' /\ Typing /\ Bounded /\ [Next]_vars => (Typing /\ Bounded)'
    BY BoundedStep, TypingStep
  <2> QED BY <2>1, TypingInit, InvAlways, PTL DEF Spec
<1> QED BY <1>1, <1>2, InvAlways, PTL

=============================================================================
