---------------------------- MODULE IRPExchange -----------------------------
(***************************************************************************)
(* Clients (IRPClient, each with its own ReceiptValidator) calling one     *)
(* reference server (IRPReferenceServer: one process, one thread, a key    *)
(* pair per process).  A client discovers the server's key, pins it at     *)
(* construction, and makes one call at a time over a connection of its     *)
(* own; the server takes connections in the order they were made.  Clients *)
(* time out and close, the server is stopped, crashes and restarts, and    *)
(* gateways strip headers, each by itself.                                 *)
(***************************************************************************)
EXTENDS Receipts, TokenCounts, SequencesExt

CONSTANTS
    Clients,
    Prompts,      \* requests: lists of messages, NullMessages or NoArguments
    NullMessages, \* a request whose messages are null
    NoArguments,  \* create() without arguments, whose JSON body is empty
    CannedAnswer, \* the text of every completion
    Seeded,       \* ServerConfig.deterministic_seed is set
    SignsFull,    \* a provider that signs the full form, with nonce and cost
    Losses,       \* sets of X-IRP headers that may be lost of one response
    NoCall, NoAnswer,
    MaxCalls,     \* bound: calls of a client
    MaxTotal,     \* bound: calls of all clients
    MaxRestarts   \* bound: restarts of the server

ASSUME PromptsAssumption ==
    Prompts \subseteq Seq(Message) \union {NullMessages, NoArguments}
ASSUME CannedAnswerAssumption == CannedAnswer \in Text
ASSUME SwitchesAssumption ==
    Seeded \in BOOLEAN /\ SignsFull \in BOOLEAN /\ Losses \subseteq SUBSET Headers
ASSUME BoundsAssumption == MaxCalls \in Nat /\ MaxTotal \in Nat /\ MaxRestarts \in Nat
ASSUME KeysAssumption == 0 .. MaxRestarts \subseteq Keys
ASSUME IdsAssumption == 1 .. MaxTotal \subseteq Ids
ASSUME DetailsAssumption == Details # {NoDetail}

VARIABLES
    server,     \* "serving", "stopped" with its socket open, or "down"
    process,    \* which process it is: the number of restarts so far
    backlog,    \* connections waiting to be accepted, in order
    serving,    \* the connection being handled, or NoCall
    issued,     \* receipts signed so far; a request_id is a position in it
    phase,      \* phase[c]: "new", "discovered", "idle", "waiting" or "closed"
    found,      \* found[c]: the process whose key c discovered
    validating, \* validating[c]: c was constructed with a public key
    requests,   \* requests[c]: the prompts of the calls c has made
    uploaded,   \* calls whose body is written to the connection
    answer,     \* answer[c]: the response to the call c waits for, or NoAnswer
    auditLog,   \* auditLog[c]: _audit_log of c's validator; an entry's field
                \* lost is history
    raised      \* history: calls that ended in an exception

serverVars == <<server, process, backlog, serving, issued>>
clientVars == <<phase, found, validating, requests, uploaded>>
vars == <<serverVars, clientVars, answer, auditLog, raised>>

Call == [client : Clients, number : 1 .. MaxCalls]

ASSUME NoCallAssumption == NoCall \notin Call

\* ReceiptSigner of a process: the seed's key, or a fresh one.
ProcessKey(p) == IF Seeded THEN 0 ELSE p

\* An empty or unreadable request, to the server, and what it reads of another.
EmptyPrompt == <<>>
MessagesOf(p) == IF p = NoArguments THEN EmptyPrompt ELSE p

CurrentCall(c) == [client |-> c, number |-> Len(requests[c])]

\* The calls made so far, and whether the bounds allow another one.
Made == UNION {{[client |-> c, number |-> n] : n \in DOMAIN requests[c]} : c \in Clients}
MayCall(c) == Len(requests[c]) < MaxCalls /\ Cardinality(Made) < MaxTotal

\* Faulty variant: an answer goes to the caller, on whatever connection.
WaitingOnAny(call) == phase[call.client] = "waiting"

\* The connection of a call is open.
Waiting(call) == phase[call.client] = "waiting" /\ call = CurrentCall(call.client)

Init ==
    /\ server = "stopped"
    /\ process = 0
    /\ backlog = <<>>
    /\ serving = NoCall
    /\ issued = <<>>
    /\ phase = [c \in Clients |-> "new"]
    /\ found = [c \in Clients |-> 0]
    /\ validating = [c \in Clients |-> FALSE]
    /\ requests = [c \in Clients |-> <<>>]
    /\ uploaded = {}
    /\ answer = [c \in Clients |-> NoAnswer]
    /\ auditLog = [c \in Clients |-> <<>>]
    /\ raised = {}

-----------------------------------------------------------------------------
(* The client. *)

\* _handle_discovery answers with the key of the process that runs; the single
\* thread does so between two connections.
Discover(c) ==
    /\ phase[c] = "new" /\ server = "serving" /\ serving = NoCall
    /\ phase' = [phase EXCEPT ![c] = "discovered"]
    /\ found' = [found EXCEPT ![c] = process]
    /\ UNCHANGED <<serverVars, validating, requests, uploaded, answer, auditLog, raised>>

\* IRPClient.__init__: the validator exists only with a public key.
Construct(c) ==
    /\ phase[c] = "discovered"
    /\ phase' = [phase EXCEPT ![c] = "idle"]
    /\ \E withKey \in BOOLEAN : validating' = [validating EXCEPT ![c] = withKey]
    /\ UNCHANGED <<serverVars, found, requests, uploaded, answer, auditLog, raised>>

\* ChatCompletions.create: connect, if there is a socket to connect to.
Create(c, p) ==
    /\ phase[c] = "idle" /\ MayCall(c)
    /\ phase' = [phase EXCEPT ![c] = "waiting"]
    /\ requests' = [requests EXCEPT ![c] = Append(@, p)]
    /\ backlog' = IF server # "down" THEN Append(backlog, CurrentCall(c)') ELSE backlog
    /\ UNCHANGED <<server, process, serving, issued, found, validating, uploaded, answer,
                   auditLog, raised>>

\* close(), or the end of a with block.
Close(c) ==
    /\ phase[c] = "idle"
    /\ phase' = [phase EXCEPT ![c] = "closed"]
    /\ UNCHANGED <<serverVars, found, validating, requests, uploaded, answer, auditLog, raised>>

\* create on a closed client raises before anything is sent.
CreateClosed(c, p) ==
    /\ phase[c] = "closed" /\ MayCall(c)
    /\ requests' = [requests EXCEPT ![c] = Append(@, p)]
    /\ raised' = raised \union {CurrentCall(c)'}
    /\ UNCHANGED <<serverVars, phase, found, validating, uploaded, answer, auditLog>>

Upload(c) ==
    /\ phase[c] = "waiting" /\ CurrentCall(c) \notin uploaded
    /\ CurrentCall(c) \in Range(backlog) \union {serving}
    /\ uploaded' = uploaded \union {CurrentCall(c)}
    /\ UNCHANGED <<serverVars, phase, found, validating, requests, answer, auditLog, raised>>

\* Faulty variant: rejected receipts are not kept.
LoggedUnlessError(log, entry) ==
    IF entry.status = "error" THEN log ELSE Append(log, entry)

\* The end of ReceiptValidator.verify.
Logged(log, entry) == Append(log, entry)

\* The client's count of a request: no messages are not counted.
Recount(p) == IF p = NullMessages THEN 0 ELSE CountMessages(p)

\* The receipt built from the headers that arrived, or without a request id from
\* the body's usage, whose id is the completion's own.
Rebuilt(sent, lost) ==
    IF "id" \in lost THEN FromUsage([sent.body EXCEPT !.id = -@])
    ELSE FromHeaders(sent, lost)

\* An audit entry, with what was lost of the response it is about.
Audited(result, lost) ==
    [id |-> result.id, input |-> result.input, output |-> result.output,
     local |-> result.local, genuine |-> result.genuine, within |-> result.within,
     status |-> result.status, lost |-> lost]

\* What c's validator decides of the answer, with the counts of its own.
Verdict(c, lost) ==
    LET local == [input |-> Recount(Last(requests[c])),
                  output |-> ApproximateCount(CannedAnswer)]
    IN Result(ProcessKey(found[c]), Rebuilt(answer[c], lost), local)

\* _make_request after the response arrived: the receipt is rebuilt and verified.
\* The empty body of a request without arguments counts as none: its headers
\* are not read and nothing is verified.
Receive(c) ==
    /\ phase[c] = "waiting" /\ answer[c] # NoAnswer
    /\ IF validating[c] /\ Last(requests[c]) # NoArguments
       THEN \E lost \in Losses : \E result \in {Verdict(c, lost)} :
                auditLog' = [auditLog EXCEPT ![c] = Logged(@, Audited(result, lost))]
       ELSE UNCHANGED auditLog
    /\ phase' = [phase EXCEPT ![c] = "idle"]
    /\ answer' = [answer EXCEPT ![c] = NoAnswer]
    /\ UNCHANGED <<serverVars, found, validating, requests, uploaded, raised>>

\* Faulty variant: the answer of an abandoned call is left for the next one.
AbortKeepingAnswer(c) ==
    /\ phase[c] = "waiting"
    /\ phase' = [phase EXCEPT ![c] = "idle"]
    /\ raised' = raised \union {CurrentCall(c)}
    /\ UNCHANGED <<serverVars, found, validating, requests, uploaded, answer, auditLog>>

\* The call leaves _make_request by an exception, its connection closed.
Abort(c) ==
    /\ phase[c] = "waiting"
    /\ phase' = [phase EXCEPT ![c] = "idle"]
    /\ answer' = [answer EXCEPT ![c] = NoAnswer]
    /\ raised' = raised \union {CurrentCall(c)}
    /\ UNCHANGED <<serverVars, found, validating, requests, uploaded, auditLog>>

\* The timeout of IRPClient passed, even if the answer is just arriving.
Timeout(c) == Abort(c)

\* The answer arrived but cannot be used: an error status, a body that is not
\* JSON, or a count or cost header that int() or float() refuses.
Refuse(c) == answer[c] # NoAnswer /\ Abort(c)

\* The connection was refused, or reset by a crash.
Reset(c) ==
    /\ CurrentCall(c) \notin Range(backlog) \union {serving}
    /\ answer[c] = NoAnswer
    /\ Abort(c)

-----------------------------------------------------------------------------
(* The server. *)

\* Faulty variant: abandoned connections are never taken off the backlog.
AcceptIfWaiting ==
    /\ server = "serving" /\ serving = NoCall /\ backlog # <<>> /\ Waiting(Head(backlog))
    /\ serving' = Head(backlog)
    /\ backlog' = Tail(backlog)
    /\ UNCHANGED <<server, process, issued, clientVars, answer, auditLog, raised>>

Accept ==
    /\ server = "serving" /\ serving = NoCall /\ backlog # <<>>
    /\ serving' = Head(backlog)
    /\ backlog' = Tail(backlog)
    /\ UNCHANGED <<server, process, issued, clientVars, answer, auditLog, raised>>

\* The fields of a receipt: those of _handle_chat, or those of a provider that
\* fills in every field.
IssuedReceipt(id, p) ==
    LET counted == ServerCount(JoinedLength(p))
        given == CHOOSE d \in Details : d # NoDetail
        detail == IF SignsFull THEN given ELSE NoDetail
        body == [id |-> id, origin |-> given, input |-> counted, output |-> 12,
                 total |-> counted + 12,
                 carried |-> detail, dropped |-> detail, hash |-> NoDetail]
        message == IF SignsFull THEN FullCanonical(body) ELSE LegacyCanonical(body)
    IN [body |-> body, signature |-> Seal(ProcessKey(process), message), hasKey |-> TRUE]

Sent(call) == requests[call.client][call.number]

\* _handle_chat: read the body, sign a receipt, write the response.  The read
\* ends when the body is there or the client has gone; a body cut short counts
\* as an empty request.  A response to a closed connection is lost.
HandleChat ==
    /\ serving # NoCall
    /\ IF serving \in uploaded THEN Sent(serving) # NullMessages ELSE ~Waiting(serving)
    /\ LET p == IF serving \in uploaded THEN MessagesOf(Sent(serving)) ELSE EmptyPrompt
           receipt == IssuedReceipt(Len(issued) + 1, p)
       IN /\ issued' = Append(issued, [call |-> serving, process |-> process,
                                       body |-> receipt.body])
          /\ answer' = IF Waiting(serving)
                       THEN [answer EXCEPT ![serving.client] = receipt] ELSE answer
    /\ serving' = NoCall
    /\ UNCHANGED <<server, process, backlog, clientVars, auditLog, raised>>

\* The connection is closed without an answer: no request line arrived, or the
\* handler raised, iterating over the null messages.
Discard ==
    /\ serving # NoCall
    /\ IF serving \in uploaded THEN Sent(serving) = NullMessages ELSE ~Waiting(serving)
    /\ serving' = NoCall
    /\ UNCHANGED <<server, process, backlog, issued, clientVars, answer, auditLog, raised>>

\* serve_forever.
Serve ==
    /\ server = "stopped"
    /\ server' = "serving"
    /\ UNCHANGED <<process, backlog, serving, issued, clientVars, answer, auditLog, raised>>

\* shutdown returns when the loop has ended, after the request it is handling.
\* It does not close the listening socket: connections still queue there.
Shutdown ==
    /\ server = "serving" /\ serving = NoCall
    /\ server' = "stopped"
    /\ UNCHANGED <<process, backlog, serving, issued, clientVars, answer, auditLog, raised>>

\* Faulty variant: connections outlive the process they were made to.
CrashKeepingBacklog ==
    /\ server # "down" /\ process < MaxRestarts
    /\ server' = "down"
    /\ serving' = NoCall
    /\ UNCHANGED <<process, backlog, issued, clientVars, answer, auditLog, raised>>

\* The process ends; answers already written may still be read.
Crash ==
    /\ server # "down" /\ process < MaxRestarts
    /\ server' = "down"
    /\ backlog' = <<>>
    /\ serving' = NoCall
    /\ UNCHANGED <<process, issued, clientVars, answer, auditLog, raised>>

\* A new IRPReferenceServer, whose make_handler makes a new ReceiptSigner.
Restart ==
    /\ server = "down"
    /\ server' = "stopped"
    /\ process' = process + 1
    /\ UNCHANGED <<backlog, serving, issued, clientVars, answer, auditLog, raised>>

Next ==
    \/ \E c \in Clients :
         \/ Discover(c) \/ Construct(c) \/ Upload(c) \/ Receive(c)
         \/ Timeout(c) \/ Refuse(c) \/ Reset(c) \/ Close(c)
         \/ \E p \in Prompts : Create(c, p) \/ CreateClosed(c, p)
    \/ Accept \/ HandleChat \/ Discard
    \/ Serve \/ Shutdown \/ Crash \/ Restart

Spec == Init /\ [][Next]_vars

\* Each thread goes on while it can: serve_forever's, and the caller's inside
\* create, where httpx writes the request and reads the response or the error.
\* Neither timeouts nor restarts are promised.
Fairness ==
    /\ WF_vars(Accept \/ HandleChat \/ Discard)
    /\ \A c \in Clients : WF_vars(Upload(c) \/ Receive(c) \/ Reset(c))

FairSpec == Spec /\ Fairness

-----------------------------------------------------------------------------
(* Properties. *)

Indices(c) == DOMAIN auditLog[c]

\* The id by which an entry's receipt was issued: negative for receipts rebuilt
\* from the usage, which carry the completion's id instead.
IssueOf(entry) == issued[Abs(entry.id)]
FromHeader(entry) == entry.id > 0

\* Every variable has its type; places of a call exclude each other.
TypeOK ==
    /\ server \in {"serving", "stopped", "down"} /\ process \in 0 .. MaxRestarts
    /\ backlog \in Seq(Call) /\ serving \in Call \union {NoCall}
    /\ \A i \in DOMAIN issued :
           issued[i].call \in Call /\ issued[i].process \in 0 .. process
             /\ issued[i].body \in Body /\ issued[i].body.id = i
    /\ phase \in [Clients -> {"new", "discovered", "idle", "waiting", "closed"}]
    /\ found \in [Clients -> 0 .. MaxRestarts]
    /\ validating \in [Clients -> BOOLEAN]
    /\ requests \in [Clients -> Seq(Prompts)]
    /\ uploaded \subseteq Call /\ raised \subseteq Call
    /\ \A c \in Clients : answer[c] # NoAnswer =>
           /\ phase[c] = "waiting"
           /\ CurrentCall(c) \notin Range(backlog) \union {serving}
           /\ issued[answer[c].body.id].call = CurrentCall(c)
    /\ server = "down" => backlog = <<>> /\ serving = NoCall

\* Headers without which a signature cannot be confirmed.  A lost total is made
\* up for by the sum, and no signature of the reference server is over the rest.
Needed == {"id", "origin", "input", "output", "signature", "key"}

\* An entry is genuine exactly when all that was signed arrived and the process
\* that signed is the one whose key the client had discovered, or shares its
\* seed; and it then shows the counts that were signed.  Of a receipt with an id
\* and a signature every other verdict is an "error".  So timeouts, crashes in
\* between, late and abandoned answers never cause an alarm, while a restart or
\* the loss of a single header does.
VerdictsTrackProcess ==
    \A c \in Clients : \A i \in Indices(c) :
        LET entry == auditLog[c][i]
            issue == IssueOf(entry)
        IN /\ entry.genuine <=> /\ entry.lost \intersect Needed = {}
                                /\ Seeded \/ issue.process = found[c]
           /\ entry.lost \intersect {"id", "signature"} = {} =>
                (entry.status = "error" <=> ~entry.genuine)
           /\ entry.genuine => /\ entry.input = issue.body.input
                               /\ entry.output = issue.body.output

\* Each log holds receipts of the client's own calls only, in the order they
\* were issued, none twice, and none of a call that had raised: an answer that
\* comes after the timeout is not mistaken for that of the next call.
AuditsOwnCallsInOrder ==
    \A c \in Clients : \A i \in Indices(c) :
        LET issue == IssueOf(auditLog[c][i])
        IN /\ issue.call.client = c
           /\ issue.call \notin raised
           /\ \A j \in 1 .. i - 1 :
                 Abs(auditLog[c][j].id) < Abs(auditLog[c][i].id)
                   /\ IssueOf(auditLog[c][j]).call # issue.call

AuditedCalls(c) == {IssueOf(auditLog[c][i]).call : i \in Indices(c)}
FinishedCalls(c) ==
    {call \in Made : call.client = c}
        \ (IF phase[c] = "waiting" THEN {CurrentCall(c)} ELSE {})

\* Of the calls with arguments none escapes a validating client silently: each
\* that finished is in its audit log or ended in an exception.  A call without
\* arguments, which the server answers and receipts like any other, is never
\* audited, however it ends.
EveryReturnAudited ==
    \A c \in Clients : validating[c] =>
        {k \in FinishedCalls(c) : k \in raised \/ Sent(k) # NoArguments}
            = AuditedCalls(c) \union {k \in raised : k.client = c}

\* A recount is of the request the receipt was issued for: the server never
\* billed a request other than the one it was compared with, and nothing but
\* the loss of its header hides what was billed.
RecountsMatchRequest ==
    \A c \in Clients : \A i \in Indices(c) :
        LET entry == auditLog[c][i]
            request == requests[c][IssueOf(entry).call.number]
        IN /\ request \notin {NullMessages, NoArguments}
           /\ entry.input = IF FromHeader(entry) /\ "input" \in entry.lost THEN 0
                            ELSE ServerCount(JoinedLength(request))
           /\ entry.local.input = Recount(request)

\* Even if no timeout ever fires and a crashed server stays down, every call
\* ends: requests on the one thread do not wait for each other forever, nor for
\* one the handler failed on.  Only a server that was shut down but not ended
\* may keep a caller, whose connection its open socket took.
CallsEnd ==
    \A c \in Clients : phase[c] = "waiting" ~> phase[c] # "waiting" \/ server = "stopped"

\* What the audit trail sees of a state.
OpenCalls == {CurrentCall(c) : c \in {d \in Clients : phase[d] = "waiting"}}
ReceiptedCalls == {issued[i].call : i \in DOMAIN issued}
AllAudited == UNION {AuditedCalls(c) : c \in Clients}

\* The exchange keeps the promises of the audit trail.
Trail == INSTANCE AuditTrail WITH
    Calls <- Call,
    opened <- Made,
    open <- OpenCalls,
    receipted <- ReceiptedCalls,
    audited <- AllAudited

ImplementsTrail == Trail!Spec

-----------------------------------------------------------------------------
(* What a document says, and the code does not do. *)

\* irp-core.md, Verification Flow: a receipt whose signature fails verification
\* is rejected with status "error"; the reference implementation given there
\* sets it whenever signature_valid is not set.
UnverifiedIsError ==
    \A c \in Clients : \A i \in Indices(c) :
        ~auditLog[c][i].genuine => auditLog[c][i].status = "error"

=============================================================================
