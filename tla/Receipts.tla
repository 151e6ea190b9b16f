------------------------------ MODULE Receipts ------------------------------
(***************************************************************************)
(* Receipts, the two canonical forms a provider may sign, and what one     *)
(* call of ReceiptValidator.verify decides about a receipt.  No state.     *)
(*                                                                         *)
(* A body is the set of signed fields, grouped by how the code treats      *)
(* them:                                                                   *)
(*   id       request_id, with the model, which the client knows anyway    *)
(*   origin   timestamp and provider                                       *)
(*   input, output, total   the token counts                               *)
(*   carried  fields of the full form only that the client reads back      *)
(*            from a header: cost_currency, cost_total, model_version,     *)
(*            reasoning and cached tokens, total latency, first token      *)
(*   dropped  fields of the full form only that no header is read for:     *)
(*            nonce, version, policy_id, cost_input, cost_output, queue    *)
(*            and per-token latency                                        *)
(*   hash     input_hash and output_hash, in both forms when present       *)
(*                                                                         *)
(* Ed25519 is symbolic: a seal is a pair of a key and the message it was   *)
(* made over, so only the holder of a key makes its seals.                 *)
(***************************************************************************)
EXTENDS Integers

CONSTANTS
    Keys,       \* Ed25519 key pairs
    NoKey,      \* a verifier with no public key configured
    Ids,        \* request ids
    Details,    \* values of a group of optional fields
    NoDetail,   \* an optional field left at the constructor's default
    Threshold   \* threshold_percent of the validator

ASSUME NoKeyAssumption == NoKey \notin Keys

ASSUME NoDetailAssumption == NoDetail \in Details

\* At 100% or more every receipt that reports too many tokens is accepted.
ASSUME ThresholdAssumption == Threshold \in 0 .. 99

Body ==
    [id : Ids, origin : Details, input : Nat, output : Nat, total : Nat,
     carried : Details, dropped : Details, hash : Details]

-----------------------------------------------------------------------------
(* Signing. *)

\* Receipt.__post_init__: a zero total is replaced by the sum of the counts.
PostInit(body) ==
    IF body.total = 0 THEN [body EXCEPT !.total = body.input + body.output] ELSE body

\* Faulty variant: the full form as it was before it covered cost and latency.
FullWithoutCost(body) ==
    [form |-> "full", body |-> [body EXCEPT !.carried = NoDetail]]

\* build_canonical_dict.
FullCanonical(body) == [form |-> "full", body |-> body]

\* _build_legacy_canonical_dict: seven fields, those up to total, and the hashes when present.
LegacyCanonical(body) ==
    [form |-> "legacy",
     body |-> [body EXCEPT !.carried = NoDetail, !.dropped = NoDetail]]

Canonicals(body) == {FullCanonical(body), LegacyCanonical(body)}

\* ReceiptSigner.sign_receipt: the signature of a canonical message.
Seal(key, message) == [kind |-> "seal", key |-> key, message |-> message]

\* A receipt's empty signature, and one that base64 refuses to decode.
Unsigned == [kind |-> "none"]
Undecodable == [kind |-> "undecodable"]

-----------------------------------------------------------------------------
(* Transport: what IRPClient rebuilds from a response. *)

\* The headers of a receipt: one for each field that travels alone, one for a
\* group of them.
Headers ==
    {"id", "origin", "input", "output", "total", "carried", "signature", "key"}

\* _extract_receipt_from_headers, when all but the headers lost arrived: each
\* field without its header takes a default of its own.
FromHeaders(receipt, lost) ==
    LET Read(field, value, default) == IF field \in lost THEN default ELSE value
        body == receipt.body
    IN [body |-> PostInit([id      |-> body.id,
                           origin  |-> Read("origin", body.origin, NoDetail),
                           input   |-> Read("input", body.input, 0),
                           output  |-> Read("output", body.output, 0),
                           total   |-> Read("total", body.total, 0),
                           carried |-> Read("carried", body.carried, NoDetail),
                           dropped |-> NoDetail,
                           hash    |-> NoDetail]),
        signature |-> Read("signature", receipt.signature, Unsigned),
        hasKey |-> Read("key", receipt.hasKey, FALSE)]

\* _build_receipt_from_response: the usage of the JSON body, nothing signed.
FromUsage(body) ==
    [body |-> PostInit([body EXCEPT !.origin = NoDetail, !.carried = NoDetail,
                                    !.dropped = NoDetail, !.hash = NoDetail]),
     signature |-> Unsigned, hasKey |-> FALSE]

-----------------------------------------------------------------------------
(* Verification. *)

\* The signature is looked at only when both headers were present.
Consults(receipt) == receipt.signature # Unsigned /\ receipt.hasKey

\* ReceiptVerifier.verify decodes the signature outside its try block, after
\* the test for a configured key: the call, and verify with it, then raises.
Raises(key, receipt) ==
    Consults(receipt) /\ key # NoKey /\ receipt.signature = Undecodable

\* Faulty variant: the key sent along with the receipt is trusted.
GenuineByReceiptKey(key, receipt) ==
    /\ Consults(receipt)
    /\ \E k \in Keys, m \in Canonicals(receipt.body) : receipt.signature = Seal(k, m)

\* ReceiptVerifier.verify returns True: one of the two candidates matches.
Genuine(key, receipt) ==
    /\ Consults(receipt)
    /\ key \in Keys
    /\ receipt.signature \in {Seal(key, m) : m \in Canonicals(receipt.body)}

Abs(n) == IF n < 0 THEN -n ELSE n

\* Faulty variant: the difference without abs.
ExceedsDownwards(server, local) ==
    server > 0 /\ 100 * (local - server) > Threshold * server

\* Relative to the server's count; a count of zero is never compared.  The
\* exact quotient stands for the float one.
Exceeds(server, local) ==
    server > 0 /\ 100 * Abs(server - local) > Threshold * server

WithinThreshold(body, local) ==
    ~Exceeds(body.input, local.input) /\ ~Exceeds(body.output, local.output)

\* Faulty variant: a signed receipt beyond the threshold keeps the initial status.
StatusLeftUnknown(receipt, genuine, within) ==
    IF receipt.signature # Unsigned /\ ~genuine THEN "error"
    ELSE IF ~within /\ ~genuine THEN "warning"
    ELSE IF within THEN "valid" ELSE "unknown"

Status(receipt, genuine, within) ==
    IF receipt.signature # Unsigned /\ ~genuine THEN "error"
    ELSE IF ~within THEN "warning"
    ELSE "valid"

\* The VerificationResult that verify appends to the audit log and returns.
Result(key, receipt, local) ==
    LET genuine == Genuine(key, receipt)
        within == WithinThreshold(receipt.body, local)
    IN [id      |-> receipt.body.id,
        input   |-> receipt.body.input,
        output  |-> receipt.body.output,
        local   |-> local,
        genuine |-> genuine,
        within  |-> within,
        status  |-> Status(receipt, genuine, within)]

=============================================================================
