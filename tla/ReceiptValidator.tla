-------------------------- MODULE ReceiptValidator --------------------------
(***************************************************************************)
(* One ReceiptValidator object over its life: receipts of any origin are   *)
(* presented to verify, the pinned public key is replaced, the audit log   *)
(* grows.  The providers are the environment: a receipt's signature is     *)
(* empty, undecodable, or a seal some provider has made, over this body or *)
(* over another one.                                                       *)
(***************************************************************************)
EXTENDS Receipts, Sequences, SequencesExt, FiniteSets

CONSTANTS
    Bodies,      \* receipt bodies in circulation
    Recounts,    \* local token counts: records [input, output]
    MaxSeals,    \* bound: signatures providers make
    MaxVerified  \* bound: calls of verify

ASSUME BodiesAssumption == Bodies \subseteq Body

ASSUME RecountsAssumption == Recounts \subseteq [input : Nat, output : Nat]

VARIABLES
    verifyKey,   \* ReceiptVerifier._verify_key
    auditLog,    \* ReceiptValidator._audit_log
    seals,       \* environment: every signature made so far
    \* History variables, which no action reads:
    witness,     \* for each audit entry, the receipt and the key it was checked with
    presented,   \* calls of verify, those that raised included
    tally        \* tokens billed and recounted over the entries with status "valid"

vars == <<verifyKey, auditLog, seals, witness, presented, tally>>

Messages == UNION {Canonicals(b) : b \in Bodies}

Receipt ==
    [body : Bodies, signature : seals \union {Unsigned, Undecodable}, hasKey : BOOLEAN]

Init ==
    /\ verifyKey \in Keys \union {NoKey}
    /\ auditLog = <<>>
    /\ seals = {}
    /\ witness = <<>>
    /\ presented = 0
    /\ tally = [billed |-> 0, recounted |-> 0]

\* A provider signs with ReceiptSigner.sign, over the full canonical form, or
\* hands sign_receipt the seven-field dict as the reference server does.
ProviderSigns(key, body) ==
    /\ Cardinality(seals) < MaxSeals
    /\ \E message \in Canonicals(body) : seals' = seals \union {Seal(key, message)}
    /\ UNCHANGED <<verifyKey, auditLog, witness, presented, tally>>

\* set_public_key.  A malformed key raises before the assignment.
SetPublicKey(key) ==
    /\ verifyKey' = key
    /\ UNCHANGED <<auditLog, seals, witness, presented, tally>>

Tallied(entry) ==
    IF entry.status = "valid"
    THEN [billed |-> tally.billed + entry.input + entry.output,
          recounted |-> tally.recounted + entry.local.input + entry.local.output]
    ELSE tally

\* verify: an undecodable signature leaves it by an exception before the
\* append; every other receipt is logged whatever the verdict.
Verify(receipt, local) ==
    /\ presented < MaxVerified
    /\ presented' = presented + 1
    /\ IF Raises(verifyKey, receipt)
       THEN UNCHANGED <<auditLog, witness, tally>>
       ELSE LET entry == Result(verifyKey, receipt, local)
            IN /\ auditLog' = Append(auditLog, entry)
               /\ witness' = Append(witness, [receipt |-> receipt, key |-> verifyKey])
               /\ tally' = Tallied(entry)
    /\ UNCHANGED <<verifyKey, seals>>

Next ==
    \/ \E key \in Keys, body \in Bodies : ProviderSigns(key, body)
    \/ \E key \in Keys : SetPublicKey(key)
    \/ \E receipt \in Receipt, local \in Recounts : Verify(receipt, local)

Spec == Init /\ [][Next]_vars

-----------------------------------------------------------------------------
(* Properties. *)

Statuses == {"valid", "warning", "error"}

Entry ==
    [id : Ids, input : Nat, output : Nat, local : [input : Nat, output : Nat],
     genuine : BOOLEAN, within : BOOLEAN, status : Statuses]

AnySeal == {Seal(k, m) : k \in Keys, m \in Messages}

Witness ==
    [receipt : [body : Bodies, signature : AnySeal \union {Unsigned, Undecodable},
                hasKey : BOOLEAN],
     key : Keys \union {NoKey}]

Tally == [billed : Nat, recounted : Nat]

\* Every variable has its type; the log and its history have one length.
TypeOK ==
    /\ verifyKey \in Keys \union {NoKey}
    /\ auditLog \in Seq(Entry)
    /\ seals \subseteq AnySeal
    /\ witness \in Seq(Witness)
    /\ Len(witness) = Len(auditLog)
    /\ presented \in Nat
    /\ tally \in Tally

\* The fields every signature covers, whichever form it is over.
Mandatory(body) ==
    <<body.id, body.origin, body.input, body.output, body.total, body.hash>>

\* A signature that covers everything an entry reports of its receipt.
Backs(seal, entry, seen) ==
    /\ seal.key = seen.key
    /\ Mandatory(seal.message.body) = Mandatory(seen.receipt.body)
    /\ seal.message.form = "full" => seal.message.body = seen.receipt.body
    /\ entry.id = seal.message.body.id
    /\ entry.input = seal.message.body.input
    /\ entry.output = seal.message.body.output

\* An entry logged with signature_valid stands for a receipt whose seven
\* mandatory fields and hashes were signed, as they are, with the key that was
\* configured when it was checked, and later key changes do not alter this.
\* The fallback to the legacy form weakens nothing for a provider that signs the
\* full one: then the cost, latency and nonce are the signed ones too.
GenuineIsSigned ==
    \A i \in DOMAIN auditLog :
        auditLog[i].genuine => \E s \in seals : Backs(s, auditLog[i], witness[i])

\* However many receipts were accepted as "valid", in whatever order, with or
\* without signatures, the tokens they bill exceed the client's own count by at
\* most the factor 100 / (100 - threshold_percent).
OverchargeBounded ==
    (100 - Threshold) * tally.billed <= 100 * tally.recounted

-----------------------------------------------------------------------------
(* What documents say, and the code does not do. *)

\* README, Verification Logic: "Record all verification results".
RecordsEveryVerification == Len(auditLog) = presented

\* irp-conformance.md TV4: the same request_id is not accepted twice.
AcceptedOnce ==
    \A i, j \in DOMAIN auditLog :
        auditLog[i].status = "valid" /\ auditLog[j].status = "valid"
            /\ auditLog[i].id = auditLog[j].id => i = j

=============================================================================
