---------------------------- MODULE KeyDirectory ----------------------------
(***************************************************************************)
(* Keys by name: a provider publishes its keys under kids in its document, *)
(* rotates and removes them, and names the active one in the handshake; a  *)
(* client looks the name up in a document it fetched earlier, configures   *)
(* its verifier with what it finds and verifies receipts, which may have   *)
(* been signed before or after any of this.                                *)
(***************************************************************************)
EXTENDS Receipts, Sequences, SequencesExt, FiniteSets

CONSTANTS
    Kids,
    NoKid,
    Note,        \* an element of public_keys that is not an object
    Body0,       \* the body of receipts, whose fields play no part here
    Encodings,   \* of keys in the document: "raw", or "spki" with a header
    OneKid,      \* the reference server: one key per process, always one kid
    MaxReceipts  \* bound: receipts signed

ASSUME KidsAssumption == NoKid \notin Kids
ASSUME Body0Assumption == Body0 \in Body
ASSUME EncodingsAssumption == Encodings \subseteq {"raw", "spki"} /\ OneKid \in BOOLEAN

Entry == [kid : Kids, key : Keys, encoding : Encodings]
ASSUME NoteAssumption == Note \notin Entry

VARIABLES
    entries,    \* public_keys of the provider's document
    active,     \* the entry of the key the provider signs with
    published,  \* history: every entry the provider ever published
    document,   \* public_keys as the client fetched it
    session,    \* public_key_kid of the last handshake, or NoKid
    verifyKey,  \* ReceiptVerifier._verify_key
    pinned,     \* history: the kid verifyKey was looked up by, or NoKid
    inFlight,   \* receipts not yet verified, with the entry of their key
    signed,     \* receipts signed so far
    verdicts    \* history: verified receipts [signer, pinned, genuine]

providerVars == <<entries, active, published>>
clientVars == <<document, session, verifyKey, pinned>>
receiptVars == <<inFlight, signed, verdicts>>
vars == <<providerVars, clientVars, receiptVars>>

\* A key never used before, under a name that is new too unless OneKid.
Fresh(e) ==
    /\ \A p \in published : p.key # e.key
    /\ \A p \in published : IF OneKid THEN p.kid = e.kid ELSE p.kid # e.kid

Init ==
    /\ active \in Entry
    /\ entries \in {<<active>>, <<Note, active>>}
    /\ published = {active}
    /\ document = <<>>
    /\ session = NoKid
    /\ verifyKey = NoKey /\ pinned = NoKid
    /\ inFlight = {} /\ signed = 0 /\ verdicts = {}

-----------------------------------------------------------------------------
(* The provider. *)

\* A key is announced before it is used, anywhere in the list.
Publish(e) ==
    /\ ~OneKid /\ Fresh(e)
    /\ entries' \in {Append(entries, e), <<e>> \o entries}
    /\ published' = published \union {e}
    /\ UNCHANGED <<active, clientVars, receiptVars>>

Activate(e) ==
    /\ e \in Range(entries) \ {Note}
    /\ active' = e
    /\ UNCHANGED <<entries, published, clientVars, receiptVars>>

RemoveEntry(i) ==
    /\ entries[i] # active
    /\ entries' = RemoveAt(entries, i)
    /\ UNCHANGED <<active, published, clientVars, receiptVars>>

\* make_handler in a new process: a new key, and a document with it alone.
Restart(e) ==
    /\ Fresh(e)
    /\ entries' = <<e>>
    /\ active' = e
    /\ published' = published \union {e}
    /\ UNCHANGED <<clientVars, receiptVars>>

\* ReceiptSigner.sign.
Sign ==
    /\ signed < MaxReceipts
    /\ signed' = signed + 1
    /\ LET receipt == [body |-> Body0, hasKey |-> TRUE,
                       signature |-> Seal(active.key, FullCanonical(Body0))]
       IN inFlight' = inFlight \union {[signer |-> active, receipt |-> receipt]}
    /\ UNCHANGED <<providerVars, clientVars, verdicts>>

-----------------------------------------------------------------------------
(* The client. *)

\* IRPDiscovery.fetch, as far as public_keys goes.
Fetch ==
    /\ document' = entries
    /\ UNCHANGED <<providerVars, session, verifyKey, pinned, receiptVars>>

\* The handshake's answer carries the kid the provider passes to negotiate.
Greet ==
    /\ session' = active.kid
    /\ UNCHANGED <<providerVars, document, verifyKey, pinned, receiptVars>>

Matches(list, kid) == {i \in DOMAIN list : list[i] # Note /\ list[i].kid = kid}

\* Faulty variant: the first entry, whatever its name.
LookupFirst(list, kid) ==
    IF list = <<>> \/ list[1] = Note THEN Note ELSE list[1]

\* public_key_by_kid: the first entry of that name, or None.
Lookup(list, kid) ==
    IF Matches(list, kid) = {} THEN Note
    ELSE list[CHOOSE i \in Matches(list, kid) : \A j \in Matches(list, kid) : i <= j]

\* VerifyKey takes the 32 raw bytes and raises ValueError for anything else.
Configurable(entry) == entry.encoding = "raw"

\* Faulty variant: the kid is noted although the key was refused.
PinRegardless ==
    /\ session # NoKid
    /\ LET found == Lookup(document, session)
       IN /\ found # Note
          /\ verifyKey' = IF Configurable(found) THEN found.key ELSE verifyKey
          /\ pinned' = session
    /\ UNCHANGED <<providerVars, document, session, receiptVars>>

\* set_public_key with the entry the announced name leads to; if it raises, the
\* key configured before stays.
Pin ==
    /\ session # NoKid
    /\ LET found == Lookup(document, session)
       IN /\ found # Note /\ Configurable(found)
          /\ verifyKey' = found.key
          /\ pinned' = session
    /\ UNCHANGED <<providerVars, document, session, receiptVars>>

\* ReceiptVerifier.verify, in whatever order receipts arrive.
Verify(f) ==
    /\ inFlight' = inFlight \ {f}
    /\ verdicts' = verdicts \union
           {[signer |-> f.signer, pinned |-> pinned, genuine |-> Genuine(verifyKey, f.receipt)]}
    /\ UNCHANGED <<providerVars, clientVars, signed>>

Next ==
    \/ \E e \in Entry : Publish(e) \/ Activate(e) \/ Restart(e)
    \/ \E i \in DOMAIN entries : RemoveEntry(i)
    \/ Sign
    \/ Fetch \/ Greet \/ Pin
    \/ \E f \in inFlight : Verify(f)

Spec == Init /\ [][Next]_vars

-----------------------------------------------------------------------------
(* Properties. *)

\* Every variable has its type; what circulates was published.
TypeOK ==
    /\ entries \in Seq(published \union {Note}) /\ document \in Seq(published \union {Note})
    /\ active \in published /\ published \subseteq Entry
    /\ session \in {p.kid : p \in published} \union {NoKid}
    /\ verifyKey \in Keys \union {NoKey} /\ pinned \in Kids \union {NoKid}
    /\ verifyKey = NoKey <=> pinned = NoKid
    /\ \A f \in inFlight : f.signer \in published
    /\ signed \in Nat
    /\ \A v \in verdicts : v.signer \in published /\ v.pinned \in Kids \union {NoKid}
                             /\ v.genuine \in BOOLEAN

\* Of two published keys one name leads to one, whenever it is looked up: the
\* configured key is the key that was, or is, published under the kid that was
\* announced, even if it was removed since or refused keys came after it.
PinnedAsAnnounced ==
    pinned # NoKid => \E p \in published : p.kid = pinned /\ p.key = verifyKey

\* Through rotations, removals, restarts and stale documents, receipts in any
\* order: a receipt is accepted exactly if the key it was signed with is the one
\* published under the kid that was pinned when it was verified.
VerdictsFollowKids ==
    \A v \in verdicts : v.genuine <=> v.signer.kid = v.pinned

-----------------------------------------------------------------------------
(* What a document says, and the code does not do. *)

\* irp-auth.md 8.1: a kid is a "stable, unique identifier", so receipts of the
\* key it names verify once it is pinned.
KidIdentifiesKey == \A v \in verdicts : v.signer.kid = v.pinned => v.genuine

=============================================================================
