----------------------------- MODULE Handshake ------------------------------
(***************************************************************************)
(* A client and a provider settle on a version and a set of capabilities.  *)
(* The client fetches the provider's document (IRPDiscovery) and sends its *)
(* offer as headers (encode_handshake_headers); the provider, redeployed   *)
(* at any time, answers it (decode_handshake_headers, negotiate).          *)
(* Gateways may drop headers.  When the calls are made is up to the        *)
(* environment: the package has no caller of its own for them.             *)
(***************************************************************************)
EXTENDS Versions, SequencesExt

CONSTANTS
    Deployments,   \* configurations the provider may run with
    Offers,        \* offers as the client writes them
    Capabilities,
    Blank,         \* a CSV field that is empty after strip()
    NoDocument, NoOffer, NoReply

\* One item of a list of an offer is the sequence of fields its text has
\* between commas, each without its surrounding blanks.
ASSUME OffersAssumption ==
    \A o \in Offers :
        /\ o.versions \in Seq(Seq(Seq(Component) \union {Blank}))
        /\ o.capabilities \in Seq(Seq(Capabilities \union {Blank}))

ASSUME DeploymentsAssumption ==
    \A d \in Deployments :
        /\ d.registry \in Seq(Entry) /\ d.capabilities \subseteq Capabilities
        /\ d.complete \in BOOLEAN

Required == {"version", "versions", "capabilities"}

VARIABLES
    deployment,  \* what the provider runs with
    document,    \* the deployment in the client's CapabilityAdvertisement, or NoDocument
    offer,       \* the offer the client has written, or NoOffer
    headers,     \* those of its required headers that were not lost
    reply,       \* the HandshakeResponse or exception it was answered with, or NoReply
    since        \* history: deployments since the document was fetched

vars == <<deployment, document, offer, headers, reply, since>>

Init ==
    /\ deployment \in Deployments
    /\ document = NoDocument
    /\ offer = NoOffer
    /\ headers = {}
    /\ reply = NoReply
    /\ since = {}

\* A new configuration: a redeployment, or an update of KNOWN_VERSIONS.
Redeploy(d) ==
    /\ deployment' = d
    /\ since' = since \union {d}
    /\ UNCHANGED <<document, offer, headers, reply>>

\* fetch: from_dict refuses a document that lacks a required field.
Fetch ==
    /\ deployment.complete
    /\ document' = deployment
    /\ since' = {deployment}
    /\ UNCHANGED <<deployment, offer, headers, reply>>

-----------------------------------------------------------------------------
(* Version and capabilities. *)

\* The items of a list that are in a set, in the order of the list: a loop that
\* appends those that pass its test.
Kept(list, set) ==
    LET kept[n \in Nat] ==
            IF n = 0 THEN <<>>
            ELSE IF list[n] \in set THEN Append(kept[n - 1], list[n]) ELSE kept[n - 1]
    IN kept[Len(list)]

Without(list, set) == Kept(list, Elements(list) \ set)

\* ",".join on one side, _split_csv on the other.
Split(items) == Without(FlattenSeq(items), {Blank})

\* Faulty variant: the answer to the previous offer is taken for this one's.
SendOfferKeepingReply(o) ==
    /\ offer' = o
    /\ headers' = Required
    /\ UNCHANGED <<deployment, document, reply, since>>

\* encode_handshake_headers.
SendOffer(o) ==
    /\ offer' = o
    /\ headers' = Required
    /\ reply' = NoReply
    /\ UNCHANGED <<deployment, document, since>>

\* A gateway drops a header.
LoseHeader(h) ==
    /\ h \in headers /\ reply = NoReply
    /\ headers' = headers \ {h}
    /\ UNCHANGED <<deployment, document, offer, reply, since>>

\* Faulty variant: without a common version the capabilities are still granted.
RespondRegardless(o, d) ==
    LET versions == Split(o.versions)
        capabilities == Split(o.capabilities)
    IN [outcome  |-> IF CommonAt(versions, d.registry) = {} THEN "refused" ELSE "accepted",
        version  |-> SelectedVersion(versions, d.registry),
        accepted |-> capabilities,
        rejected |-> Without(capabilities, d.capabilities)]

\* negotiate, when it does not raise; "refused" is the error "no compatible
\* version".  The kid it passes on is the subject of KeyDirectory.
Respond(o, d) ==
    LET versions == Split(o.versions)
        capabilities == Split(o.capabilities)
    IN IF CommonAt(versions, d.registry) = {}
       THEN [outcome |-> "refused", version |-> NoVersion,
             accepted |-> <<>>, rejected |-> capabilities]
       ELSE [outcome  |-> "accepted",
             version  |-> SelectedVersion(versions, d.registry),
             accepted |-> Kept(capabilities, d.capabilities),
             rejected |-> Without(capabilities, d.capabilities)]

\* decode_handshake_headers, which raises when a required header is missing,
\* then negotiate.
Answer ==
    /\ offer # NoOffer /\ reply = NoReply
    /\ reply' = IF headers # Required THEN [outcome |-> "no header"]
                ELSE IF NegotiationRaises(Split(offer.versions), deployment.registry)
                THEN [outcome |-> "invalid version"]
                ELSE Respond(offer, deployment)
    /\ UNCHANGED <<deployment, document, offer, headers, since>>

Next ==
    \/ \E d \in Deployments : Redeploy(d)
    \/ Fetch
    \/ \E o \in Offers : SendOffer(o)
    \/ \E h \in Required : LoseHeader(h)
    \/ Answer

Spec == Init /\ [][Next]_vars

-----------------------------------------------------------------------------
(* Properties.  Those about an answer are about the step that makes it. *)

\* Every variable has its type, and a reply is that of the offer at hand.
TypeOK ==
    /\ deployment \in Deployments
    /\ document \in Deployments \union {NoDocument}
    /\ offer \in Offers \union {NoOffer}
    /\ headers \subseteq Required
    /\ reply # NoReply =>
           /\ offer # NoOffer
           /\ reply.outcome \in {"accepted", "refused", "no header", "invalid version"}
           /\ reply.outcome = "no header" <=> headers # Required
    /\ since \subseteq Deployments

Negotiated == reply # NoReply /\ reply.outcome \in {"accepted", "refused"}
Negotiates == reply = NoReply /\ Negotiated'

\* A version written the usual way.
Plain(spelling) == spelling \in [1 .. 3 -> [number : Nat, written : {"plain"}]]

Offered == Elements(Split(offer.versions))
Supported(d) == {d.registry[i].spelling : i \in SupportedAt(d.registry)}
NumbersOf(spellings) == {Numbers(s) : s \in spellings}

\* The package's two negotiations agree, though one matches text and the other
\* numbers, the one ranks lists and the other sets: when all versions are
\* written the usual way, the version answered is the one version.negotiate
\* returns for the parsed lists, and the offer is refused when that is None.
NegotiationsAgree ==
    [][Negotiates /\ (\A s \in Offered \union Supported(deployment) : Plain(s)) =>
         LET agreed == HighestCommon(NumbersOf(Offered), NumbersOf(Supported(deployment)))
         IN IF reply'.outcome = "refused" THEN agreed = NoVersion
            ELSE Numbers(reply'.version) = agreed]_vars

\* What is written between the commas of a list, blanks aside.
Fields(items) == (UNION {Elements(items[i]) : i \in DOMAIN items}) \ {Blank}

\* Items the client wrote without commas, and not blank.
CleanItems(items) == \A i \in DOMAIN items : Len(items[i]) = 1 /\ items[i][1] # Blank

\* Whatever the client writes, with commas and blanks too, each capability that
\* reaches the provider is granted if it has a common version and supports that
\* capability, refused otherwise, never both and never dropped; and items
\* without commas are answered once for each time they were asked for, in order.
EveryWishAnswered ==
    [][Negotiates =>
         LET fields == Fields(offer.capabilities)
             granted == IF reply'.outcome = "accepted"
                        THEN fields \intersect deployment.capabilities ELSE {}
             wishes == [i \in DOMAIN offer.capabilities |-> offer.capabilities[i][1]]
         IN /\ Elements(reply'.accepted) = granted
            /\ Elements(reply'.rejected) = fields \ granted
            /\ CleanItems(offer.capabilities) =>
                 /\ reply'.accepted = Kept(wishes, granted)
                 /\ reply'.rejected = Without(wishes, granted)]_vars

\* An offer made from a stale document is answered by what the provider is
\* now: something the document promised is denied only if the provider has
\* been without it since the document was fetched.
DeniedOnlyIfWithdrawn ==
    [][Negotiates /\ document # NoDocument =>
         /\ reply'.outcome = "refused" =>
              \A v \in Supported(document) \intersect Offered :
                 \E d \in since : v \notin Supported(d)
         /\ reply'.outcome = "accepted" =>
              \A c \in Elements(reply'.rejected) \intersect document.capabilities :
                 \E d \in since : c \notin d.capabilities]_vars

\* Whatever a client offers, malformed versions, commas and blanks included, it
\* cannot make the negotiation raise by itself: that takes a malformed version
\* the provider supports too.
OnlyOwnVersionsRaise ==
    [][reply = NoReply /\ reply' # NoReply /\ reply'.outcome = "invalid version" =>
         \E v \in Supported(deployment) : ~HasTuple(v)]_vars

=============================================================================
