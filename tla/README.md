# A TLA+ model of the Inference Receipt Protocol implementation

This directory models the Python package `irp` (`src/irp/irp`): an inference
provider signs a receipt for every completion; the client recounts the tokens,
verifies the signature and keeps an audit log; receipts can be chained into a
Merkle log; client and provider find each other's keys, versions, capabilities
and classes of service through a discovery document and a handshake. The
modules are translated from the code; the documents under `docs/spec` and the
READMEs are used only where a run compares them with it.

## The system

| Component | State | Operations | What is hard | What makes it correct |
|---|---|---|---|---|
| Receipt model (`models.py`) | none | construction, which rewrites a zero total | the rewrite changes signed data | a rebuilt receipt has the fields that were signed |
| Signer, verifier (`signer.py`) | the key pair; the configured public key | sign (full or seven-field form), verify with fallback, set key | two canonical forms, key changes, undecodable input | a verified receipt was signed, in every field its form covers |
| Validator (`receipt.py`) | key, audit log | verify, set key, log, summary, report | order of the checks, exceptions between them, zero counts | each verdict is logged and means what it says; accepted overcharge is bounded |
| Merkle log (`audit.py`) | leaf hashes | append, root, proof, verify proof | splits at powers of two, proofs and roots of different ages | old roots and proofs keep their meaning, a root binds every receipt |
| Client (`client.py`) | HTTP client, validator | construct, create, receive, fail, close | timeouts against late answers, headers lost one by one, stale keys | the log holds the verdicts on the caller's own answers, and no call with arguments returns unaudited |
| Reference server (`server_ref/app.py`) | key pair of the process, connections | serve, discovery, chat, shutdown; log root and proof (stubs) | one thread, a failing handler, shutdown, crash and restart, new key | one receipt per handled call; nobody waits forever |
| Token counter (`tokenizer.py`) | none | exact or approximate count | client and server count different things | a recount is of the request that was billed |
| Versions, handshake (`version.py`, `handshake.py`) | the registry; what is on the way | parse, negotiate, encode, decode | text against numbers, stale offers, lost headers | the highest common version; every wish answered; a refusal has a reason |
| Quality of service (`qos.py`) | none | parse, select | no lower class supported, two selections over different lists | no class both lists have is passed over, no drift |
| Frames (`frame.py`) | none | encode, decode | cut, concatenated and malformed frames | each frame comes out once, whole, in order |
| Discovery (`discovery.py`) | the fetched document | fetch, look up key | rotation, removal, stale documents | the key used is the one announced |
| Errors (`errors.py`) | none | tables | | |

Clients call the server over HTTP, one connection per call. The receipt comes
back in headers (or, without a request id among them, is rebuilt unsigned from the
body's usage; any other field without its header takes a default).
The client hands receipt, messages and answer to its validator, unless the call had
no arguments at all. The validator
uses the verifier and the token counter and appends to its log. The server
makes its signer when the process starts. Nothing in the package connects the
Merkle log with the server, whose log endpoints are stubs; nor does anything in
it call the handshake, the classes of service, the frames or the discovery
client. Their callers are the environment of their models, which uses them in
the roles their docstrings and the documents give them, in any order. No object
is shared between threads anywhere in the package; all concurrency is between
processes.

## Modules

Receipts:

- `Receipts` (no state): receipt bodies, the two canonical forms, symbolic
  signatures, transport by headers or usage, and `Result`, the whole decision of
  `ReceiptValidator.verify`. A body groups the fields by how the code treats
  them: always signed, signed in the full form and carried by a header, signed
  in the full form and carried by none, hashes. The values inside a group are
  atoms. `Headers` has one header for each field that travels alone and one for a
  group; `FromHeaders` is told which of them are lost.
- `ReceiptValidator`: one validator. `verifyKey` is `_verify_key`, `auditLog` is
  `_audit_log`. `Verify` is `verify` with its exception path, `SetPublicKey` is
  `set_public_key`. `ProviderSigns` is the environment: any signature that
  exists was made by some holder of a key. `witness`, `presented` and `tally` are
  history variables; no action reads them, except the bound on `presented`.
- `MerkleTree` (no state): `audit.py`'s recursive functions as functions of a
  slice's start and length. A hash is a term, so equal hashes have equal parts.
- `MerkleLog`: `leaves` is `_leaves`; `AppendReceipt`, `PublishRoot` and
  `IssueProof` are `append`, `root_hash` and `proof`. `tickets`, `roots` and
  `proofs` are what callers hold.

The exchange:

- `TokenCounts` (no state): the client's counter without tiktoken and the
  server's count of a conversation. A text is what the counts depend on: its
  numbers of characters, CJK characters, words and special characters. The
  server counts only contents that are strings, the client also lists of parts.
- `IRPExchange` (over `Receipts` and `TokenCounts`): clients and server composed.
  `process` counts server processes and determines the key; `server` tells a
  serving process from one that is stopped, with its socket still open, and from
  one that is down; `backlog` and `serving` are the connections queued at and
  handled by the single thread; `issued` is the sequence of signed receipts, a
  `request_id` being a position in it. Per client: `phase`, the process whose key
  it `found`, whether it is `validating`, its `requests`, the current `answer` and
  the `auditLog`, filled by `Receipts!Result` (an entry's field `lost` is history: the
  headers lost of the response it is about). Among the requests are one whose messages
  are null and the call without arguments, `NoArguments`, whose empty JSON body the
  client's guards take for none (`client.py:119`, 136, 147): `Receive` then reads no header
  and verifies nothing. `Losses` are the sets of headers that may be lost. A call passes `Create`, `Upload`,
  `Accept`, `HandleChat`, `Receive`; it may leave this path by `Timeout`, `Refuse`
  (an unusable answer) or `Reset` at any point, and the server then meets a closed
  connection (`HandleChat` with an empty request, or `Discard`). `Discard` is also
  the handler that raises over null messages. `Serve`, `Shutdown`, `Crash` and
  `Restart` are the life of the process; `Close` and `CreateClosed` the end of a
  client and a call after it.
- `AuditTrail`: the abstract specification of the exchange. A call gets at most
  one receipt and is audited at most once, while its caller waits and after the
  receipt was issued. `IRPExchange!Trail` is the refinement mapping.

Discovery, handshake, classes of service:

- `Versions` (no state): versions as spelled and as ordered, the registry with
  its lifecycle, and the two negotiations of the package. `HighestCommon` is
  `version.negotiate`, on sets of parsed versions; `CommonAt`,
  `NegotiationRaises` and `SelectedVersion` are `handshake.negotiate`, on lists of
  text.
- `Handshake`: `Fetch` (`IRPDiscovery.fetch` with the required fields), `SendOffer`
  (`encode_handshake_headers`), `LoseHeader`, `Redeploy` (a new registry and
  capabilities) and `Answer` (`decode_handshake_headers`, then `negotiate`, with the
  exceptions of both). A list in an offer is a list of items, each the sequence of
  fields that its text holds between commas: joining and splitting is then exactly
  what `Split` says.
- `QoS`: the client selects among the classes of its document (`Choose`), the
  provider among those it has by then (`Schedule`). Names that are not classes make
  either side raise.
- `KeyDirectory` (over `Receipts`): a provider publishes, activates and removes
  keys under kids, or restarts with one new key; the client fetches the document,
  learns the active kid in the handshake, looks it up (`Lookup`) and configures its
  verifier (`Pin`); receipts are verified in any order. `OneKid` makes it the
  reference server, whose kid is a constant.

Frames:

- `FrameStream`: `Send` writes what `encode_frame_to_bytes` returns; bytes
  `Arrive` in pieces; `Receive` hands a complete frame to
  `decode_frame_from_bytes` (`Decoded`) and goes on behind it; `Break` replaces the
  connection. The prefix is computed byte by byte for any number of values of a
  byte. What the JSON of a body says is a table, and decides between a frame and
  the kinds of exception.

`MC*` modules hold values for TLC, `*Proofs` modules theorems, `OrderLemmas` lemmas
that several of them cite: maxima and minima in finite orders, and induction and
recursion over numbers.

Loops and recursions of the code are recursive functions over numbers (the tree
functions, the sum `Total`, the filter `Kept`), not recursive operators, so that
they can be proved about.

Definitions under a comment "Faulty variant" are plausible bugs of the
definition that follows. No specification uses them; each property is shown to
fail when the variant takes the place of the definition.

## Runs

Safety runs unless said otherwise.

| Run | Configuration | Shows |
|---|---|---|
| validator | `ReceiptValidator.cfg` | `GenuineIsSigned`: an entry with `signature_valid` is backed by a signature over all fields of its form, under the key of the time. `OverchargeBounded`: accepted receipts together bill at most 100/(100 - threshold) times the recount. |
| merkle_log | `MerkleLog.cfg` | `HistoryKept`, `ProofsMatchRoots` (a proof verifies against exactly the roots of its own size), `RootsAreBinding` (no other list of receipts has a published root), `NoForgedInclusion` (a proof for the root's size names the true index). |
| exchange | `Exchange.cfg` | `VerdictsTrackProcess` (an entry is genuine exactly when every header it needs arrived and the key did not change since discovery, and a receipt with an id and a signature is otherwise an error), `AuditsOwnCallsInOrder`, `EveryReturnAudited` (each call with arguments is audited or raised; one without is never audited), `RecountsMatchRequest`; `ImplementsTrail`, the refinement of `AuditTrail`; `CallsEnd`, a liveness property, under `FairSpec`. |
| handshake | `Handshake.cfg` | `NegotiationsAgree` (text and numbers lead to the same version), `EveryWishAnswered` (of the capabilities that reach the provider, commas and blanks included, exactly those it has are granted; clean items in order), `DeniedOnlyIfWithdrawn` (a refusal of something announced is due to a change since), `OnlyOwnVersionsRaise`. |
| qos | `QoS.cfg` | `NoNeedlessDowngrade` (the result is below a class only if one of the two lists lacked it), `ChoiceIsStable`. |
| key_directory | `KeyDirectory.cfg` | `PinnedAsAnnounced`, `VerdictsFollowKids`. |
| frame_stream | `FrameStream.cfg` | `DecodedInOrder`; `NothingStuck`, a liveness property, under `FairSpec`. |

`CHECK_DEADLOCK FALSE` is set where a model stops at its bounds (validator, merkle_log,
exchange, frame_stream); the other three never stop.

Bounds, and why they are enough:

- validator: two keys (pinned and other), one signature made, two receipts
  presented. The six bodies are one honest body and bodies that differ from it in
  each group of fields, so every confusion of signed and presented fields
  occurs; recounts lie inside, at and outside the 5% threshold, and at zero.
  Every property is about one entry, or sums over entries, and two entries cover
  a key change between them. The theorems remove these bounds.
- merkle_log: two kinds of receipt and five leaves, so that equal leaves occur
  and trees are perfect (1, 2, 4) and unbalanced to depth three (3, 5). Roots of all
  sizes and one proof are kept. `NoForgedInclusion` tries all paths of up to three
  hashes the log has given out.
- exchange: two calls, either one of each of two clients, which compete for the
  thread, or two of one client, so that a late answer has a next call to be
  confused with; one restart gives two keys. There are three requests: messages that
  client and server count differently, with a part the server does not read; null
  messages, on which the handler fails; no arguments. All headers arrive, or none, or
  all but the timestamp, the public key, or count and signature: each group of
  consequences a loss can have. At the 25% threshold of this run the answer is exactly
  at the boundary and the request beyond it. 547,278 states, about two minutes. The
  theorems hold for any number of clients, calls and restarts, all requests, with and
  without a seed, whichever headers are lost.
- handshake: six configurations and six offers, chosen so that orders by text,
  by number and by position differ, a version is spelled in two ways, one has two
  components, versions and capabilities are withdrawn between configurations, lists
  hold repetitions, blanks and commas. Redeployments are not bounded.
- qos: all sets of the five classes and one name that is none, at both sides.
- key_directory: three keys and kids, with symmetry, and two receipts. The
  list order matters (the first entry of a name is found), so it is kept.
- frame_stream: bytes of two values, so that the prefix counts to fifteen and
  carries occur; bodies that are a frame, the beginning of a prefix, not an object,
  of the other class, with null messages, and one byte too long; three frames, cut
  anywhere.

Fairness. In the exchange: weak fairness of each thread's own steps. The server's is
`Accept` or finishing the connection being served (never both possible at once),
because `serve_forever` loops as long as the process runs; a caller's is `Upload`,
`Receive` or `Reset`, because `httpx` writes a request whole and delivers responses
and connection errors. Nothing is assumed of `Timeout`, although the client sets one, nor of `Serve` and `Restart`: `CallsEnd` says
that the connections alone bring every call to an end, unless the server was stopped:
`shutdown` leaves the socket open, and a connection made to it then is served by nobody.
A peer that vanishes without its connection being closed is not modelled; then
only the timeouts help. In the frame stream: a connection that does not break
delivers, and the receiver's loop, which is the caller's, goes on.

Runs that end in a violation compare a document with the code:

| Run | The document says | The code does |
|---|---|---|
| validator_replay | irp-conformance.md TV4: a second presentation is refused | the receipt is accepted again (`receipt.py:27`) |
| validator_undecodable | README: record all verification results | bad base64 raises, nothing is recorded (`signer.py:178`) |
| exchange_unsigned | irp-core.md 6.4 and A.2: a receipt whose signature does not verify is an `error` | a receipt that carries no signature is `valid` when its counts agree (`receipt.py:97`), and a response that lost its headers becomes one |
| qos_upgrade | irp-qos.md 5.1, 5.2: the class scheduled is never above the one requested | without a class at or below it the dearest one supported is taken (`qos.py:113`), even where a cheaper one would do |
| key_one_kid | irp-auth.md 8.1: a kid is a stable, unique identifier | every process publishes a fresh key as `ref-1` (`server_ref/app.py:111`), and an honest receipt fails under the pinned kid |

Further differences met while modelling. The models contain the behaviour, no run
is about it:

- What acceptance of an unsigned receipt still guarantees is `OverchargeBounded`.
- The README lists `X-IRP-Nonce` among the headers providers return and calls the
  verification automatic; the client reads no header for the nonce (nor for version,
  hashes, partial costs, and some latencies, `client.py:74`), so an honest receipt in the
  full form that has them set is never believed. `FullFormRefused` proves it.
- The README wants all verification results recorded; a call without arguments is
  answered, receipted and returned to a validating client without an entry
  (`client.py:136`, 147): the second half of `EveryReturnAudited`.
- `frame.py:159` promises `ValueError` for malformed input and for a frame of another
  class; `from_json_dict` raises `KeyError` for a missing field and `TypeError` for null
  messages (`frame.py:183`): the outcomes of `FrameStream!Parsed`.
- `decode_handshake_headers` is called the inverse of `encode_handshake_headers`
  (`handshake.py:132`); an item that holds a comma or is blank comes back as several items
  or as none. `EveryWishAnswered` says what is then granted.
- `generate_report` looks up keys that `get_summary` leaves out for an empty log
  (`receipt.py:158`).
- `irp-core.md` wants unsupported versions rejected gracefully; a version that
  both sides list and that is not three numbers, such as `frame.py`'s own `0.1`,
  raises out of `negotiate` (`handshake.py:95`): the outcome "invalid version" of
  `Handshake`.
- `irp-qos.md` and `irp-auth.md` spell the first class `realtime`, the code
  `real-time` (`qos.py:16`), and one unknown name makes the list unusable.
- `irp-auth.md` allows SPKI for published keys; the verifier takes raw keys only
  (`signer.py:149`): `Configurable` in `KeyDirectory`.
- `irp-conformance.md` C4 wants counts within 5% of a reference tokenizer; the
  reference server bills a constant for the answer (`server_ref/app.py:138`), and
  the package's own counter disagrees with it.

## Proofs

TLAPS checks the following for all values of the constants that satisfy the
modules' assumptions.

- `ReceiptValidatorProofs`. `TypeCorrect`: the type invariant is inductive;
  `ResultIsEntry` says a result always has one of the three statuses.
  `GenuineCorrect`: `TypeOK /\ GenuineIsSigned` is inductive; `GenuineIsBacked` does
  the work: if one of the two candidates verifies, the presented signature is one
  that was made, and since the legacy form keeps the mandatory fields
  (`LegacyKeepsMandatory`) its message agrees with the receipt.
  `OverchargeCorrect`, from `ThresholdAssumption` (below 100): `WithinBounds` turns
  one comparison with the threshold into a linear bound, also for a zero server
  count, and `ScaledSum` adds it to the tally.
- `MerkleLogProofs`. `TypeCorrect` and `HistoryCorrect`: `TypeOK /\ HistoryKept` is
  inductive; `PrefixOfAppend` is the append-only argument. What roots and proofs mean
  is a matter of the tree functions, of lists of any length. The prover takes a
  recursive function as an arbitrary one that satisfies its equation, if any does;
  `HighestBitDef`, `SliceHashDef`, `SlicePathDef` and `RebuildDef` show that one does, by
  `OrderLemmas!RecursionHasSolution` and a set with all terms over the leaves
  (`TermsExist`). By strong induction over the size of a tree: `SliceHashBinds` (equal
  hashes are of equal slices of equal length, because nodes differ from leaves and a
  node has its children in it), `RebuildComplete` (from the path of a leaf the slice's
  hash is rebuilt, using the whole path) and `RebuildSound` (what rebuilds the slice's hash
  starts from the leaf at that place). Hence `RootsCorrect`; `ProofsCorrect`, with the
  inductive invariant that a proof handed out stays the honest one for its prefix
  (`ProofsKept`); and `AnyPathCorrect`, which is `NoForgedInclusion` for every leaf hash,
  index and path, where the run tries short paths of known hashes. All this is with hashes
  as terms, that is, without collisions.
- `IRPExchangeProofs`. The inductive invariant `Inv` has six parts: `Shapes` (types),
  `Known` (whatever is queued, served, receipted or audited is a call that was made),
  `Ordered` (one client's calls appear in the backlog, the connection being served and
  `issued` in the order they were made; this is what excludes a second receipt for a
  call), `Answers` (an answer belongs to the call being waited for and is in
  `issued`), `Audits` (each log entry points to an earlier receipt of a finished call,
  in increasing order) and `Returned` (finished calls with arguments are audited or raised).
  From it: `AuditsCorrect` and `TrailRefined`, where every step maps
  to a step of `AuditTrail` or to a stutter, by a case per action.
  A second invariant, `Truth`, says what the receipts mean: each answer is the very
  receipt made by the process recorded for it for the request its call sent
  (`AnswersSound`), and each entry states the verdict and counts that follow from the
  headers it lost (`EntriesSound`), for either form a provider may sign: `HeadersOf` names
  what a client rebuilds without the headers lost, `FormsTried` what the verifier compares
  the signature with, `HeaderVerdict` and `UsageVerdict` what follows. From it
  `ReturnsCorrect`, which needs that an audited call had arguments; `RecountsCorrect`, for
  any provider; `VerdictsCorrect`, for `~SignsFull`, one that signs as the reference server
  does; and `FullFormRefused`, for `SignsFull`: then no receipt is genuine and each that
  arrives with id and signature is an error.
  `TypeCorrect` needs a third: `Typing` with the bounds. A receipt's id is in `Ids`
  because there are no more receipts than calls: `issued` maps its positions one to one
  into the calls made (`IssuesBounded`, from `Ordered`), and those stay within `MaxTotal`
  (`BoundedStep`). Counts are numbers by induction over the length of the list summed
  (`TotalIsCount`). The assumptions on the constants are `IdsAssumption` (each receipt has
  an id), `DetailsAssumption` (who signs the full form has something to put in it) and
  `NoCallAssumption` (the mark for "nothing" is not a call).
- `HandshakeProofs`. `TypeCorrect`; `RaisesCorrect`; `NegotiationCorrect`, for lists of any
  length: `SelectionsAgree` shows that the first of the largest positions has the
  numbers of the maximum of the set, from totality of the order (`BelowIsTotal`) and
  the existence of maxima in finite sets (`OrderLemmas!MaximalExists`). `WishesCorrect`:
  every step that answers satisfies `EveryWishAnswered`, given the types. It rests on
  lemmas about lists of any length: what crosses the headers without commas and blanks comes back as it was
  (`SplitItems`), what crosses with them has the same fields (`FlattenElements`), a filter
  keeps exactly the elements in its set (`KeptElements`) and depends on the set only as far
  as the list's elements go (`KeptAgrees`), so that filtering by what the provider supports
  and by what was granted is the same. `DenialsCorrect`: what the provider is now is
  always among `since` (`SinceCurrent`), so whatever it lacks when it answers is a witness.
- `QoSProofs`. `TypeCorrect`; `DowngradeNeeded` and `ChoiceStable` from the invariant
  that every class was selected from the list it was selected from (`Selected`), and from
  `SelectReturns`, which states what one selection guarantees.
- `KeyDirectoryProofs`. `TypeCorrect`; `PinnedCorrect`; `VerdictsCorrect` for `~OneKid`, from the
  invariant that a published kid has one key (`Unique`); `GenuineNamesKey` reduces
  verification to the equality of keys.
- `FrameStreamProofs`. `TypeCorrect`; `DecodingCorrect`, for every number of byte values and
  all bodies: the stream is the concatenation of the frames sent (`Segments`), and the
  buffer is always the part of it from the start of the first frame not yet received to
  what has arrived (`Aligned`); `PrefixDeclares` says the four bytes read back as the
  length written.

Every invariant and every action property of the passing runs is stated by one of
these theorems. The library's induction theorems take a predicate as a parameter,
which the installed provers cannot instantiate; `OrderLemmas!StrongInduction` is over a
set instead, and each use names the set of numbers it is about.

Only model-checked: liveness (`CallsEnd`, `NothingStuck`), which is beyond this prover.

## Not modelled

- Wording, logging, latency, averages, `get_summary` and `generate_report`, which only
  read the log; floats (percentages are exact; the counter's products are exact
  tenths).
- Failures of Ed25519 and SHA-256 as such.
- The model's name, taken as a text that a header carries unchanged: a call with the
  model null is signed over null and comes back in the header as the text "None", so
  that the receipt does not verify.
- In the client: which of its exceptions a failed call ends in, and the accessors
  of the response.
- In the server: the log endpoints, stubs with constant answers, and the 404 of
  unknown routes; neither changes state or issues receipts.
- Exact counting by tiktoken, an external library, and the choice of its encoding.
- `ProtocolVersion.is_compatible_with`, `is_removed`, the latency targets and retry
  semantics of the classes, the mapping of frames to HTTP headers: pure, and used by
  nothing in the package.
- `errors.py`: tables of codes. The package surface and the examples.

## Extending the model

What would come next: the Merkle log behind the server's log endpoints once they are
more than stubs; the handshake and the frames in front of the exchange once the
package connects them; a check of replays by `request_id` and nonce in the validator,
which turns the run validator_replay into a passing one.
