------------------------- MODULE KeyDirectoryProofs -------------------------
(***************************************************************************)
(* Keys by name for every set of keys and kids and any number of receipts. *)
(* The argument rests on published entries being determined by their kid   *)
(* and by their key (Unique), which is what OneKid takes away, and on a    *)
(* seal naming its key.                                                    *)
(***************************************************************************)
EXTENDS KeyDirectory, OrderLemmas, SequenceTheorems, TLAPS

LEMMA LargerAlphabet ==
    ASSUME NEW S, NEW T, S \subseteq T, NEW s \in Seq(S)
    PROVE  s \in Seq(T)
OBVIOUS

LEMMA RemoveAtType ==
    ASSUME NEW S, NEW s \in Seq(S), NEW i \in DOMAIN s
    PROVE  RemoveAt(s, i) \in Seq(S)
<1>1. i \in 1 .. Len(s) /\ Len(s) \in Nat
  OBVIOUS
<1>2. SubSeq(s, 1, i - 1) \in Seq(S) /\ SubSeq(s, i + 1, Len(s)) \in Seq(S)
  BY <1>1
<1> QED BY <1>2 DEF RemoveAt

\* What a lookup finds is an element of the list with the name looked for.
LEMMA LookupFinds ==
    ASSUME NEW P \in SUBSET Entry, NEW list \in Seq(P \union {Note}), NEW kid,
           Lookup(list, kid) # Note
    PROVE  Lookup(list, kid) \in P /\ Lookup(list, kid).kid = kid
<1> DEFINE first == CHOOSE i \in Matches(list, kid) : \A j \in Matches(list, kid) : i <= j
<1>1. Matches(list, kid) # {} /\ Lookup(list, kid) = list[first]
  BY DEF Lookup
<1>2. \A i \in Matches(list, kid) : list[i] \in P /\ list[i].kid = kid
  BY DEF Matches
<1>3. Matches(list, kid) \in SUBSET (1 .. Len(list)) /\ Len(list) \in Nat
  BY DEF Matches
<1>4. first \in Matches(list, kid)
  BY <1>1, <1>3, FirstExists
<1> QED BY <1>1, <1>2, <1>4

-----------------------------------------------------------------------------

\* The signature of an entry's key on a receipt.
Signed(e) ==
    [body |-> Body0, hasKey |-> TRUE, signature |-> Seal(e.key, FullCanonical(Body0))]

\* A seal verifies under the key it names and under no other.
LEMMA GenuineNamesKey ==
    ASSUME NEW e \in Entry, NEW key
    PROVE  Genuine(key, Signed(e)) <=> key = e.key
<1> DEFINE s == Signed(e).signature
<1>1. s = Seal(e.key, FullCanonical(Body0)) /\ Signed(e).hasKey /\ Signed(e).body = Body0
  BY DEF Signed
<1>2. s # Unsigned
  <2>1. s.kind = "seal" /\ Unsigned.kind = "none"
    BY <1>1 DEF Seal, Unsigned
  <2> QED BY <2>1
<1>3. e.key \in Keys
  BY DEF Entry
<1>4. FullCanonical(Body0) \in Canonicals(Body0)
  BY DEF Canonicals
<1>5. \A m : s = Seal(key, m) => key = e.key
  BY <1>1 DEF Seal
<1> QED BY <1>1, <1>2, <1>3, <1>4, <1>5 DEF Genuine, Consults

\* Kids are unique and keys are; receipts in flight are what they claim to be.
Unique ==
    \A p, q \in published : p.kid = q.kid \/ p.key = q.key => p = q

Inv ==
    /\ TypeOK
    /\ PinnedAsAnnounced
    /\ \A f \in inFlight : f.receipt = Signed(f.signer)

LEMMA InvInit == Init => Inv
<1> SUFFICES ASSUME Init PROVE Inv
  OBVIOUS
<1>1. entries \in Seq(published \union {Note}) /\ document \in Seq(published \union {Note})
  <2>1. published = {active}
    BY DEF Init
  <2>2. <<active>> \in Seq(published \union {Note}) /\ <<>> \in Seq(published \union {Note})
    BY <2>1
  <2>3. <<Note, active>> \in Seq(published \union {Note})
    BY <2>1
  <2> QED BY <2>2, <2>3 DEF Init
<1> QED BY <1>1, NoKeyAssumption, KidsAssumption DEF Init, Inv, TypeOK, PinnedAsAnnounced

LEMMA InvStep == Inv /\ [Next]_vars => Inv'
<1> SUFFICES ASSUME Inv, [Next]_vars PROVE Inv'
  OBVIOUS
<1> USE NoKeyAssumption, KidsAssumption DEF Inv, TypeOK, PinnedAsAnnounced
<1>1. ASSUME NEW e \in Entry, Publish(e) PROVE Inv'
  <2>1. published' = published \union {e}
    BY <1>1 DEF Publish
  <2>2. /\ entries \in Seq(published' \union {Note})
        /\ document \in Seq(published' \union {Note})
        /\ <<e>> \in Seq(published' \union {Note})
    BY <2>1, LargerAlphabet
  <2>3. /\ Append(entries, e) \in Seq(published' \union {Note})
        /\ <<e>> \o entries \in Seq(published' \union {Note})
    BY <2>1, <2>2
  <2>4. entries' \in Seq(published' \union {Note}) /\ document' \in Seq(published' \union {Note})
    BY <1>1, <2>2, <2>3 DEF Publish, clientVars
  <2> QED BY <1>1, <2>1, <2>4 DEF Publish, clientVars, receiptVars
<1>2. ASSUME NEW e \in Entry, Activate(e) PROVE Inv'
  <2>1. e \in published
    BY <1>2 DEF Activate, Range
  <2> QED BY <1>2, <2>1 DEF Activate, clientVars, receiptVars
<1>3. ASSUME NEW e \in Entry, Restart(e) PROVE Inv'
  <2>1. published' = published \union {e}
    BY <1>3 DEF Restart
  <2>2. document \in Seq(published' \union {Note}) /\ <<e>> \in Seq(published' \union {Note})
    BY <2>1, LargerAlphabet
  <2> QED BY <1>3, <2>1, <2>2 DEF Restart, clientVars, receiptVars
<1>4. ASSUME NEW i \in DOMAIN entries, RemoveEntry(i) PROVE Inv'
  <2>1. RemoveAt(entries, i) \in Seq(published \union {Note})
    BY RemoveAtType
  <2> QED BY <1>4, <2>1 DEF RemoveEntry, clientVars, receiptVars
<1>5. CASE Sign
  <2>1. inFlight' = inFlight \union {[signer |-> active, receipt |-> Signed(active)]}
    BY <1>5 DEF Sign, Signed
  <2> QED BY <1>5, <2>1 DEF Sign, providerVars, clientVars
<1>6. CASE Fetch
  BY <1>6 DEF Fetch, providerVars, receiptVars
<1>7. CASE Greet
  BY <1>7 DEF Greet, providerVars, receiptVars
<1>8. CASE Pin
  <2> DEFINE found == Lookup(document, session)
  <2>1. found \in published /\ found.kid = session
    BY <1>8, LookupFinds DEF Pin
  <2>2. found.key \in Keys /\ session \in Kids
    BY <2>1 DEF Entry
  <2> QED BY <1>8, <2>1, <2>2 DEF Pin, providerVars, receiptVars
<1>9. ASSUME NEW f \in inFlight, Verify(f) PROVE Inv'
  <2>1. Genuine(verifyKey, f.receipt) \in BOOLEAN
    BY DEF Genuine
  <2> QED BY <1>9, <2>1 DEF Verify, providerVars, clientVars
<1>10. CASE UNCHANGED vars
  BY <1>10 DEF vars, providerVars, clientVars, receiptVars
<1> QED BY <1>1, <1>2, <1>3, <1>4, <1>5, <1>6, <1>7, <1>8, <1>9, <1>10 DEF Next

\* The directory's variables keep their types, for any keys, kids and notes.
THEOREM TypeCorrect == Spec => []TypeOK
<1>1. Inv => TypeOK
  BY DEF Inv
<1> QED BY <1>1, InvInit, InvStep, PTL DEF Spec

\* The configured key is the one published under the kid that was announced.
THEOREM PinnedCorrect == Spec => []PinnedAsAnnounced
<1>1. Inv => PinnedAsAnnounced
  BY DEF Inv
<1> QED BY <1>1, InvInit, InvStep, PTL DEF Spec

\* With unique kids a receipt is accepted exactly if its key is the pinned one's.
THEOREM VerdictsCorrect == ~OneKid /\ Spec => []VerdictsFollowKids
<1> SUFFICES ASSUME ~OneKid PROVE Spec => []VerdictsFollowKids
  OBVIOUS
<1> DEFINE J == Inv /\ Unique /\ VerdictsFollowKids
<1>1. Init => J
  BY InvInit DEF Init, Unique, VerdictsFollowKids
<1>2. J /\ [Next]_vars => J'
  <2> SUFFICES ASSUME J, [Next]_vars PROVE Unique' /\ VerdictsFollowKids'
    BY InvStep
  <2>1. Unique'
    <3>1. \/ published' = published
          \/ \E e \in Entry : Fresh(e) /\ published' = published \union {e}
      BY DEF Next, Publish, Activate, Restart, RemoveEntry, Sign, Fetch, Greet, Pin, Verify,
             vars, providerVars
    <3> QED BY <3>1 DEF Unique, Fresh
  <2>2. ASSUME NEW f \in inFlight, Verify(f) PROVE VerdictsFollowKids'
    <3>1. f.signer \in published /\ f.signer \in Entry /\ f.receipt = Signed(f.signer)
      BY DEF Inv, TypeOK
    <3>2. Genuine(verifyKey, f.receipt) <=> verifyKey = f.signer.key
      BY <3>1, GenuineNamesKey
    <3>3. verifyKey = f.signer.key <=> f.signer.kid = pinned
      BY <3>1, NoKeyAssumption, KidsAssumption
         DEF Inv, TypeOK, PinnedAsAnnounced, Unique, Entry
    <3> QED BY <2>2, <3>2, <3>3 DEF Verify, VerdictsFollowKids
  <2>3. ASSUME verdicts' = verdicts PROVE VerdictsFollowKids'
    BY <2>3 DEF VerdictsFollowKids
  <2>4. verdicts' = verdicts \/ \E f \in inFlight : Verify(f)
    BY DEF Next, Publish, Activate, Restart, RemoveEntry, Sign, Fetch, Greet, Pin,
           vars, receiptVars
  <2> QED BY <2>1, <2>2, <2>3, <2>4
<1>3. J => VerdictsFollowKids
  OBVIOUS
<1> QED BY <1>1, <1>2, <1>3, PTL DEF Spec

=============================================================================
