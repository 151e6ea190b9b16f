----------------------- MODULE ReceiptValidatorProofs -----------------------
(***************************************************************************)
(* What holds of the validator for every set of keys, bodies and recounts, *)
(* every threshold below 100 and every number of calls.                    *)
(***************************************************************************)
EXTENDS ReceiptValidator, SequenceTheorems, TLAPS

\* Removing the optional fields leaves the mandatory ones as they were.
LEMMA LegacyKeepsMandatory ==
    ASSUME NEW b \in Body
    PROVE  /\ LegacyCanonical(b).form = "legacy"
           /\ Mandatory(LegacyCanonical(b).body) = Mandatory(b)
           /\ LegacyCanonical(b).body \in Body
BY NoDetailAssumption DEF LegacyCanonical, Mandatory, Body

\* A result is an audit entry with one of the three statuses: no verdict is
\* left at the constructor's "unknown".
LEMMA ResultIsEntry ==
    ASSUME NEW receipt, receipt.body \in Body,
           NEW local \in [input : Nat, output : Nat], NEW key
    PROVE  Result(key, receipt, local) \in Entry
<1>1. Genuine(key, receipt) \in BOOLEAN
  BY DEF Genuine, Consults
<1>2. WithinThreshold(receipt.body, local) \in BOOLEAN
  BY DEF WithinThreshold, Exceeds
<1>3. \A g, w : Status(receipt, g, w) \in Statuses
  BY DEF Status, Statuses
<1> QED BY <1>1, <1>2, <1>3 DEF Result, Entry, Body

\* Every action keeps the types.
LEMMA TypeStep == TypeOK /\ [Next]_vars => TypeOK'
<1> SUFFICES ASSUME TypeOK, [Next]_vars PROVE TypeOK'
  OBVIOUS
<1> USE DEF TypeOK
<1>1. ASSUME NEW key \in Keys, NEW body \in Bodies, ProviderSigns(key, body)
      PROVE  TypeOK'
  <2>1. \A m \in Canonicals(body) : Seal(key, m) \in AnySeal
    BY DEF AnySeal, Messages
  <2> QED BY <1>1, <2>1 DEF ProviderSigns
<1>2. ASSUME NEW key \in Keys, SetPublicKey(key)
      PROVE  TypeOK'
  BY <1>2 DEF SetPublicKey
<1>3. ASSUME NEW receipt \in Receipt, NEW local \in Recounts, Verify(receipt, local)
      PROVE  TypeOK'
  <2>1. CASE Raises(verifyKey, receipt)
    BY <1>3, <2>1 DEF Verify
  <2>2. CASE ~Raises(verifyKey, receipt)
    <3> DEFINE entry == Result(verifyKey, receipt, local)
               seen == [receipt |-> receipt, key |-> verifyKey]
    <3>1. receipt.body \in Body /\ local \in [input : Nat, output : Nat]
      BY BodiesAssumption, RecountsAssumption DEF Receipt
    <3>2. entry \in Entry
      BY <3>1, ResultIsEntry
    <3>3. seen \in Witness
      BY DEF Witness, Receipt
    <3>4. /\ auditLog' = Append(auditLog, entry)
          /\ witness' = Append(witness, seen)
          /\ tally' = Tallied(entry)
          /\ presented' = presented + 1
          /\ UNCHANGED <<verifyKey, seals>>
      BY <1>3, <2>2 DEF Verify
    <3>5. Tallied(entry) \in Tally
      <4> HIDE DEF entry
      <4> QED BY <3>2 DEF Tallied, Tally, Entry
    <3> HIDE DEF entry, seen
    <3> QED BY <3>2, <3>3, <3>4, <3>5
  <2> QED BY <2>1, <2>2
<1>4. CASE UNCHANGED vars
  BY <1>4 DEF vars
<1> QED BY <1>1, <1>2, <1>3, <1>4 DEF Next

\* The validator's type invariant, for every value of the constants.
THEOREM TypeCorrect == Spec => []TypeOK
<1>1. Init => TypeOK
  BY DEF Init, TypeOK, Tally
<1> QED BY <1>1, TypeStep, PTL DEF Spec

-----------------------------------------------------------------------------
(* Genuine entries. *)

\* One of the two candidates verifying means that a seal backs the entry.
LEMMA GenuineIsBacked ==
    ASSUME NEW S, NEW key, NEW receipt, receipt.body \in Body, NEW local,
           receipt.signature \in S \union {Unsigned, Undecodable},
           Genuine(key, receipt)
    PROVE  \E s \in S : Backs(s, Result(key, receipt, local),
                              [receipt |-> receipt, key |-> key])
<1> DEFINE b == receipt.body
           s == receipt.signature
<1>1. PICK m \in Canonicals(b) : s = Seal(key, m)
  BY DEF Genuine
<1>2. s.kind = "seal" /\ s.key = key /\ s.message = m
  BY <1>1 DEF Seal
<1>3. s \in S
  BY <1>2 DEF Unsigned, Undecodable
<1>4. /\ Mandatory(m.body) = Mandatory(b)
      /\ m.form = "full" => m.body = b
  BY LegacyKeepsMandatory DEF Canonicals, FullCanonical
<1>5. m.body.id = b.id /\ m.body.input = b.input /\ m.body.output = b.output
  BY <1>4 DEF Mandatory
<1>6. Backs(s, Result(key, receipt, local), [receipt |-> receipt, key |-> key])
  BY <1>2, <1>4, <1>5 DEF Backs, Result
<1> QED BY <1>3, <1>6

\* Entries already logged keep their seal, and the new one has its own.
LEMMA GenuineStep ==
    TypeOK /\ GenuineIsSigned /\ [Next]_vars => GenuineIsSigned'
<1> SUFFICES ASSUME TypeOK, GenuineIsSigned, [Next]_vars PROVE GenuineIsSigned'
  OBVIOUS
<1>1. ASSUME NEW key \in Keys, NEW body \in Bodies, ProviderSigns(key, body)
      PROVE  GenuineIsSigned'
  <2>1. seals \subseteq seals' /\ UNCHANGED <<auditLog, witness>>
    BY <1>1 DEF ProviderSigns
  <2> QED BY <2>1 DEF GenuineIsSigned
<1>2. ASSUME NEW key \in Keys, SetPublicKey(key)
      PROVE  GenuineIsSigned'
  BY <1>2 DEF SetPublicKey, GenuineIsSigned
<1>3. ASSUME NEW receipt \in Receipt, NEW local \in Recounts, Verify(receipt, local)
      PROVE  GenuineIsSigned'
  <2>1. CASE Raises(verifyKey, receipt)
    BY <1>3, <2>1 DEF Verify, GenuineIsSigned
  <2>2. CASE ~Raises(verifyKey, receipt)
    <3> DEFINE entry == Result(verifyKey, receipt, local)
               seen == [receipt |-> receipt, key |-> verifyKey]
               n == Len(auditLog)
    <3>1. /\ auditLog' = Append(auditLog, entry)
          /\ witness' = Append(witness, seen)
          /\ seals' = seals
      BY <1>3, <2>2 DEF Verify
    <3>2. receipt.body \in Body /\ receipt.signature \in seals \union {Unsigned, Undecodable}
      BY BodiesAssumption DEF Receipt
    <3>3. entry.genuine => \E s \in seals : Backs(s, entry, seen)
      BY <3>2, GenuineIsBacked DEF Result
    <3>4. auditLog \in Seq(Entry) /\ witness \in Seq(Witness) /\ Len(witness) = n
      BY DEF TypeOK
    <3> HIDE DEF entry, seen
    <3>5. /\ DOMAIN auditLog' = 1 .. n + 1
          /\ auditLog'[n + 1] = entry /\ witness'[n + 1] = seen
          /\ \A i \in 1 .. n : auditLog'[i] = auditLog[i] /\ witness'[i] = witness[i]
      BY <3>1, <3>4
    <3>6. ASSUME NEW i \in 1 .. n + 1, auditLog'[i].genuine
          PROVE  \E s \in seals' : Backs(s, auditLog'[i], witness'[i])
      <4>1. CASE i = n + 1
        BY <3>1, <3>3, <3>5, <3>6, <4>1
      <4>2. CASE i \in 1 .. n
        <5>1. i \in DOMAIN auditLog /\ auditLog[i].genuine
          BY <3>4, <3>5, <3>6, <4>2
        <5> QED BY <3>1, <3>5, <4>2, <5>1 DEF GenuineIsSigned
      <4> QED BY <4>1, <4>2, <3>4
    <3> QED BY <3>5, <3>6 DEF GenuineIsSigned
  <2> QED BY <2>1, <2>2
<1>4. CASE UNCHANGED vars
  BY <1>4 DEF vars, GenuineIsSigned
<1> QED BY <1>1, <1>2, <1>3, <1>4 DEF Next

\* A receipt logged as genuine was signed, in the fields its form covers, with
\* the key it was checked against.
THEOREM GenuineCorrect == Spec => []GenuineIsSigned
<1>1. Init => GenuineIsSigned
  BY DEF Init, GenuineIsSigned
<1> QED BY <1>1, TypeCorrect, GenuineStep, PTL DEF Spec

-----------------------------------------------------------------------------
(* The bound on what accepted receipts overcharge. *)

\* One count within the threshold of the client's own.
LEMMA WithinBounds ==
    ASSUME NEW server \in Nat, NEW local \in Nat, ~Exceeds(server, local)
    PROVE  (100 - Threshold) * server <= 100 * local
<1>1. Threshold \in 0 .. 99 /\ Threshold * server \in Int
  BY ThresholdAssumption
<1>2. (100 - Threshold) * server = 100 * server - Threshold * server
  BY <1>1
<1>3. CASE server = 0
  <2>1. Threshold * server = 0
    BY <1>1, <1>3
  <2> QED BY <1>2, <1>3, <2>1
<1>4. CASE server > 0
  <2>1. ~(100 * Abs(server - local) > Threshold * server)
    BY <1>4 DEF Exceeds
  <2>2. server - local <= Abs(server - local) /\ Abs(server - local) \in Nat
    BY DEF Abs
  <2>3. 100 * (server - local) <= Threshold * server
    BY <1>1, <2>1, <2>2
  <2> QED BY <1>1, <1>2, <2>3
<1> QED BY <1>3, <1>4

\* Scaling a sum.
LEMMA ScaledSum ==
    ASSUME NEW c \in Int, NEW x \in Nat, NEW y \in Nat, NEW z \in Nat
    PROVE  c * (x + y + z) = c * x + c * y + c * z
OBVIOUS

\* Only verify adds to the tally, and each receipt it accepts is in bounds.
LEMMA OverchargeStep ==
    TypeOK /\ OverchargeBounded /\ [Next]_vars => OverchargeBounded'
<1> SUFFICES ASSUME TypeOK, OverchargeBounded, [Next]_vars PROVE OverchargeBounded'
  OBVIOUS
<1>1. ASSUME NEW receipt \in Receipt, NEW local \in Recounts, Verify(receipt, local)
      PROVE  OverchargeBounded'
  <2>1. CASE Raises(verifyKey, receipt)
    BY <1>1, <2>1 DEF Verify, OverchargeBounded
  <2>2. CASE ~Raises(verifyKey, receipt)
    <3> DEFINE entry == Result(verifyKey, receipt, local)
               b == receipt.body
    <3>1. b \in Body /\ local \in [input : Nat, output : Nat]
      BY BodiesAssumption, RecountsAssumption DEF Receipt
    <3>2. /\ entry.input = b.input /\ entry.output = b.output /\ entry.local = local
          /\ entry.status = "valid" => WithinThreshold(b, local)
      BY DEF Result, Status
    <3>3. tally' = Tallied(entry)
      BY <1>1, <2>2 DEF Verify
    <3>4. tally \in Tally
      BY DEF TypeOK
    <3> HIDE DEF entry
    <3>5. CASE entry.status # "valid"
      BY <3>3, <3>5 DEF Tallied, OverchargeBounded
    <3>6. CASE entry.status = "valid"
      <4>1. /\ tally'.billed = tally.billed + b.input + b.output
            /\ tally'.recounted = tally.recounted + local.input + local.output
        BY <3>2, <3>3, <3>6 DEF Tallied
      <4>2. /\ b.input \in Nat /\ b.output \in Nat
            /\ local.input \in Nat /\ local.output \in Nat
            /\ tally.billed \in Nat /\ tally.recounted \in Nat
            /\ 100 - Threshold \in Int
        BY <3>1, <3>4, ThresholdAssumption DEF Body, Tally
      <4>3. (100 - Threshold) * b.input <= 100 * local.input
        BY <3>2, <3>6, <4>2, WithinBounds DEF WithinThreshold
      <4>4. (100 - Threshold) * b.output <= 100 * local.output
        BY <3>2, <3>6, <4>2, WithinBounds DEF WithinThreshold
      <4>5. (100 - Threshold) * tally.billed <= 100 * tally.recounted
        BY DEF OverchargeBounded
      <4>6. (100 - Threshold) * tally'.billed
              = (100 - Threshold) * tally.billed + (100 - Threshold) * b.input
                  + (100 - Threshold) * b.output
        BY <4>1, <4>2, ScaledSum
      <4>7. 100 * tally'.recounted
              = 100 * tally.recounted + 100 * local.input + 100 * local.output
        BY <4>1, <4>2
      <4>8. /\ (100 - Threshold) * tally.billed \in Int
            /\ (100 - Threshold) * b.input \in Int
            /\ (100 - Threshold) * b.output \in Int
        BY <4>2
      <4> QED BY <4>2, <4>3, <4>4, <4>5, <4>6, <4>7, <4>8 DEF OverchargeBounded
    <3> QED BY <3>5, <3>6
  <2> QED BY <2>1, <2>2
<1>2. CASE UNCHANGED tally
  BY <1>2 DEF OverchargeBounded
<1> QED BY <1>1, <1>2 DEF Next, ProviderSigns, SetPublicKey, vars

\* Over any history the tokens billed by accepted receipts exceed the client's
\* own count by at most the factor the threshold allows.
THEOREM OverchargeCorrect == Spec => []OverchargeBounded
<1>1. Init => OverchargeBounded
  BY ThresholdAssumption DEF Init, OverchargeBounded
<1> QED BY <1>1, TypeCorrect, OverchargeStep, PTL DEF Spec

=============================================================================
