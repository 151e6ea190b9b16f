-------------------------- MODULE FrameStreamProofs -------------------------
(***************************************************************************)
(* Whatever is sent and wherever it is cut, the receiver of FrameStream    *)
(* decodes the frames that were sent.                                      *)
(***************************************************************************)
EXTENDS FrameStream, SequenceTheorems, TLAPS

-----------------------------------------------------------------------------
(* The prefix. *)

\* Quotient and remainder give the number back.
LEMMA DivMod ==
    ASSUME NEW n \in Nat
    PROVE  /\ n \div Base \in Nat /\ n % Base \in Byte
           /\ n = (n \div Base) * Base + (n % Base)
BY BaseAssumption, Z3 DEF Byte

\* A number that fits is a sequence of four bytes, which declares that number.
LEMMA PrefixDeclares ==
    ASSUME NEW n \in Nat, Fits(n)
    PROVE  /\ Prefix(n) \in Seq(Byte) /\ Len(Prefix(n)) = 4
           /\ Declared(Prefix(n)) = n
<1> DEFINE q1 == n \div Base
           q2 == q1 \div Base
           q3 == q2 \div Base
<1>1. q1 \in Nat /\ n % Base \in Byte /\ n = q1 * Base + (n % Base)
  BY DivMod
<1>2. q2 \in Nat /\ q1 % Base \in Byte /\ q1 = q2 * Base + (q1 % Base)
  BY <1>1, DivMod
<1>3. q3 \in Nat /\ q2 % Base \in Byte /\ q2 = q3 * Base + (q2 % Base)
  BY <1>2, DivMod
<1>4. q3 \in Byte
  BY <1>3, BaseAssumption DEF Fits, Byte
<1>5. Prefix(n) = <<q3, q2 % Base, q1 % Base, n % Base>>
  BY DEF Prefix
<1> HIDE DEF q1, q2, q3
<1>6. Prefix(n) \in Seq(Byte) /\ Len(Prefix(n)) = 4
  BY <1>1, <1>2, <1>3, <1>4, <1>5
<1>7. Declared(Prefix(n)) = ((q3 * Base + (q2 % Base)) * Base + (q1 % Base)) * Base + (n % Base)
  BY <1>5 DEF Declared
<1> QED
  BY <1>1, <1>2, <1>3, <1>6, <1>7

\* What a concatenation contains.
LEMMA Joined ==
    ASSUME NEW S, NEW s \in Seq(S), NEW t \in Seq(S)
    PROVE  /\ s \o t \in Seq(S) /\ Len(s \o t) = Len(s) + Len(t)
           /\ Len(s) \in Nat /\ Len(t) \in Nat
           /\ \A k \in 1 .. Len(s) : (s \o t)[k] = s[k]
           /\ \A k \in 1 .. Len(t) : (s \o t)[Len(s) + k] = t[k]
<1>1. /\ s \o t \in Seq(S) /\ Len(s \o t) = Len(s) + Len(t)
      /\ \A i \in 1 .. Len(s) + Len(t) :
            (s \o t)[i] = IF i <= Len(s) THEN s[i] ELSE t[i - Len(s)]
  BY ConcatProperties
<1>2. Len(s) \in Nat /\ Len(t) \in Nat
  BY LenProperties
<1>3. ASSUME NEW k \in 1 .. Len(s) PROVE (s \o t)[k] = s[k]
  BY <1>1, <1>2
<1>4. ASSUME NEW k \in 1 .. Len(t) PROVE (s \o t)[Len(s) + k] = t[k]
  <2>1. /\ Len(s) + k \in 1 .. Len(s) + Len(t) /\ ~(Len(s) + k <= Len(s))
        /\ (Len(s) + k) - Len(s) = k
    BY <1>2
  <2> QED
    BY <1>1, <2>1
<1> QED
  BY <1>1, <1>2, <1>3, <1>4

\* An encoded body is its prefix, then its bytes.
LEMMA EncodeParts ==
    ASSUME NEW body \in Bodies, Fits(Len(body))
    PROVE  /\ body \in Seq(Byte) /\ Len(body) \in Nat
           /\ Encode(body) \in Seq(Byte) /\ Len(Encode(body)) = 4 + Len(body)
           /\ \A k \in 1 .. 4 : Encode(body)[k] = Prefix(Len(body))[k]
           /\ \A k \in 1 .. Len(body) : Encode(body)[4 + k] = body[k]
<1>1. body \in Seq(Byte) /\ Len(body) \in Nat
  BY BodiesAssumption
<1>2. Prefix(Len(body)) \in Seq(Byte) /\ Len(Prefix(Len(body))) = 4
  BY <1>1, PrefixDeclares
<1>3. Encode(body) = Prefix(Len(body)) \o body
  BY DEF Encode
<1> HIDE DEF Encode, Prefix
<1> DEFINE prefix == Prefix(Len(body))
           whole == prefix \o body
<1>4. /\ whole \in Seq(Byte) /\ Len(whole) = Len(prefix) + Len(body)
      /\ \A k \in 1 .. Len(prefix) : whole[k] = prefix[k]
      /\ \A k \in 1 .. Len(body) : whole[Len(prefix) + k] = body[k]
  <2>1. prefix \in Seq(Byte) /\ body \in Seq(Byte)
    BY <1>1, <1>2
  <2> HIDE DEF prefix
  <2> QED
    BY <2>1, Joined
<1> HIDE DEF whole
<1>5. /\ whole \in Seq(Byte) /\ Len(whole) = 4 + Len(body)
      /\ \A k \in 1 .. 4 : whole[k] = prefix[k]
      /\ \A k \in 1 .. Len(body) : whole[4 + k] = body[k]
  BY <1>2, <1>4
<1> QED
  BY <1>1, <1>3, <1>5 DEF whole

-----------------------------------------------------------------------------
(* The inductive invariant. *)

\* The i-th frame has its place in the stream.
Placed(i) ==
    /\ Fits(Len(sent[i]))
    /\ starts[i + 1] = starts[i] + Len(Encode(sent[i]))
    /\ starts[i + 1] <= Len(stream)
    /\ \A k \in 1 .. Len(Encode(sent[i])) :
        stream[starts[i] + k] = Encode(sent[i])[k]

\* The stream is the encoded bodies, one behind the other.
Segments ==
    /\ starts[1] = 0 /\ starts[Len(starts)] = Len(stream)
    /\ \A i \in 1 .. Len(sent) : Placed(i)

\* The buffer is what has arrived of the stream, from the frame on that is due.
Aligned ==
    /\ Len(received) <= Len(sent)
    /\ Len(buffer) = arrived - starts[Len(received) + 1]
    /\ \A k \in 1 .. Len(buffer) : buffer[k] = stream[starts[Len(received) + 1] + k]

\* The next frame to decode.
Due == Len(received) + 1

Inv == TypeOK /\ Segments /\ Aligned /\ DecodedInOrder

LEMMA ParsedType == ASSUME NEW body PROVE Parsed(body) \in Results
BY DEF Parsed, Results, Exceptions

\* When the buffer holds a complete frame, it starts with the one that is due.
LEMMA DueFrame ==
    ASSUME Inv, Complete(buffer)
    PROVE  /\ Due \in 1 .. Len(sent)
           /\ sent[Due] \in Bodies /\ Len(sent[Due]) \in Nat
           /\ Declared(buffer) = Len(sent[Due])
           /\ FrameBody(buffer) = sent[Due]
           /\ 4 + Len(sent[Due]) <= Len(buffer)
           /\ starts[Due + 1] = starts[Due] + 4 + Len(sent[Due])
<1>1. /\ stream \in Seq(Byte) /\ buffer \in Seq(Byte) /\ starts \in Seq(Nat)
      /\ sent \in Seq(Bodies) /\ Len(received) \in Nat /\ Len(buffer) \in Nat
      /\ arrived \in 0 .. Len(stream) /\ Len(starts) = Len(sent) + 1
      /\ Len(stream) \in Nat /\ Len(sent) \in Nat
  BY DEF Inv, TypeOK
<1>2. Len(buffer) >= 4
  BY <1>1 DEF Complete, PrefixSize
<1>3. Due \in 1 .. Len(sent)
  BY <1>1, <1>2 DEF Inv, Segments, Aligned, Due
<1> DEFINE body == sent[Due]
           at == starts[Due]
<1>4. body \in Bodies /\ Fits(Len(body))
  BY <1>1, <1>3 DEF Inv, Segments, Placed
<1>5. /\ starts[Due + 1] = at + Len(Encode(body))
      /\ \A k \in 1 .. Len(Encode(body)) : stream[at + k] = Encode(body)[k]
  BY <1>3 DEF Inv, Segments, Placed
<1>6. /\ body \in Seq(Byte) /\ Len(body) \in Nat
      /\ Len(Encode(body)) = 4 + Len(body)
      /\ \A k \in 1 .. 4 : Encode(body)[k] = Prefix(Len(body))[k]
      /\ \A k \in 1 .. Len(body) : Encode(body)[4 + k] = body[k]
  BY <1>4, EncodeParts
<1>7. \A k \in 1 .. Len(buffer) : buffer[k] = stream[at + k]
  BY DEF Inv, Aligned, Due
<1> HIDE DEF body, at
<1>8. ASSUME NEW k \in 1 .. Len(buffer), k <= 4 + Len(body)
      PROVE  buffer[k] = Encode(body)[k]
  <2>1. k \in 1 .. Len(Encode(body))
    BY <1>1, <1>6, <1>8
  <2> QED
    BY <1>5, <1>7, <2>1
<1>9. Declared(buffer) = Len(body)
  <2>1. ASSUME NEW k \in 1 .. 4 PROVE buffer[k] = Prefix(Len(body))[k]
    <3>1. k \in 1 .. Len(buffer) /\ k <= 4 + Len(body)
      BY <1>1, <1>2, <1>6
    <3> QED
      BY <1>6, <1>8, <3>1
  <2>2. Declared(buffer) = Declared(Prefix(Len(body)))
    <3>1. 1 \in 1 .. 4 /\ 2 \in 1 .. 4 /\ 3 \in 1 .. 4 /\ 4 \in 1 .. 4
      OBVIOUS
    <3>2. /\ buffer[1] = Prefix(Len(body))[1] /\ buffer[2] = Prefix(Len(body))[2]
          /\ buffer[3] = Prefix(Len(body))[3] /\ buffer[4] = Prefix(Len(body))[4]
      BY <2>1, <3>1
    <3> QED
      BY <3>2 DEF Declared
  <2> QED
    BY <1>4, <1>6, <2>2, PrefixDeclares
<1>10. 4 + Len(body) <= Len(buffer)
  BY <1>9, <1>1, <1>6 DEF Complete, PrefixSize
<1>11. FrameBody(buffer) = body
  <2>1. FrameBody(buffer) = SubSeq(buffer, 5, 4 + Len(body))
    BY <1>9 DEF FrameBody, PrefixSize
  <2>2. /\ SubSeq(buffer, 5, 4 + Len(body)) \in Seq(Byte)
        /\ Len(SubSeq(buffer, 5, 4 + Len(body))) = Len(body)
        /\ \A k \in 1 .. Len(body) : SubSeq(buffer, 5, 4 + Len(body))[k] = buffer[4 + k]
    BY <1>1, <1>6, <1>10
  <2>3. ASSUME NEW k \in 1 .. Len(body) PROVE buffer[4 + k] = body[k]
    <3>1. 4 + k \in 1 .. Len(buffer) /\ 4 + k <= 4 + Len(body)
      BY <1>1, <1>6, <1>10
    <3>2. buffer[4 + k] = Encode(body)[4 + k]
      BY <1>8, <3>1
    <3> QED
      BY <1>6, <3>2
  <2> QED
    BY <1>6, <2>1, <2>2, <2>3, SeqEqual
<1>12. starts[Due + 1] = at + 4 + Len(body)
  <2>1. Due \in Nat /\ at \in Nat
    BY <1>1, <1>3 DEF at
  <2> QED
    BY <1>5, <1>6, <2>1
<1> QED
  BY <1>3, <1>4, <1>6, <1>9, <1>10, <1>11, <1>12 DEF body, at

LEMMA InvInit == Init => Inv
BY DEF Init, Inv, TypeOK, Segments, Aligned, DecodedInOrder

\* The types and lengths the steps below use.
LEMMA Types ==
    ASSUME Inv
    PROVE  /\ stream \in Seq(Byte) /\ Len(stream) \in Nat
           /\ buffer \in Seq(Byte) /\ Len(buffer) \in Nat
           /\ sent \in Seq(Bodies) /\ Len(sent) \in Nat
           /\ starts \in Seq(Nat) /\ Len(starts) = Len(sent) + 1
           /\ received \in Seq(Results) /\ Len(received) \in 0 .. Len(sent)
           /\ arrived \in 0 .. Len(stream) /\ Len(buffer) <= arrived
           /\ breaks \in Nat
           /\ Due \in 1 .. Len(starts) /\ starts[Due] \in Nat
           /\ Len(buffer) = arrived - starts[Due]
           /\ \A k \in 1 .. Len(buffer) : buffer[k] = stream[starts[Due] + k]
BY DEF Inv, TypeOK, Aligned, Due

\* A position inside a segment that ends by the limit is within the limit.
LEMMA Within ==
    ASSUME NEW start \in Nat, NEW length \in Nat, NEW limit \in Nat,
           start + length <= limit, NEW k \in 1 .. length
    PROVE  start + k \in 1 .. limit
OBVIOUS

\* A frame keeps its place when more is written.
LEMMA InvSend ==
    ASSUME Inv, NEW body \in Bodies, Send(body)
    PROVE  Inv'
<1> DEFINE new == Encode(body)
           last == Len(sent) + 1
<1>1. /\ stream \in Seq(Byte) /\ Len(stream) \in Nat
      /\ sent \in Seq(Bodies) /\ Len(sent) \in Nat
      /\ starts \in Seq(Nat) /\ Len(starts) = last
  BY Types
<1>2. /\ Fits(Len(body)) /\ stream' = stream \o new
      /\ sent' = Append(sent, body)
      /\ starts' = Append(starts, Len(stream) + Len(new))
  BY DEF Send
<1>3. arrived' = arrived /\ buffer' = buffer /\ received' = received /\ breaks' = breaks
  BY DEF Send
<1>4. new \in Seq(Byte) /\ Len(new) \in Nat
  BY <1>2, EncodeParts
<1> HIDE DEF new
<1>5. /\ stream' \in Seq(Byte) /\ Len(stream') = Len(stream) + Len(new)
      /\ \A k \in 1 .. Len(stream) : stream'[k] = stream[k]
      /\ \A k \in 1 .. Len(new) : stream'[Len(stream) + k] = new[k]
  BY <1>1, <1>2, <1>4, Joined
<1>6. /\ sent' \in Seq(Bodies) /\ Len(sent') = last
      /\ \A i \in 1 .. Len(sent) : sent'[i] = sent[i]
      /\ sent'[last] = body
  BY <1>1, <1>2
<1>7. /\ starts' \in Seq(Nat) /\ Len(starts') = last + 1
      /\ \A i \in 1 .. last : starts'[i] = starts[i]
      /\ starts'[last + 1] = Len(stream')
  BY <1>1, <1>2, <1>4, <1>5
<1>8. starts[1] = 0 /\ starts[last] = Len(stream)
  BY <1>1 DEF Inv, Segments
<1>9. TypeOK'
  BY <1>1, <1>3, <1>4, <1>5, <1>6, <1>7, Types DEF TypeOK
<1>10. ASSUME NEW i \in 1 .. Len(sent) PROVE Placed(i)'
  <2> DEFINE frame == Encode(sent[i])
  <2>1. sent'[i] = sent[i] /\ sent[i] \in Bodies
    BY <1>1, <1>6
  <2>2. starts'[i] = starts[i] /\ starts'[i + 1] = starts[i + 1] /\ starts[i] \in Nat
    <3>1. i \in 1 .. last /\ i + 1 \in 1 .. last
      BY <1>1
    <3>2. \A j \in 1 .. last : starts'[j] = starts[j]
      BY <1>7
    <3>3. starts[i] \in Nat
      BY <1>1, <3>1
    <3> QED
      BY <3>1, <3>2, <3>3
  <2>3. /\ Fits(Len(sent[i])) /\ starts[i + 1] = starts[i] + Len(frame)
        /\ starts[i + 1] <= Len(stream)
        /\ \A k \in 1 .. Len(frame) : stream[starts[i] + k] = frame[k]
    BY DEF Inv, Segments, Placed
  <2>4. Len(frame) \in Nat
    BY <2>1, <2>3, EncodeParts
  <2>5. Fits(Len(sent'[i])) /\ Encode(sent'[i]) = frame
    BY <2>1, <2>3
  <2> HIDE DEF frame
  <2>6. ASSUME NEW k \in 1 .. Len(frame) PROVE stream'[starts'[i] + k] = frame[k]
    <3>1. starts[i] + k \in 1 .. Len(stream)
      BY <1>1, <2>2, <2>3, <2>4, Within
    <3> QED
      BY <1>5, <2>2, <2>3, <3>1
  <2>7. starts'[i + 1] <= Len(stream')
    BY <1>1, <1>4, <1>5, <2>2, <2>3, <2>4
  <2> QED
    BY <2>2, <2>3, <2>5, <2>6, <2>7 DEF Placed
<1>11. ASSUME NEW i, i = last PROVE Placed(i)'
  <2>1. last \in 1 .. last /\ Encode(body) = new
    BY <1>1 DEF new
  <2>2. starts'[last] = Len(stream) /\ starts'[last + 1] = Len(stream) + Len(new)
    BY <1>5, <1>7, <1>8, <2>1
  <2>3. starts'[last + 1] <= Len(stream')
    BY <1>1, <1>4, <1>5, <2>2
  <2>4. Fits(Len(sent'[last])) /\ Encode(sent'[last]) = new
    BY <1>2, <1>6, <2>1
  <2>5. \A k \in 1 .. Len(new) : stream'[starts'[last] + k] = new[k]
    BY <1>5, <2>2
  <2>6. starts'[last + 1] = starts'[last] + Len(Encode(sent'[last]))
    BY <2>2, <2>4
  <2> HIDE DEF last
  <2> QED
    BY <1>11, <2>3, <2>4, <2>5, <2>6 DEF Placed
<1>12. Segments'
  <2>1. starts'[1] = 0
    <3>1. 1 \in 1 .. last
      BY <1>1
    <3> QED
      BY <1>7, <1>8, <3>1
  <2>2. starts'[Len(starts')] = Len(stream')
    BY <1>7
  <2>3. ASSUME NEW i \in 1 .. Len(sent') PROVE Placed(i)'
    <3>1. i \in 1 .. Len(sent) \/ i = last
      BY <1>1, <1>6
    <3>2. CASE i \in 1 .. Len(sent)
      BY <1>10, <3>2
    <3>3. CASE i = last
      BY <1>11, <3>3
    <3> QED
      BY <3>1, <3>2, <3>3
  <2> QED
    BY <2>1, <2>2, <2>3 DEF Segments
<1>13. Aligned'
  <2>1. Due' = Due /\ Due \in 1 .. last
    BY <1>1, <1>3, Types DEF Due
  <2>2. starts'[Due] = starts[Due]
    BY <1>7, <2>1
  <2>3. ASSUME NEW k \in 1 .. Len(buffer)
        PROVE  buffer'[k] = stream'[starts[Due] + k]
    <3>1. starts[Due] + k \in 1 .. Len(stream)
      <4>1. /\ starts[Due] \in Nat /\ Len(buffer) \in Nat /\ arrived \in 0 .. Len(stream)
            /\ Len(buffer) = arrived - starts[Due] /\ Len(stream) \in Nat
        BY Types
      <4> HIDE DEF Due
      <4> QED
        BY <4>1
    <3>2. buffer[k] = stream[starts[Due] + k]
      BY Types
    <3> QED
      BY <1>3, <1>5, <3>1, <3>2
  <2>4. Len(received') <= Len(sent')
    BY <1>1, <1>3, <1>6, Types
  <2>5. Len(buffer') = arrived' - starts'[Due]
    BY <1>3, <2>2, Types
  <2> QED
    BY <1>3, <2>1, <2>2, <2>3, <2>4, <2>5 DEF Aligned, Due
<1>14. DecodedInOrder'
  BY <1>1, <1>3, <1>6 DEF Inv, DecodedInOrder
<1> QED
  BY <1>9, <1>12, <1>13, <1>14 DEF Inv

LEMMA InvArrive ==
    ASSUME Inv, NEW upto \in 1 .. Len(stream), Arrive(upto)
    PROVE  Inv'
<1> DEFINE new == SubSeq(stream, arrived + 1, upto)
           at == starts[Due]
<1>1. /\ arrived < upto /\ buffer' = buffer \o new /\ arrived' = upto
      /\ stream' = stream /\ received' = received /\ breaks' = breaks
      /\ sent' = sent /\ starts' = starts
  BY DEF Arrive
<1>2. /\ new \in Seq(Byte) /\ Len(new) = upto - arrived
      /\ \A k \in 1 .. Len(new) : new[k] = stream[arrived + k]
  <2>1. /\ stream \in Seq(Byte) /\ Len(stream) \in Nat
        /\ arrived \in 0 .. Len(stream) /\ arrived < upto
    BY <1>1, Types
  <2> QED
    BY <2>1
<1> HIDE DEF new
<1>3. /\ buffer \in Seq(Byte) /\ Len(buffer) \in Nat /\ at \in Nat
      /\ arrived \in Nat /\ upto \in Nat
      /\ Len(buffer) = arrived - at
      /\ \A k \in 1 .. Len(buffer) : buffer[k] = stream[at + k]
  BY Types
<1>4. /\ buffer' \in Seq(Byte) /\ Len(buffer') = Len(buffer) + Len(new)
      /\ \A k \in 1 .. Len(buffer) : buffer'[k] = buffer[k]
      /\ \A k \in 1 .. Len(new) : buffer'[Len(buffer) + k] = new[k]
  <2>1. buffer \in Seq(Byte) /\ new \in Seq(Byte) /\ buffer' = buffer \o new
    BY <1>1, <1>2, <1>3
  <2> QED
    BY <2>1, Joined
<1>5. TypeOK'
  <2>1. arrived' \in 0 .. Len(stream') /\ Len(buffer') <= arrived'
    <3>1. upto \in 0 .. Len(stream) /\ Len(buffer) <= arrived
      BY <1>3, Types
    <3> QED
      BY <1>1, <1>2, <1>3, <1>4, <3>1
  <2> QED
    BY <1>1, <1>4, <2>1, Types DEF TypeOK
<1>6. Segments' /\ DecodedInOrder'
  BY <1>1 DEF Inv, Segments, Placed, DecodedInOrder
<1> HIDE DEF at
<1>7. ASSUME NEW k \in 1 .. Len(buffer')
      PROVE  buffer'[k] = stream[at + k]
  <2>1. CASE k <= Len(buffer)
    BY <1>3, <1>4, <2>1
  <2>2. CASE k > Len(buffer)
    <3>1. k - Len(buffer) \in 1 .. Len(new)
      BY <1>2, <1>3, <1>4, <2>2
    <3>2. buffer'[Len(buffer) + (k - Len(buffer))] = new[k - Len(buffer)]
      BY <1>4, <3>1
    <3>3. new[k - Len(buffer)] = stream[arrived + (k - Len(buffer))]
      BY <1>2, <3>1
    <3>4. /\ Len(buffer) + (k - Len(buffer)) = k
          /\ arrived + (k - Len(buffer)) = at + k
      BY <1>3
    <3> QED
      BY <3>2, <3>3, <3>4
  <2> QED
    BY <1>3, <2>1, <2>2
<1>8. Aligned'
  <2>1. starts'[Len(received') + 1] = at
    BY <1>1 DEF at, Due
  <2>2. Len(buffer') = arrived' - at
    BY <1>1, <1>2, <1>3, <1>4
  <2>3. Len(received') <= Len(sent')
    BY <1>1, Types
  <2> QED
    BY <1>1, <1>7, <2>1, <2>2, <2>3 DEF Aligned
<1> QED
  BY <1>5, <1>6, <1>8 DEF Inv

LEMMA InvReceive ==
    ASSUME Inv, Receive
    PROVE  Inv'
<1> DEFINE body == sent[Due]
           size == 4 + Len(body)
           at == starts[Due]
<1>1. /\ Due \in 1 .. Len(sent) /\ body \in Bodies /\ Len(body) \in Nat
      /\ Declared(buffer) = Len(body) /\ FrameBody(buffer) = body
      /\ size <= Len(buffer) /\ starts[Due + 1] = at + 4 + Len(body)
  BY DueFrame DEF Receive
<1>2. /\ received' = Append(received, Parsed(body))
      /\ buffer' = SubSeq(buffer, size + 1, Len(buffer))
      /\ stream' = stream /\ arrived' = arrived /\ breaks' = breaks
      /\ sent' = sent /\ starts' = starts
  BY <1>1 DEF Receive, Decoded, PrefixSize
<1> HIDE DEF body
<1>3. /\ received' \in Seq(Results) /\ Len(received') = Due
      /\ \A i \in 1 .. Len(received) : received'[i] = received[i]
      /\ received'[Due] = Parsed(body)
  <2>1. received \in Seq(Results) /\ Parsed(body) \in Results
    BY Types, ParsedType
  <2> HIDE DEF Results, Parsed
  <2> QED
    BY <1>2, <2>1 DEF Due
<1>4. at \in Nat /\ size \in Nat /\ starts[Due + 1] = at + size
  <2>1. at \in Nat
    BY Types
  <2>2. Len(body) \in Nat /\ starts[Due + 1] = at + 4 + Len(body)
    BY <1>1 DEF body
  <2> HIDE DEF at
  <2> QED
    BY <2>1, <2>2
<1>5. /\ buffer \in Seq(Byte) /\ Len(buffer) \in Nat /\ arrived \in Nat
      /\ Len(buffer) = arrived - at
      /\ \A k \in 1 .. Len(buffer) : buffer[k] = stream[at + k]
  BY Types
<1> HIDE DEF size, at
<1>6. /\ buffer' \in Seq(Byte) /\ Len(buffer') = Len(buffer) - size
      /\ \A k \in 1 .. Len(buffer') : buffer'[k] = buffer[size + k]
  <2>1. \A k \in size + 1 .. Len(buffer) : buffer[k] \in Byte
    BY <1>4, <1>5
  <2>2. size + 1 \in Int /\ Len(buffer) \in Int
    BY <1>4, <1>5
  <2>3. /\ buffer' \in Seq(Byte)
        /\ Len(buffer') = IF size + 1 <= Len(buffer) THEN Len(buffer) - (size + 1) + 1 ELSE 0
        /\ \A k \in 1 .. Len(buffer) - (size + 1) + 1 : buffer'[k] = buffer[(size + 1) + k - 1]
    <3>1. buffer' = SubSeq(buffer, size + 1, Len(buffer))
      BY <1>2
    <3> DEFINE from == size + 1
               to == Len(buffer)
    <3>2. from \in Int /\ to \in Int /\ \A k \in from .. to : buffer[k] \in Byte
      BY <2>1, <2>2
    <3> HIDE DEF from, to
    <3>3. /\ SubSeq(buffer, from, to) \in Seq(Byte)
          /\ Len(SubSeq(buffer, from, to)) = IF from <= to THEN to - from + 1 ELSE 0
          /\ \A k \in 1 .. to - from + 1 : SubSeq(buffer, from, to)[k] = buffer[from + k - 1]
      BY <3>2, SubSeqProperties
    <3> QED
      BY <3>1, <3>3 DEF from, to
  <2>4. Len(buffer') = Len(buffer) - size
    <3>1. size <= Len(buffer) /\ size \in Nat /\ Len(buffer) \in Nat
      BY <1>1, <1>4, <1>5 DEF size
    <3> QED
      BY <2>3, <3>1
  <2>5. ASSUME NEW k \in 1 .. Len(buffer') PROVE buffer'[k] = buffer[size + k]
    <3>1. k \in 1 .. Len(buffer) - (size + 1) + 1 /\ (size + 1) + k - 1 = size + k
      BY <1>4, <1>5, <2>4
    <3> QED
      BY <2>3, <3>1
  <2> QED
    BY <2>3, <2>4, <2>5
<1>7. TypeOK'
  <2>1. Len(buffer') <= arrived'
    BY <1>2, <1>4, <1>5, <1>6
  <2> QED
    BY <1>2, <1>3, <1>6, <2>1, Types DEF TypeOK
<1>8. Segments'
  BY <1>2 DEF Inv, Segments, Placed
<1>9. ASSUME NEW k \in 1 .. Len(buffer')
      PROVE  buffer'[k] = stream[starts[Due + 1] + k]
  <2>1. size + k \in 1 .. Len(buffer)
    BY <1>4, <1>5, <1>6
  <2>2. buffer[size + k] = stream[at + (size + k)]
    BY <1>5, <2>1
  <2>3. at + (size + k) = starts[Due + 1] + k
    BY <1>4
  <2> QED
    BY <1>6, <2>2, <2>3
<1>10. Aligned'
  <2>1. starts'[Len(received') + 1] = starts[Due + 1]
    BY <1>2, <1>3
  <2>2. Len(buffer') = arrived' - starts[Due + 1]
    BY <1>2, <1>4, <1>5, <1>6
  <2>3. Len(received') <= Len(sent')
    BY <1>1, <1>2, <1>3
  <2> QED
    BY <1>2, <1>9, <2>1, <2>2, <2>3 DEF Aligned
<1>11. DecodedInOrder'
  <2>1. Len(received') <= Len(sent')
    BY <1>1, <1>2, <1>3
  <2>2. ASSUME NEW i \in DOMAIN received'
        PROVE  received'[i] = Parsed(sent'[i])
    <3>1. CASE i = Due
      BY <1>2, <1>3, <3>1 DEF body
    <3>2. CASE i # Due
      <4>1. i \in 1 .. Due
        BY <1>3
      <4>2. i \in 1 .. Len(received)
        BY <3>2, <4>1, Types DEF Due
      <4>3. i \in DOMAIN received
        BY <4>2, Types
      <4> QED
        BY <1>2, <1>3, <4>2, <4>3 DEF Inv, DecodedInOrder
    <3> QED
      BY <3>1, <3>2
  <2> QED
    BY <2>1, <2>2 DEF DecodedInOrder
<1> QED
  BY <1>7, <1>8, <1>10, <1>11 DEF Inv

LEMMA InvBreak == Inv /\ Break => Inv'
BY DEF Inv, TypeOK, Segments, Placed, Aligned, DecodedInOrder, Break

LEMMA InvStep == Inv /\ [Next]_vars => Inv'
<1> SUFFICES ASSUME Inv, [Next]_vars PROVE Inv'
  OBVIOUS
<1>1. CASE \E body \in Bodies : Send(body)
  BY <1>1, InvSend
<1>2. CASE \E upto \in 1 .. Len(stream) : Arrive(upto)
  BY <1>2, InvArrive
<1>3. CASE Receive
  BY <1>3, InvReceive
<1>4. CASE Break
  BY <1>4, InvBreak
<1>5. CASE UNCHANGED vars
  BY <1>5 DEF Inv, TypeOK, Segments, Placed, Aligned, DecodedInOrder, vars
<1> QED
  BY <1>1, <1>2, <1>3, <1>4, <1>5 DEF Next

-----------------------------------------------------------------------------

LEMMA InvAlways == Spec => []Inv
BY InvInit, InvStep, PTL DEF Spec

\* Buffers and results keep their types whatever is sent and however it is cut.
THEOREM TypeCorrect == Spec => []TypeOK
<1>1. Inv => TypeOK
  BY DEF Inv
<1> QED
  BY <1>1, InvAlways, PTL

\* Reading frames by their prefix inverts writing them: for every width of a
\* byte, all bodies and every cut, each frame comes out once, whole, in order.
THEOREM DecodingCorrect == Spec => []DecodedInOrder
<1>1. Inv => DecodedInOrder
  BY DEF Inv
<1> QED
  BY <1>1, InvAlways, PTL

=============================================================================
