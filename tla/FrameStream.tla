----------------------------- MODULE FrameStream ----------------------------
(***************************************************************************)
(* Length-prefixed frames on a connection.  The sender writes what         *)
(* encode_frame_to_bytes returns; the bytes arrive in order, in pieces cut *)
(* anywhere; the receiver collects them and, when the declared bytes are   *)
(* there, hands them to decode_frame_from_bytes and goes on behind them.   *)
(* A connection may break at any point and is replaced by a new one.  The  *)
(* receiver's loop is external: the package leaves it to the caller.       *)
(*                                                                         *)
(* A body is its bytes; what the JSON in it says is Content, a table.      *)
(***************************************************************************)
EXTENDS Integers, Sequences

CONSTANTS
    Base,       \* values of a byte
    Bodies,     \* JSON bodies, as sequences of bytes
    Content,    \* what each body holds, see Contents
    Expected,   \* expected_type: "request" or "response"
    MaxFrames,  \* bound: frames sent on a connection
    MaxBreaks   \* bound: connections that break

Byte == 0 .. Base - 1
Contents == {"request", "response", "null messages", "no object"}

ASSUME BaseAssumption == Base \in Nat /\ Base > 1
ASSUME BodiesAssumption == Bodies \subseteq Seq(Byte)
ASSUME ContentAssumption == Content \in [Bodies -> Contents]

-----------------------------------------------------------------------------
(* The prefix: four bytes, the most significant first. *)

PrefixSize == 4

\* struct.pack refuses a length of Base ^ 4 or more.
Fits(length) == ((length \div Base) \div Base) \div Base < Base

\* Faulty variant: the least significant byte first on the one side only.
PrefixReversed(length) ==
    LET q1 == length \div Base
        q2 == q1 \div Base
        q3 == q2 \div Base
    IN <<length % Base, q1 % Base, q2 % Base, q3>>

Prefix(length) ==
    LET q1 == length \div Base
        q2 == q1 \div Base
        q3 == q2 \div Base
    IN <<q3, q2 % Base, q1 % Base, length % Base>>

Declared(bytes) == ((bytes[1] * Base + bytes[2]) * Base + bytes[3]) * Base + bytes[4]

\* encode_frame_to_bytes, for a length that fits.
Encode(body) == Prefix(Len(body)) \o body

\* Neither "too short" nor "truncated"; what follows the frame does not matter.
Complete(bytes) ==
    Len(bytes) >= PrefixSize /\ Len(bytes) - PrefixSize >= Declared(bytes)

FrameBody(bytes) == SubSeq(bytes, PrefixSize + 1, PrefixSize + Declared(bytes))

Exceptions == {"ValueError", "TypeError", "KeyError"}
Results == [outcome : {"frame"}, body : Bodies] \union [outcome : Exceptions]

\* json.loads and from_json_dict of the expected class: the frame, or the kind
\* of the exception.  A frame of the other class lacks a required field.
Parsed(body) ==
    IF body \notin Bodies \/ Content[body] = "no object" THEN [outcome |-> "ValueError"]
    ELSE IF Content[body] = Expected THEN [outcome |-> "frame", body |-> body]
    ELSE IF Content[body] = "null messages" /\ Expected = "request"
         THEN [outcome |-> "TypeError"]
    ELSE [outcome |-> "KeyError"]

\* decode_frame_from_bytes, for bytes that hold a complete frame.
Decoded(bytes) == Parsed(FrameBody(bytes))

-----------------------------------------------------------------------------

VARIABLES
    stream,    \* the bytes written to this connection
    arrived,   \* how many of them have arrived
    buffer,    \* those the receiver holds
    received,  \* results of decoding on this connection
    breaks,    \* connections that broke
    \* History variables, which no action reads:
    sent,      \* bodies sent on this connection
    starts     \* where in stream each of them starts, and where the next will

vars == <<stream, arrived, buffer, received, breaks, sent, starts>>

Init ==
    /\ stream = <<>> /\ arrived = 0
    /\ buffer = <<>> /\ received = <<>>
    /\ breaks = 0
    /\ sent = <<>> /\ starts = <<0>>

\* A body too long for the prefix raises, and nothing is written.
Send(body) ==
    /\ Fits(Len(body)) /\ Len(sent) < MaxFrames
    /\ stream' = stream \o Encode(body)
    /\ sent' = Append(sent, body)
    /\ starts' = Append(starts, Len(stream) + Len(Encode(body)))
    /\ UNCHANGED <<arrived, buffer, received, breaks>>

\* Any number of further bytes arrive.
Arrive(upto) ==
    /\ arrived < upto
    /\ buffer' = buffer \o SubSeq(stream, arrived + 1, upto)
    /\ arrived' = upto
    /\ UNCHANGED <<stream, received, breaks, sent, starts>>

\* Faulty variant: the frame is only taken when something follows it.
ReceiveWhenMore ==
    /\ Complete(buffer) /\ Len(buffer) > PrefixSize + Declared(buffer)
    /\ received' = Append(received, Decoded(buffer))
    /\ buffer' = SubSeq(buffer, PrefixSize + Declared(buffer) + 1, Len(buffer))
    /\ UNCHANGED <<stream, arrived, breaks, sent, starts>>

Receive ==
    /\ Complete(buffer)
    /\ received' = Append(received, Decoded(buffer))
    /\ buffer' = SubSeq(buffer, PrefixSize + Declared(buffer) + 1, Len(buffer))
    /\ UNCHANGED <<stream, arrived, breaks, sent, starts>>

\* Faulty variant: the bytes of the broken connection stay in the buffer.
BreakKeepingBuffer ==
    /\ breaks < MaxBreaks
    /\ breaks' = breaks + 1
    /\ stream' = <<>> /\ arrived' = 0
    /\ received' = <<>>
    /\ sent' = <<>> /\ starts' = <<0>>
    /\ UNCHANGED buffer

\* Bytes that had not arrived and frames that were not complete are lost.
Break ==
    /\ breaks < MaxBreaks
    /\ breaks' = breaks + 1
    /\ stream' = <<>> /\ arrived' = 0
    /\ buffer' = <<>> /\ received' = <<>>
    /\ sent' = <<>> /\ starts' = <<0>>

Next ==
    \/ \E body \in Bodies : Send(body)
    \/ \E upto \in 1 .. Len(stream) : Arrive(upto)
    \/ Receive
    \/ Break

Spec == Init /\ [][Next]_vars

\* A connection that does not break brings its bytes, the receiver goes on.
Fairness ==
    WF_vars(\E upto \in 1 .. Len(stream) : Arrive(upto)) /\ WF_vars(Receive)

FairSpec == Spec /\ Fairness

-----------------------------------------------------------------------------
(* Properties. *)

\* Every variable has its type; the buffer is part of what has arrived.
TypeOK ==
    /\ stream \in Seq(Byte) /\ arrived \in 0 .. Len(stream)
    /\ buffer \in Seq(Byte) /\ Len(buffer) <= arrived
    /\ received \in Seq(Results)
    /\ breaks \in Nat
    /\ sent \in Seq(Bodies) /\ starts \in Seq(Nat) /\ Len(starts) = Len(sent) + 1

\* Wherever the stream is cut, and whatever the bodies contain, prefixes of
\* their own among it, each frame comes out once, whole and in order: what is
\* decoded is what decoding that frame alone gives, even after a frame of the
\* wrong class or without content.
DecodedInOrder ==
    /\ Len(received) <= Len(sent)
    /\ \A i \in DOMAIN received : received[i] = Parsed(sent[i])

\* A frame is received without waiting for the next one: when sending ends, all
\* that was sent comes out.
NothingStuck == <>[](Len(received) = Len(sent))

=============================================================================
