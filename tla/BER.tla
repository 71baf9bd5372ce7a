-------------------------------- MODULE BER ---------------------------------
(***************************************************************************)
(* Package ber: the packet encoder (packet.go, identifier.go, length.go),  *)
(* the bounded Reader (reader.go), and the LDAPMessage envelope built from *)
(* them (response.go, encodeLDAPRequest).  A byte is 0 .. 255 and a byte   *)
(* slice a sequence.  The machine word, 8 bytes in Go, and the 32 bits of  *)
(* a tag number are constants, so that their limits come within reach.     *)
(*                                                                         *)
(* An error is a name; "none" is nil.  Offsets in errors are left out.     *)
(***************************************************************************)
EXTENDS Integers, Sequences

CONSTANTS
    WordBytes,        \* bytes of an int and of an int64
    TagBits,          \* bits of Identifier.Number
    MaxFrameBytes, MaxDepth, MaxElements, MaxIntegerBytes, MaxTagNumber  \* Limits

ASSUME BERAssumption ==
    /\ WordBytes \in 2..3 /\ TagBits \in 8..24
    /\ {MaxFrameBytes, MaxDepth, MaxElements, MaxIntegerBytes, MaxTagNumber} \subseteq Nat \ {0}

MaxInt       == 2^(8 * WordBytes - 1) - 1
MaxMessageID == 2^(4 * WordBytes - 1) - 1

\* Signed arithmetic wraps around.
Wrap(n) == ((n + MaxInt + 1) % (2 * (MaxInt + 1))) - (MaxInt + 1)

Identifier == [class : 0..3, constructed : BOOLEAN, number : Nat]

Id(class, constructed, number) ==
    [class |-> class, constructed |-> constructed, number |-> number]

IntegerIdentifier  == Id(0, FALSE, 2)
SequenceIdentifier == Id(0, TRUE, 16)
ControlsIdentifier == Id(2, TRUE, 0)

Drop(s, n) == SubSeq(s, n + 1, Len(s))

-----------------------------------------------------------------------------
(* Encoding *)

\* n in base b, most significant digit first
RECURSIVE Digits(_, _)
Digits(n, b) == IF n < b THEN <<n>> ELSE Append(Digits(n \div b, b), n % b)

AppendIdentifier(id) ==
    LET first == 64 * id.class + (IF id.constructed THEN 32 ELSE 0)
        d     == Digits(id.number, 128)
    IN IF id.number < 31 THEN <<first + id.number>>
       ELSE <<first + 31>> \o [i \in 1..Len(d) |-> IF i < Len(d) THEN d[i] + 128 ELSE d[i]]

AppendLength(n) ==
    IF n < 128 THEN <<n>> ELSE LET d == Digits(n, 256) IN <<128 + Len(d)>> \o d

\* integerBytes: the shortest two's-complement form
IntegerBytes(v) ==
    IF v < 0
    THEN LET raw   == [i \in 1..WordBytes |->
                          ((v + 2 * (MaxInt + 1)) \div 256^(WordBytes - i)) % 256]
             start == CHOOSE s \in 1..WordBytes :
                          /\ \A j \in 1..(s - 1) : raw[j] = 255 /\ raw[j + 1] >= 128
                          /\ s < WordBytes => raw[s] # 255 \/ raw[s + 1] < 128
         IN Drop(raw, start - 1)
    ELSE LET d == Digits(v, 256) IN IF d[1] >= 128 THEN <<0>> \o d ELSE d

\* Packets: Primitive, an Envelope with children, and Encoded, which says of
\* itself that it is an id.
Primitive(id, value)      == [id |-> id, value |-> value, children |-> <<>>, encoded |-> FALSE]
Constructed(id, children) == [id |-> id, value |-> <<>>, children |-> children, encoded |-> FALSE]
Encoded(id, value) ==
    [id |-> id, value |-> value, children |-> <<>>, encoded |-> TRUE]
Sequence(children)        == Constructed(SequenceIdentifier, children)
Integer(v)                == Primitive(IntegerIdentifier, IntegerBytes(v))

RECURSIVE Encode(_), EncodeAll(_)
Encode(p) ==
    IF p.encoded THEN p.value
    ELSE LET contents == IF p.id.constructed THEN EncodeAll(p.children) ELSE p.value
         IN AppendIdentifier(p.id) \o AppendLength(Len(contents)) \o contents
EncodeAll(ps) == IF ps = <<>> THEN <<>> ELSE Encode(Head(ps)) \o EncodeAll(Tail(ps))

-----------------------------------------------------------------------------
(* Decoding identifiers, lengths and integers *)

NoId == Id(0, FALSE, 0)

Identified(id, n)  == [err |-> "none", id |-> id, bytes |-> n]
BadIdentifier(err) == [err |-> err, id |-> NoId, bytes |-> 0]

\* The loop over the octets of a high tag number; i octets are behind it.
RECURSIVE TagNumber(_, _, _)
TagNumber(data, i, number) ==
    IF i = Len(data) THEN BadIdentifier("truncated")
    ELSE LET b    == data[i + 1]
             next == 128 * number + (b % 128)
         IN CASE i = 1 /\ b % 128 = 0 -> BadIdentifier("identifier")
              [] ~(i = 1 /\ b % 128 = 0) /\ number > (2^TagBits - 1) \div 128 ->
                    BadIdentifier("identifier")
              [] ~(i = 1 /\ b % 128 = 0) /\ number <= (2^TagBits - 1) \div 128 ->
                    IF next > MaxTagNumber THEN BadIdentifier("limit")
                    ELSE IF b >= 128 THEN TagNumber(data, i + 1, next)
                    ELSE IF next < 31 THEN BadIdentifier("identifier")
                    ELSE Identified(Id(data[1] \div 64, (data[1] \div 32) % 2 = 1, next), i + 1)

DecodeIdentifier(data) ==
    IF data = <<>> THEN BadIdentifier("truncated")
    ELSE IF data[1] % 32 = 31 THEN TagNumber(data, 1, 0)
    ELSE Identified(Id(data[1] \div 64, (data[1] \div 32) % 2 = 1, data[1] % 32), 1)

\* Big-endian octets as a number, and whether that stays within max at every
\* step of the shifting.
RECURSIVE Unsigned(_)
Unsigned(s) == IF s = <<>> THEN 0 ELSE 256 * Unsigned(SubSeq(s, 1, Len(s) - 1)) + s[Len(s)]

Fits(s, max) == \A i \in 1..(Len(s) - 1) : Unsigned(SubSeq(s, 1, i)) <= max \div 256

Measure(length, err) == [err |-> err, length |-> length, bytes |-> 0]

LongLength(octets) ==
    IF Len(octets) > WordBytes \/ (Len(octets) > 1 /\ octets[1] = 0) THEN Measure(0, "length")
    ELSE IF ~Fits(octets, MaxInt) THEN Measure(0, "overflow")
    ELSE IF Unsigned(octets) < 128 THEN Measure(0, "length")
    ELSE [Measure(Unsigned(octets), "none") EXCEPT !.bytes = Len(octets) + 1]

DecodeLength(data) ==
    IF data = <<>> THEN Measure(0, "truncated")
    ELSE IF data[1] < 128 THEN [Measure(data[1], "none") EXCEPT !.bytes = 1]
    ELSE IF data[1] = 128 THEN Measure(0, "indefinite")
    ELSE IF data[1] - 128 > Len(data) - 1 THEN Measure(0, "truncated")
    ELSE LongLength(SubSeq(data, 2, data[1] - 127))

\* decodeInteger into an int64
DecodeInteger(value) ==
    LET n        == Len(value)
        negative == value[1] >= 128
        fail(e)  == [err |-> e, value |-> 0]
    IN IF n = 0 THEN fail("integer")
       ELSE IF n > MaxIntegerBytes THEN fail("limit")
       ELSE IF n > WordBytes + 1 \/ (n = WordBytes + 1 /\ value[1] # 0) THEN fail("integer")
       ELSE IF negative THEN [err |-> "none", value |-> Unsigned(value) - 256^n]
       ELSE IF Unsigned(value) > MaxInt THEN fail("integer")
       ELSE [err |-> "none", value |-> Unsigned(value)]

-----------------------------------------------------------------------------
(* Reader.  "data" is what is unread, "n" the element count that a reader   *)
(* shares with its children.  A failed read leaves both as they were.       *)

Element(err, data, n) ==
    [err |-> err, id |-> NoId, value |-> <<>>, raw |-> <<>>, rest |-> data, n |-> n]

\* The three steps of ReadElement: identifier i, length l, contents.
ReadContents(data, n, i, l) ==
    LET header == i.bytes + l.bytes IN
    IF l.err # "none" THEN Element(l.err, data, n)
    ELSE IF l.length > Len(data) - header THEN Element("truncated", data, n)
    ELSE IF n = MaxElements THEN Element("limit", data, n)
    ELSE [err |-> "none", id |-> i.id,
          value |-> SubSeq(data, header + 1, header + l.length),
          raw   |-> SubSeq(data, 1, header + l.length),
          rest  |-> Drop(data, header + l.length),
          n     |-> n + 1]
ReadLength(data, n, i) ==
    IF i.err # "none" THEN Element(i.err, data, n)
    ELSE ReadContents(data, n, i, DecodeLength(Drop(data, i.bytes)))
ReadElement(data, n) == ReadLength(data, n, DecodeIdentifier(data))

\* validateContents: the contents of a constructed element are elements.
Adopt(e, v) == [e EXCEPT !.err = v.err, !.n = v.n]

RECURSIVE ValidateContents(_, _), ValidateAll(_, _, _), ValidateRest(_, _), Validate(_, _)
ValidateContents(e, depth) ==
    IF ~e.id.constructed THEN e
    ELSE IF depth = MaxDepth THEN [e EXCEPT !.err = "limit"]
    ELSE Adopt(e, ValidateAll(e.value, depth + 1, e.n))
ValidateAll(data, depth, n) ==
    IF data = <<>> THEN Element("none", data, n)
    ELSE ValidateRest(Validate(ReadElement(data, n), depth), depth)
ValidateRest(v, depth) ==
    IF v.err # "none" THEN v ELSE ValidateAll(v.rest, depth, v.n)
Validate(e, depth) ==
    IF e.err # "none" THEN e ELSE ValidateContents(e, depth)

\* Mutant: what is skipped is not looked into.
SkipElementBlindly(data, depth, n) == ReadElement(data, n)

SkipElement(data, depth, n) == Validate(ReadElement(data, n), depth)

\* Reader.Primitive and Reader.Constructed
Expect(e, id, data, n) ==
    IF e.err = "none" /\ e.id # id THEN Element("unexpected", data, n) ELSE e
Enter(e, depth, data, n) ==
    IF e.err = "none" /\ depth = MaxDepth THEN Element("limit", data, n) ELSE e

ReadPrimitive(data, id, n) == Expect(ReadElement(data, n), id, data, n)
ReadConstructed(data, id, depth, n) == Enter(ReadPrimitive(data, id, n), depth, data, n)

-----------------------------------------------------------------------------
(* The LDAPMessage envelope *)

\* All of data as elements, none with a known identifier: their encodings, or
\* an error.
Skipped(err, raws, n) == [err |-> err, raws |-> raws, n |-> n]

RECURSIVE SkipAll(_, _, _, _), SkipRest(_, _, _)
SkipAll(data, depth, n, known) ==
    IF data = <<>> THEN Skipped("none", <<>>, n)
    ELSE SkipRest(SkipElement(data, depth, n), depth, known)
SkipRest(e, depth, known) ==
    IF e.err # "none" THEN Skipped(e.err, <<>>, e.n)
    ELSE IF e.id \in known THEN Skipped("unexpected", <<>>, e.n)
    ELSE [SkipAll(e.rest, depth, e.n, known) EXCEPT !.raws = <<e.raw>> \o @]

Unless(ok, err) == IF ok THEN "none" ELSE err

\* parseOwnedResponse, from the last step to the first.  A step is given what
\* the step before it read, and the first error ends them all.  The reader of
\* the envelope has depth 1, that of the controls depth 2.
Unparsed(err) ==
    [err |-> err, id |-> 0, protocol |-> NoId, raw |-> <<>>,
     controls |-> <<>>, extensions |-> <<>>, n |-> 0]

ParseExtensions(id, protocol, list, more) ==
    IF more.err # "none" THEN Unparsed(more.err)
    ELSE [err |-> "none", id |-> id, protocol |-> protocol.id, raw |-> protocol.raw,
          controls |-> list.raws, extensions |-> more.raws, n |-> more.n]

ParseControls(id, protocol, rest, list) ==
    IF list.err # "none" THEN Unparsed(list.err)
    ELSE IF \E k \in DOMAIN list.raws : DecodeIdentifier(list.raws[k]).id # SequenceIdentifier
    THEN Unparsed("control")
    ELSE ParseExtensions(id, protocol, list, SkipAll(rest, 1, list.n, {ControlsIdentifier}))

OpenControls(id, protocol, controls) ==
    IF controls.err # "none" THEN Unparsed(controls.err)
    ELSE ParseControls(id, protocol, controls.rest, SkipAll(controls.value, 2, controls.n, {}))

\* PeekIdentifier, unless the envelope is empty
PeekControls(id, protocol, next) ==
    IF protocol.rest = <<>> \/ (next.err = "none" /\ next.id # ControlsIdentifier)
    THEN OpenControls(id, protocol, [protocol EXCEPT !.value = <<>>])
    ELSE IF next.err # "none" THEN Unparsed(next.err)
    ELSE OpenControls(id, protocol, ReadConstructed(protocol.rest, ControlsIdentifier, 1, protocol.n))

ParseProtocol(id, protocol) ==
    IF protocol.err # "none" THEN Unparsed(protocol.err)
    ELSE IF protocol.id.class # 1 THEN Unparsed("protocol")
    ELSE PeekControls(id, protocol, DecodeIdentifier(protocol.rest))

ParseMessageID(e, number) ==
    IF e.err # "none" THEN Unparsed(e.err)
    ELSE IF number.err # "none" THEN Unparsed(number.err)
    ELSE IF number.value \notin 0..MaxMessageID THEN Unparsed("messageID")
    ELSE ParseProtocol(number.value, ReadElement(e.rest, e.n))

OpenMessageID(e) == ParseMessageID(e, DecodeInteger(e.value))

ParseEnvelope(envelope) ==
    IF envelope.err # "none" THEN Unparsed(envelope.err)
    ELSE IF envelope.rest # <<>> THEN Unparsed("trailing")
    ELSE OpenMessageID(ReadPrimitive(envelope.value, IntegerIdentifier, envelope.n))

ParseOwnedResponse(message) ==
    IF Len(message) > MaxFrameBytes THEN Unparsed("limit")
    ELSE ParseEnvelope(ReadConstructed(message, SequenceIdentifier, 0, 0))

Message(id, protocol, controls) ==
    Encode(Sequence(<<Integer(id), protocol>>
                        \o (IF controls = <<>> THEN <<>>
                            ELSE <<Constructed(ControlsIdentifier, controls)>>)))

\* What encodeLDAPRequest asks of the bytes it read back
ReadBack(bytes, back, protocol, controls) ==
    [bytes |-> bytes,
     err   |-> IF Len(bytes) > MaxFrameBytes THEN "limit"
               ELSE IF back.err # "none" THEN back.err
               ELSE IF back.protocol # protocol.id THEN "mismatch"
               ELSE Unless(Len(back.controls) = Len(controls) /\ back.extensions = <<>>, "packets")]
CheckRequest(bytes, protocol, controls) ==
    ReadBack(bytes, ParseOwnedResponse(bytes), protocol, controls)

\* Mutant: what was read back is not counted.
EncodeLDAPRequestUncounted(id, protocol, controls) ==
    LET bytes == Message(id, protocol, controls)
    IN [bytes |-> bytes, err |-> ParseOwnedResponse(bytes).err]

\* encodeLDAPRequest: what is to be written is read back first.
EncodeLDAPRequest(id, protocol, controls) ==
    CheckRequest(Message(id, protocol, controls), protocol, controls)

=============================================================================
