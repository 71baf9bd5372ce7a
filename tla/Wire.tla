-------------------------------- MODULE Wire --------------------------------
(***************************************************************************)
(* Bytes in, responses out: the Framer (ber/framer.go) and readLoop        *)
(* (connection.go), reading what encodeLDAPRequest wrote.  Requests and    *)
(* responses share the LDAPMessage envelope, so what one side sends the    *)
(* other must read.  On the way the bytes may be damaged: one is replaced, *)
(* some are cut off the end.                                               *)
(***************************************************************************)
EXTENDS Messages

CONSTANTS
    Requests,      \* sequences of [id, protocol, controls, values] to be sent
    Replacements,  \* what a byte may be replaced by
    Reach          \* how far into the stream damage goes

VARIABLES
    sent,     \* the requests encodeLDAPRequest accepted
    damaged,  \* the bytes were damaged
    wire,     \* bytes the Framer has not read
    header,   \* Framer.Next's header
    first,    \* its firstLength
    frame,    \* the frame it returned
    pc,       \* where readLoop is
    out,      \* responses handed to route
    err       \* what the connection was retired with

vars == <<sent, damaged, wire, header, first, frame, pc, out, err>>

RECURSIVE Flatten(_)
Flatten(ss) == IF ss = <<>> THEN <<>> ELSE Head(ss) \o Flatten(Tail(ss))

Written(r) == EncodeLDAPRequest(r.id, r.protocol, r.controls)

\* Do with a request that does not encode returns its error and sends nothing.
Accepted(rs) == LET ok(r) == Written(r).err = "none" IN SelectSeq(rs, ok)
Stream(rs)   == Flatten([k \in 1..Len(rs) |-> Written(rs[k]).bytes])

Damage(s) ==
    {[s EXCEPT ![k] = b] : k \in 1..(IF Reach < Len(s) THEN Reach ELSE Len(s)), b \in Replacements}
        \cup {SubSeq(s, 1, k) : k \in 0..(Len(s) - 1)}

Init ==
    /\ sent \in {Accepted(rs) : rs \in Requests}
    /\ damaged \in BOOLEAN
    /\ wire \in IF damaged THEN Damage(Stream(sent)) ELSE {Stream(sent)}
    /\ header = <<>>
    /\ first = 0
    /\ frame = <<>>
    /\ pc = "first"
    /\ out = <<>>
    /\ err = "none"

\* Framer.Next or parseOwnedResponse failed, and readLoop retires.
Retire(e) == pc' = "retired" /\ err' = e /\ UNCHANGED <<wire, header, first, frame, out>>

\* n more bytes of header
Take(n, p) ==
    /\ header' = header \o SubSeq(wire, 1, n)
    /\ wire' = Drop(wire, n)
    /\ pc' = p
    /\ UNCHANGED <<frame, out, err>>

-----------------------------------------------------------------------------
(* Framer.Next *)

\* The end of the stream before a frame is the peer's, not an error in BER.
FirstByte ==
    /\ pc = "first"
    /\ IF wire = <<>> THEN Retire("eof")
       ELSE Take(1, IF wire[1] % 32 = 31 THEN "tag" ELSE "length") /\ UNCHANGED first
    /\ UNCHANGED <<sent, damaged>>

\* The longest header the loop over a high tag number builds, 6 bytes in Go
MaxIdentifier == 1 + (TagBits + 6) \div 7

TagByte ==
    /\ pc = "tag"
    /\ IF wire = <<>> THEN Retire("truncated")
       ELSE IF wire[1] >= 128 /\ Len(header) + 1 = MaxIdentifier THEN Retire("identifier")
       ELSE Take(1, IF wire[1] >= 128 THEN "tag" ELSE "length") /\ UNCHANGED first
    /\ UNCHANGED <<sent, damaged>>

\* The identifier is decoded, and firstLength is read.
LengthByte ==
    /\ pc = "length"
    /\ LET i == DecodeIdentifier(header) IN
       IF i.err # "none" THEN Retire(i.err)
       ELSE IF wire = <<>> THEN Retire("truncated")
       ELSE IF wire[1] = 128 THEN Retire("indefinite")
       ELSE Take(1, "octets") /\ first' = wire[1]
    /\ UNCHANGED <<sent, damaged>>

LengthByteCount(b) == IF b < 128 THEN 0 ELSE b - 128

\* The other octets of the length
LengthOctets ==
    /\ pc = "octets"
    /\ IF LengthByteCount(first) > Len(wire) THEN Retire("truncated")
       ELSE Take(LengthByteCount(first), "body") /\ UNCHANGED first
    /\ UNCHANGED <<sent, damaged>>

\* The length, from where firstLength is in the header
Measured == DecodeLength(Drop(header, Len(header) - (1 + LengthByteCount(first))))

\* Mutant: the header is counted twice.
FrameSizeTwice == Wrap(2 * Len(header) + Measured.length)

\* len(header) + length, in an int
FrameSize == Wrap(Len(header) + Measured.length)

\* The limit is checked, the frame is allocated, which panics for a negative
\* size, and its contents are read.
Body ==
    /\ pc = "body"
    /\ IF Measured.err # "none" THEN Retire(Measured.err)
       ELSE IF FrameSize > MaxFrameBytes THEN Retire("limit")
       ELSE IF FrameSize < 0 THEN pc' = "panic" /\ UNCHANGED <<wire, header, first, frame, out, err>>
       ELSE IF FrameSize - Len(header) > Len(wire) THEN Retire("truncated")
       ELSE /\ frame' = header \o SubSeq(wire, 1, FrameSize - Len(header))
            /\ wire' = Drop(wire, FrameSize - Len(header))
            /\ header' = <<>>
            /\ first' = 0
            /\ pc' = "parse"
            /\ UNCHANGED <<out, err>>
    /\ UNCHANGED <<sent, damaged>>

-----------------------------------------------------------------------------
\* readLoop parses the frame and routes the response (Conn has the rest).
Parse ==
    /\ pc = "parse"
    /\ LET r == ParseOwnedResponse(frame) IN
       IF r.err # "none" THEN Retire(r.err)
       ELSE out' = Append(out, r) /\ pc' = "first" /\ UNCHANGED <<wire, header, first, frame, err>>
    /\ UNCHANGED <<sent, damaged>>

\* ExecuteStream: the caller's goroutine decodes the operation and the controls
\* of the response it was handed.
Consume(r) ==
    LET known == {s \in Operations : s.id = r.protocol} IN
    IF known = {} THEN <<Decoded("pattern", <<>>, <<>>, 0)>>
    ELSE <<Unmarshal(CHOOSE s \in known : TRUE, r.raw)>>
             \o [k \in DOMAIN r.controls |-> Unmarshal(Control, r.controls[k])]

Next == FirstByte \/ TagByte \/ LengthByte \/ LengthOctets \/ Body \/ Parse

Spec == Init /\ [][Next]_vars

-----------------------------------------------------------------------------
(* Properties *)

\* What encodeLDAPRequest accepts, the Framer and parseOwnedResponse read
\* back: on an undamaged stream every message arrives, in order, with its ID,
\* its operation and each of its controls, and the stream ends between two
\* messages.
MessagesArrive ==
    ~damaged =>
        /\ \A k \in 1..Len(out) :
              /\ out[k].id = sent[k].id
              /\ out[k].protocol = sent[k].protocol.id
              /\ out[k].raw = Encode(sent[k].protocol)
              /\ out[k].controls = [j \in 1..Len(sent[k].controls) |-> Encode(sent[k].controls[j])]
        /\ pc = "retired" => err = "eof" /\ Len(out) = Len(sent)

\* The typed values of a request arrive too: the operation and the controls
\* decode to what was encoded.  Only what nests deeper than the reader's limits
\* is refused.
ValuesArrive ==
    ~damaged /\ pc = "first" /\ out # <<>> =>
        LET k   == Len(out)
            got == Consume(out[k])
        IN \A j \in DOMAIN sent[k].values :
              \/ got[j].err = "none" /\ got[j].value = sent[k].values[j][2]
              \/ got[j].err = "limit"

\* What one side sends the other receives, byte for byte and value for value.
RoundTrip == MessagesArrive /\ ValuesArrive

\* What the decoders accept they understand: encoded again, the value they
\* produced is accepted as the same value, whatever the bytes were, so nothing
\* in a message is read as one field and written as another.
DecodeStable ==
    pc = "first" /\ out # <<>> =>
        LET r   == out[Len(out)]
            got == Consume(r)
        IN \A j \in DOMAIN got :
              got[j].err = "none" =>
                  LET s     == IF j > 1 THEN Control ELSE CHOOSE s \in Operations : s.id = r.protocol
                      again == Unmarshal(s, Encode(PacketOf(s, got[j].value)))
                  IN again.err = "none" /\ again.value = got[j].value

\* The Framer and the Reader decode headers separately, and agree: a frame is
\* exactly one element, whatever the bytes were, so what parseOwnedResponse
\* rejects is the contents and never where the frame ends.
FramerAgrees ==
    pc = "parse" =>
        LET e == ReadElement(frame, 0) IN e.err = "none" /\ e.raw = frame

\* How many elements there are in data, at every level, and how many
\* constructed ones contain each other.
RECURSIVE Weigh(_)
Weigh(data) ==
    LET e    == ReadElement(data, 0)
        in   == IF e.id.constructed THEN Weigh(e.value) ELSE [n |-> 0, depth |-> -1]
        rest == Weigh(e.rest)
    IN IF data = <<>> THEN [n |-> 0, depth |-> 0]
       ELSE [n     |-> 1 + in.n + rest.n,
             depth |-> IF in.depth + 1 > rest.depth THEN in.depth + 1 ELSE rest.depth]

\* A message that parseOwnedResponse accepts is its parts and nothing else:
\* rebuilt from the response it is the same bytes, except that the ID may have
\* been sent with leading zeros.  Every element below the envelope but those
\* of the operation, which is left to its own decoder, is counted against
\* MaxElements and MaxDepth.
EnvelopeExact ==
    \A k \in 1..Len(out) :
        LET r        == out[k]
            controls == Constructed(ControlsIdentifier,
                            [j \in 1..Len(r.controls) |-> Encoded(SequenceIdentifier, r.controls[j])])
            maybe    == IF r.controls = <<>> THEN {<<>>, <<controls>>} ELSE {<<controls>>}
            more     == [j \in 1..Len(r.extensions) |-> Encoded(NoId, r.extensions[j])]
        IN k = Len(out) /\ pc = "first" =>
           \E pad \in 0..MaxIntegerBytes, c \in maybe :
              /\ frame = Encode(Sequence(
                     <<Primitive(IntegerIdentifier, [j \in 1..pad |-> 0] \o IntegerBytes(r.id)),
                       Encoded(r.protocol, r.raw)>> \o c \o more))
              /\ r.n = 3 + Weigh(EncodeAll(c \o more)).n
              /\ r.n <= MaxElements
              /\ 1 + Weigh(EncodeAll(c \o more)).depth <= MaxDepth

\* No frame is larger than Limits.MaxFrameBytes, and none has to be allocated
\* before that is known.
FramesBounded == pc # "panic" /\ Len(frame) <= MaxFrameBytes

=============================================================================
