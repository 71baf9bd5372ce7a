------------------------------ MODULE Messages ------------------------------
(***************************************************************************)
(* Package rfc4511: the LDAP protocol operations as BER.  Every message    *)
(* type of the package is a schema here, and Decode and PacketOf do for    *)
(* all of them what its UnmarshalBER and BERPacket do with ber.Decoder and *)
(* ber.Envelope.  A struct's value is the sequence of its fields and the   *)
(* unknown trailing fields it preserves; an optional field is a sequence   *)
(* of at most one value, and a choice is its identifier and its value.     *)
(***************************************************************************)
EXTENDS BER

BooleanIdentifier     == Id(0, FALSE, 1)
OctetStringIdentifier == Id(0, FALSE, 4)
EnumeratedIdentifier  == Id(0, FALSE, 10)
SetIdentifier         == Id(0, TRUE, 17)

ContextPrimitive(n)       == Id(2, FALSE, n)
ContextConstructed(n)     == Id(2, TRUE, n)
ApplicationPrimitive(n)   == Id(1, FALSE, n)
ApplicationConstructed(n) == Id(1, TRUE, n)

MaxInt32 == MaxMessageID

\* time.Second, scaled with the word
Second == 64

-----------------------------------------------------------------------------
(* Schemas *)

Schema(kind, id, fields, known, rule) ==
    [kind |-> kind, id |-> id, fields |-> fields, known |-> known, rule |-> rule]

\* How often a field occurs: "flag" is a BOOLEAN that is left out when false.
Field(schema, times) == [schema |-> schema, times |-> times]
One(s)    == Field(s, "one")
Option(s) == Field(s, "option")
Many(s)   == Field(s, "many")

Leaf(kind, id)    == Schema(kind, id, <<>>, {}, "none")
Text(id)          == Leaf("text", id)   \* valid UTF-8
Name(id)          == Leaf("name", id)   \* and not empty
OID(id)           == Leaf("oid", id)
Octets(id)        == Leaf("octets", id)
Number(id, range) == Schema("number", id, <<>>, {}, range)
Flag(id)          == Field(Leaf("boolean", id), "flag")

Struct(id, fields, known, rule) == Schema("struct", id, fields, known, rule)
Closed(id, fields)              == Schema("closed", id, fields, {}, "none")
List(id, s, rule)               == Schema("list", id, <<One(s)>>, {}, rule)
Choice(name)                    == Schema("choice", NoId, <<>>, {}, name)

String == Text(OctetStringIdentifier)
Value  == Octets(OctetStringIdentifier)

Control ==
    Struct(SequenceIdentifier,
           <<One(OID(OctetStringIdentifier)), Flag(BooleanIdentifier), Option(Value)>>,
           {BooleanIdentifier, OctetStringIdentifier}, "none")

Attribute ==
    Struct(SequenceIdentifier,
           <<One(Name(OctetStringIdentifier)), One(List(SetIdentifier, Value, "none"))>>, {}, "none")
Attributes == List(SequenceIdentifier, Attribute, "distinct")

AttributeValueAssertion(id) ==
    Struct(id, <<One(Name(OctetStringIdentifier)), One(Value)>>, {}, "none")

Change == Struct(SequenceIdentifier, <<One(Number(EnumeratedIdentifier, "int64")), One(Attribute)>>, {}, "none")

\* LDAPResult, alone or embedded in a response that adds fields to it
LDAPResult(id, more, known) ==
    Struct(id,
           <<One(Number(EnumeratedIdentifier, "int64")), One(String), One(String),
             Option(List(ContextConstructed(3), String, "some"))>> \o more,
           {ContextConstructed(3)} \cup known, "referral")

BindRequest ==
    Struct(ApplicationConstructed(0),
           <<One(Number(IntegerIdentifier, "version")), One(String), One(Choice("authentication"))>>,
           {}, "none")
BindResponse ==
    LDAPResult(ApplicationConstructed(1), <<Option(Octets(ContextPrimitive(7)))>>, {ContextPrimitive(7)})

AttributeSelectors == List(SequenceIdentifier, String, "none")

SearchRequest ==
    Struct(ApplicationConstructed(3),
           <<One(String), One(Number(EnumeratedIdentifier, "int64")),
             One(Number(EnumeratedIdentifier, "deref")), One(Number(IntegerIdentifier, "size")),
             One(Number(IntegerIdentifier, "seconds")), One(Leaf("boolean", BooleanIdentifier)),
             One(Choice("filter")), One(AttributeSelectors)>>,
           {}, "none")
SearchResultEntry ==
    Struct(ApplicationConstructed(4), <<One(String), One(Attributes)>>, {}, "none")
SearchResultReference ==
    Struct(ApplicationConstructed(19), <<Many(String)>>, {OctetStringIdentifier}, "reference")

ModifyRequest ==
    Struct(ApplicationConstructed(6), <<One(String), One(List(SequenceIdentifier, Change, "none"))>>, {}, "none")
AddRequest ==
    Struct(ApplicationConstructed(8), <<One(String), One(Attributes)>>, {}, "none")
ModifyDNRequest ==
    Struct(ApplicationConstructed(12),
           <<One(String), One(String), One(Leaf("boolean", BooleanIdentifier)),
             Option(Text(ContextPrimitive(0)))>>,
           {ContextPrimitive(0)}, "none")
CompareRequest ==
    Struct(ApplicationConstructed(14),
           <<One(String), One(AttributeValueAssertion(SequenceIdentifier))>>, {}, "none")

ExtendedRequest ==
    Struct(ApplicationConstructed(23),
           <<One(OID(ContextPrimitive(0))), Option(Octets(ContextPrimitive(1)))>>,
           {ContextPrimitive(0), ContextPrimitive(1)}, "none")
ExtendedResponse ==
    LDAPResult(ApplicationConstructed(24),
               <<Option(OID(ContextPrimitive(10))), Option(Octets(ContextPrimitive(11)))>>,
               {ContextPrimitive(10), ContextPrimitive(11)})
IntermediateResponse ==
    Struct(ApplicationConstructed(25),
           <<Option(OID(ContextPrimitive(0))), Option(Octets(ContextPrimitive(1)))>>,
           {ContextPrimitive(0), ContextPrimitive(1)}, "none")

UnbindRequest  == Leaf("null", ApplicationPrimitive(2))
DeleteRequest  == Text(ApplicationPrimitive(10))
AbandonRequest == Number(ApplicationPrimitive(16), "target")

\* The responses that are an LDAPResult and nothing else
SearchResultDone == LDAPResult(ApplicationConstructed(5), <<>>, {})
ModifyResponse   == LDAPResult(ApplicationConstructed(7), <<>>, {})
AddResponse      == LDAPResult(ApplicationConstructed(9), <<>>, {})
DeleteResponse   == LDAPResult(ApplicationConstructed(11), <<>>, {})
ModifyDNResponse == LDAPResult(ApplicationConstructed(13), <<>>, {})
CompareResponse  == LDAPResult(ApplicationConstructed(15), <<>>, {})

Operations ==
    {BindRequest, BindResponse, SearchRequest, SearchResultEntry, SearchResultReference,
     ModifyRequest, AddRequest, ModifyDNRequest, CompareRequest, ExtendedRequest,
     ExtendedResponse, IntermediateResponse, UnbindRequest, DeleteRequest, AbandonRequest,
     SearchResultDone, ModifyResponse, AddResponse, DeleteResponse, ModifyDNResponse,
     CompareResponse}

-----------------------------------------------------------------------------
(* Filters and authentication choices.  What is not known is preserved.    *)

And     == List(ContextConstructed(0), Choice("filter"), "some")
Or      == List(ContextConstructed(1), Choice("filter"), "some")
Not     == Closed(ContextConstructed(2), <<One(Choice("filter"))>>)
Present == Name(ContextPrimitive(7))

EqualityMatch    == AttributeValueAssertion(ContextConstructed(3))
GreaterOrEqual   == AttributeValueAssertion(ContextConstructed(5))
LessOrEqual      == AttributeValueAssertion(ContextConstructed(6))
ApproximateMatch == AttributeValueAssertion(ContextConstructed(8))

SubstringFilter ==
    Closed(ContextConstructed(4),
           <<One(Name(OctetStringIdentifier)),
             One(Struct(SequenceIdentifier,
                        <<Option(Octets(ContextPrimitive(0))), Many(Octets(ContextPrimitive(1))),
                          Option(Octets(ContextPrimitive(2)))>>,
                        {ContextPrimitive(0), ContextPrimitive(1), ContextPrimitive(2)}, "part"))>>)

ExtensibleMatch ==
    Struct(ContextConstructed(9),
           <<Option(Name(ContextPrimitive(1))), Option(Name(ContextPrimitive(2))),
             One(Octets(ContextPrimitive(3))), Flag(ContextPrimitive(4))>>,
           {ContextPrimitive(n) : n \in 1..4}, "match")

Filters ==
    {And, Or, Not, EqualityMatch, SubstringFilter, GreaterOrEqual, LessOrEqual, Present,
     ApproximateMatch, ExtensibleMatch}

SimpleAuthentication == Octets(ContextPrimitive(0))
SASLAuthentication ==
    Struct(ContextConstructed(3), <<One(Name(OctetStringIdentifier)), Option(Value)>>,
           {OctetStringIdentifier}, "none")

Authentications == {SimpleAuthentication, SASLAuthentication}

\* decodeFilter and decodeAuthentication
Alternative(name, id) ==
    LET known == {s \in (IF name = "filter" THEN Filters ELSE Authentications) : s.id = id}
    IN IF known # {} THEN CHOOSE s \in known : TRUE
       ELSE Leaf(IF id.class = 2 THEN "unknown" ELSE "wrong", id)

-----------------------------------------------------------------------------
(* What a field's contents must be *)

\* utf8.Valid, on bytes of which none starts a longer sequence
ValidUTF8(s) == \A i \in DOMAIN s : s[i] < 128

\* The parts of s between the bytes b
RECURSIVE Split(_, _)
Split(s, b) ==
    LET cut == CHOOSE i \in 1..(Len(s) + 1) :
                   (i = Len(s) + 1 \/ s[i] = b) /\ \A j \in 1..(i - 1) : s[j] # b
    IN IF cut > Len(s) THEN <<s>> ELSE <<SubSeq(s, 1, cut - 1)>> \o Split(Drop(s, cut), b)

\* validateLDAPOID: at least two arcs, digits with no leading zero
ValidateLDAPOID(s) ==
    LET arcs == Split(s, 46) IN
    /\ Len(arcs) > 1
    /\ \A k \in DOMAIN arcs :
          /\ arcs[k] # <<>>
          /\ \A i \in DOMAIN arcs[k] : arcs[k][i] \in 48..57
          /\ Len(arcs[k]) > 1 => arcs[k][1] # 48

InRange(v, range) ==
    CASE range = "int64"   -> TRUE
      [] range = "version" -> v \in 1..127
      [] range = "deref"   -> v \in 0..3
      [] range = "size"    -> v \in 0..MaxInt32
      [] range = "seconds" -> v \in -((MaxInt + 1) \div Second)..MaxInt32
      [] range = "target"  -> v \in 1..MaxMessageID

LeafError(s, v) ==
    CASE s.kind \in {"octets", "unknown"} -> "none"
      [] s.kind = "wrong"   -> "unexpected"
      [] s.kind = "text"    -> Unless(ValidUTF8(v), "text")
      [] s.kind = "name"    -> Unless(ValidUTF8(v) /\ v # <<>>, "text")
      [] s.kind = "oid"     -> Unless(ValidUTF8(v) /\ ValidateLDAPOID(v), "oid")
      [] s.kind = "boolean" -> Unless(v \in {<<0>>, <<255>>}, "boolean")
      [] s.kind = "null"    -> Unless(v = <<>>, "null")
      [] s.kind = "number"  -> LET i == DecodeInteger(v) IN
                               IF i.err # "none" THEN i.err ELSE Unless(InRange(i.value, s.rule), "range")

\* A time limit is a duration in the program and whole seconds in BER.
LeafValue(s, v) ==
    CASE s.kind = "boolean" -> v = <<255>>
      [] s.kind = "number"  -> DecodeInteger(v).value * (IF s.rule = "seconds" THEN Second ELSE 1)
      [] OTHER              -> v

LeafBytes(s, v) ==
    CASE s.kind = "boolean" -> IF v THEN <<255>> ELSE <<0>>
      [] s.kind = "number" /\ s.rule = "seconds" ->
            IntegerBytes(IF v < 0 THEN -((-v) \div Second) ELSE v \div Second)
      [] s.kind = "number" /\ s.rule # "seconds" -> IntegerBytes(v)
      [] OTHER -> v

\* AttributeDescription.Key: case, order and repetition of options do not
\* matter.
Key(d) ==
    LET lower == [i \in DOMAIN d |-> IF d[i] \in 65..90 THEN d[i] + 32 ELSE d[i]]
        parts == Split(lower, 59)
    IN <<Head(parts), {parts[i] : i \in 2..Len(parts)}>>

\* What a decoder checks once it has all the fields.  10 is ResultReferral.
Conforms(s, v) ==
    CASE s.rule = "some"      -> v # <<>>
      [] s.rule = "distinct"  -> \A i, j \in DOMAIN v :
                                    i # j => Key(v[i].fields[1]) # Key(v[j].fields[1])
      [] s.rule = "reference" -> v.fields[1] # <<>>
      [] s.rule = "referral"  -> (v.fields[1] = 10) = (v.fields[4] # <<>>)
      [] s.rule = "part"      -> \E k \in 1..3 : v.fields[k] # <<>>
      [] s.rule = "match"     -> \E k \in 1..2 : v.fields[k] # <<>>
      [] OTHER -> TRUE

-----------------------------------------------------------------------------
(* BERPacket *)

RECURSIVE PacketOf(_, _), FieldPackets(_, _)
PacketOf(s, v) ==
    CASE s.kind = "choice"  -> PacketOf(Alternative(s.rule, v[1]), v[2])
      [] s.kind = "unknown" -> Encoded(s.id, v)
      [] s.kind = "list"    -> Constructed(s.id, [k \in DOMAIN v |-> PacketOf(s.fields[1].schema, v[k])])
      [] s.kind \in {"struct", "closed"} ->
            Constructed(s.id, FieldPackets(s.fields, v.fields)
                                  \o [k \in DOMAIN v.extensions |-> Encoded(NoId, v.extensions[k])])
      [] OTHER -> Primitive(s.id, LeafBytes(s, v))
FieldPackets(fields, vs) ==
    IF fields = <<>> THEN <<>>
    ELSE LET f == Head(fields)
             v == Head(vs)
             p == CASE f.times = "one"  -> <<PacketOf(f.schema, v)>>
                    [] f.times = "flag" -> IF v THEN <<PacketOf(f.schema, v)>> ELSE <<>>
                    [] OTHER            -> [k \in DOMAIN v |-> PacketOf(f.schema, v[k])]
         IN p \o FieldPackets(Tail(fields), Tail(vs))

-----------------------------------------------------------------------------
(* UnmarshalBER, with ber.Decoder's first error *)

Decoded(err, value, rest, n) == [err |-> err, value |-> value, rest |-> rest, n |-> n]

NextIs(data, id) == data # <<>> /\ DecodeIdentifier(data).err = "none" /\ DecodeIdentifier(data).id = id

\* Mutant: the identifiers of known fields are not reserved.
ExtensionsUnreserved(data, known, depth, n) == SkipAll(data, depth, n, {})

\* Decoder.Extensions: a known field may not come again.
Extensions(data, known, depth, n) == SkipAll(data, depth, n, known)

\* The operators below are given what was read before them; an error of that
\* is theirs.
DecodeLeaf(s, e, data, n) ==
    IF e.err # "none" THEN Decoded(e.err, <<>>, data, n)
    ELSE IF LeafError(s, e.value) # "none" THEN Decoded(LeafError(s, e.value), <<>>, data, n)
    ELSE Decoded("none", LeafValue(s, e.value), e.rest, e.n)

Preserve(e) == Decoded(e.err, e.raw, e.rest, e.n)

Optional(d) == [d EXCEPT !.value = <<d.value>>]

Chosen(id, d) == IF d.err # "none" THEN d ELSE [d EXCEPT !.value = <<id, d.value>>]

Conforming(s, e, v, n) == Decoded(Unless(Conforms(s, v), "rule"), v, e.rest, n)

CloseList(s, e, all) ==
    IF all.err # "none" THEN all
    ELSE Conforming(s, e, all.value, all.n)

Extend(s, e, some, more) ==
    IF more.err # "none" THEN Decoded(more.err, <<>>, e.rest, more.n)
    ELSE Conforming(s, e, [fields |-> some.value, extensions |-> more.raws], more.n)

CloseStruct(s, e, depth, some) ==
    IF some.err # "none" THEN some
    ELSE IF s.kind = "closed"
    THEN Decoded(Unless(some.rest = <<>>, "trailing"),
                 [fields |-> some.value, extensions |-> <<>>], e.rest, some.n)
    ELSE Extend(s, e, some, Extensions(some.rest, s.known, depth, some.n))

Before(first, rest) ==
    IF rest.err # "none" THEN rest ELSE [rest EXCEPT !.value = <<first.value>> \o @]

RECURSIVE Decode(_, _, _, _), DecodeChoice(_, _, _, _, _), DecodeContents(_, _, _),
          DecodeMany(_, _, _, _, _), ManyMore(_, _, _, _),
          DecodeFields(_, _, _, _), DecodeField(_, _, _, _, _), MoreFields(_, _, _)
Decode(s, data, depth, n) ==
    CASE s.kind = "choice"  -> DecodeChoice(s.rule, DecodeIdentifier(data), data, depth, n)
      [] s.kind = "unknown" -> Preserve(SkipElement(data, depth, n))
      [] s.kind \in {"struct", "closed", "list"} ->
            DecodeContents(s, ReadConstructed(data, s.id, depth, n), depth + 1)
      [] OTHER -> DecodeLeaf(s, ReadPrimitive(data, s.id, n), data, n)

DecodeChoice(name, i, data, depth, n) ==
    IF i.err # "none" THEN Decoded(i.err, <<>>, data, n)
    ELSE Chosen(i.id, Decode(Alternative(name, i.id), data, depth, n))

DecodeContents(s, e, depth) ==
    IF e.err # "none" THEN Decoded(e.err, <<>>, e.rest, e.n)
    ELSE IF s.kind = "list"
    THEN CloseList(s, e, DecodeMany(s.fields[1].schema, e.value, depth, e.n, TRUE))
    ELSE CloseStruct(s, e, depth, DecodeFields(s.fields, e.value, depth, e.n))

\* Values of one schema: all there is (Decoder.All), or while the next one has
\* its identifier.
DecodeMany(s, data, depth, n, all) ==
    IF data = <<>> \/ (~all /\ ~NextIs(data, s.id)) THEN Decoded("none", <<>>, data, n)
    ELSE ManyMore(s, Decode(s, data, depth, n), depth, all)
ManyMore(s, d, depth, all) ==
    IF d.err # "none" THEN d ELSE Before(d, DecodeMany(s, d.rest, depth, d.n, all))

DecodeFields(fields, data, depth, n) ==
    IF fields = <<>> THEN Decoded("none", <<>>, data, n)
    ELSE MoreFields(fields, DecodeField(Head(fields), NextIs(data, Head(fields).schema.id), data, depth, n), depth)
MoreFields(fields, d, depth) ==
    IF d.err # "none" THEN d ELSE Before(d, DecodeFields(Tail(fields), d.rest, depth, d.n))
DecodeField(f, given, data, depth, n) ==
    CASE f.times = "many" -> DecodeMany(f.schema, data, depth, n, FALSE)
      [] f.times = "option" /\ given -> Optional(Decode(f.schema, data, depth, n))
      [] f.times = "one" \/ (f.times = "flag" /\ given) -> Decode(f.schema, data, depth, n)
      [] f.times = "option" /\ ~given -> Decoded("none", <<>>, data, n)
      [] f.times = "flag" /\ ~given -> Decoded("none", FALSE, data, n)

\* ResponsePattern.Decode, UnmarshalProtocol and decodeControls: a reader of
\* its own for each value, which must be all there is
RequireEmpty(d) ==
    IF d.err # "none" THEN Decoded(d.err, <<>>, d.rest, d.n)
    ELSE Decoded(Unless(d.rest = <<>>, "trailing"), d.value, <<>>, d.n)
Unmarshal(s, data) == RequireEmpty(Decode(s, data, 0, 0))

=============================================================================
