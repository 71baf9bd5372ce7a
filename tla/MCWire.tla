------------------------------- MODULE MCWire -------------------------------
(***************************************************************************)
(* Requests around the limits of the encoding: lengths that need one, two  *)
(* and three octets, high tag numbers, IDs at both ends, controls that     *)
(* nest, and opaque packets that hold no element, two, or another one than *)
(* they declare.  Then every message type of rfc4511, with its optional    *)
(* fields and without, and messages another implementation may send: an    *)
(* explicit FALSE, unknown fields, a field that comes twice.               *)
(***************************************************************************)
EXTENDS Wire

Bytes(n)     == [k \in 1..n |-> k % 7]
App(n)       == Id(1, FALSE, n)
Op(tag, n)   == Primitive(App(tag), Bytes(n))
Plain(n)     == Sequence(<<Primitive(Id(0, FALSE, 4), Bytes(n))>>)
Nested(n)    == Sequence(<<Sequence(<<Sequence(<<Primitive(Id(0, FALSE, 4), Bytes(n))>>)>>)>>)
Request(id, protocol, controls) ==
    [id |-> id, protocol |-> protocol, controls |-> controls, values |-> <<>>]

Opaque ==
    {Op(tag, n) : tag \in {1, 30, 31, 127, 128, 255}, n \in {0, 1, 3}}
        \cup {Encoded(App(10), Encode(Op(10, 1))), Encoded(App(10), Encode(Op(11, 1))),
              Encoded(App(10), <<>>), Encoded(App(10), Encode(Op(10, 1)) \o Encode(Op(11, 0)))}
Long == {Op(10, n) : n \in {117, 122, 123, 127, 128, 131, 132}}
ControlLists ==
    {<<>>, <<Plain(0)>>, <<Plain(2), Plain(0)>>, <<Nested(1)>>,
     [k \in 1..7 |-> Plain(0)], [k \in 1..8 |-> Plain(0)],
     <<Sequence(<<Plain(0), Plain(0)>>)>>, <<Primitive(Id(0, FALSE, 4), <<>>)>>,
     <<Encoded(SequenceIdentifier, Encode(Plain(0)) \o Encode(Plain(1)))>>,
     <<Encoded(SequenceIdentifier, <<>>)>>}

\* Two opaque controls, of which one encodes two values and one none
Uneven == <<Encoded(SequenceIdentifier, Encode(Plain(0)) \o Encode(Plain(1))),
            Encoded(SequenceIdentifier, <<>>)>>

Single == {<<Request(1, p, c)>> : p \in Opaque, c \in ControlLists}
              \cup {<<Request(id, Op(30, 1), c)>> :
                       id \in {0, MaxMessageID, MaxMessageID + 1}, c \in ControlLists}
              \cup {<<Request(1, p, c)>> : p \in Long, c \in {<<>>, <<Plain(0)>>}}
Double == {<<Request(1, p, <<>>), Request(2, Op(1, 1), c)>> :
              p \in Opaque, c \in {<<>>, <<Plain(2), Plain(0)>>, <<Nested(1)>>}}

-----------------------------------------------------------------------------
(* Typed messages *)

a   == <<97>>            \* "a"
oid == <<49, 46, 50>>    \* "1.2"
S(fields) == [fields |-> fields, extensions |-> <<>>]
Alt(id, value) == <<id, value>>

Equal  == Alt(ContextConstructed(3), S(<<a, <<200>>>>))
Leaves == {Alt(ContextPrimitive(7), a), Equal, Alt(ContextConstructed(8), S(<<a, <<>>>>)),
           Alt(ContextConstructed(4), S(<<a, S(<<<<>>, <<<<1>>, <<>>>>, <<>>>>)>>)),
           Alt(ContextConstructed(4), S(<<a, S(<<<<<<0>>>>, <<>>, <<<<9>>>>>>)>>)),
           Alt(ContextConstructed(9), S(<<<<oid>>, <<>>, <<5>>, TRUE>>)),
           Alt(ContextConstructed(9), S(<<<<>>, <<a>>, <<>>, FALSE>>)),
           Alt(ContextPrimitive(20), Encode(Primitive(ContextPrimitive(20), <<1>>)))}
Nest(f) == {Alt(ContextConstructed(2), S(<<f>>)), Alt(ContextConstructed(0), <<f, Equal>>),
            Alt(ContextConstructed(1), <<f>>)}
Trees == Leaves \cup UNION {Nest(f) : f \in Leaves}
             \cup {Alt(ContextConstructed(2), S(<<Alt(ContextConstructed(1), <<Alt(ContextConstructed(0), <<Equal>>)>>)>>))}

Searches == {S(<<a, 2, 3, 100, -2 * Second, TRUE, f, <<a, <<>>>>>>) : f \in Trees}
                \cup {S(<<<<>>, 0, 0, MaxInt32, MaxInt32 * Second, FALSE, Equal, <<>>>>)}

Results(more) == {S(<<0, <<>>, a>> \o <<<<>>>> \o more), S(<<10, a, <<>>, <<<<a, a>>>>>> \o more)}
Entries       == {<<>>, <<S(<<a, <<>>>>)>>, <<S(<<a, <<<<200>>, <<>>>>>>), S(<<a \o <<59>> \o a, <<<<1>>>>>>)>>}

ValuesOf(s) ==
    CASE s = BindRequest           -> {S(<<3, a, Alt(ContextPrimitive(0), <<200>>)>>),
                                       S(<<127, <<>>, Alt(ContextConstructed(3), S(<<a, <<<<>>>>>>))>>),
                                       S(<<1, <<>>, Alt(ContextConstructed(3), S(<<a, <<>>>>))>>)}
      [] s = BindResponse          -> UNION {Results(<<v>>) : v \in {<<>>, <<<<7>>>>}}
      [] s = SearchRequest         -> Searches
      [] s = SearchResultEntry     -> {S(<<a, v>>) : v \in Entries}
      [] s = SearchResultReference -> {S(<<<<a>>>>), S(<<<<<<>>, a>>>>)}
      [] s = ModifyRequest         -> {S(<<a, <<>>>>), S(<<a, <<S(<<-1, S(<<a, <<a>>>>)>>), S(<<2, S(<<a, <<>>>>)>>)>>>>)}
      [] s = AddRequest            -> {S(<<<<>>, v>>) : v \in Entries}
      [] s = ModifyDNRequest       -> {S(<<a, a, TRUE, <<>>>>), S(<<a, <<>>, FALSE, <<<<>>>>>>)}
      [] s = CompareRequest        -> {S(<<a, S(<<a, <<200>>>>)>>)}
      [] s = ExtendedRequest       -> {S(<<oid, <<>>>>), S(<<oid, <<<<>>>>>>)}
      [] s = ExtendedResponse      -> Results(<<<<>>, <<>>>>) \cup Results(<<<<oid>>, <<<<1>>>>>>)
      [] s = IntermediateResponse  -> {S(<<<<>>, <<>>>>), S(<<<<oid>>, <<<<1>>>>>>)}
      [] s = UnbindRequest         -> {<<>>}
      [] s = DeleteRequest         -> {<<>>, a}
      [] s = AbandonRequest        -> {1, MaxMessageID}
      [] OTHER                     -> Results(<<>>)

Options == {S(<<oid, FALSE, <<>>>>), S(<<oid, TRUE, <<<<1>>>>>>)}

Typed ==
    UNION {{<<[id |-> 1, protocol |-> PacketOf(s, v), controls |-> <<PacketOf(Control, o)>>,
               values |-> <<<<s.id, v>>, <<Control.id, o>>>>]>> : v \in ValuesOf(s), o \in Options} : s \in Operations}

-----------------------------------------------------------------------------
(* What another implementation may send *)

Octet(v)   == Primitive(OctetStringIdentifier, v)
Wide       == Primitive(EnumeratedIdentifier, <<0, 0>>)
Result     == <<Wide, Octet(<<>>), Octet(<<>>)>>
Referrals  == Constructed(ContextConstructed(3), <<Octet(a)>>)
Trailing   == {<<>>, <<Primitive(ContextPrimitive(9), <<1>>)>>, <<Primitive(BooleanIdentifier, <<0>>)>>,
               <<Octet(<<>>)>>, <<Primitive(ContextPrimitive(1), <<>>)>>, <<Referrals>>}

Foreign ==
    {Constructed(ApplicationConstructed(n), Result \o t) : n \in {1, 5, 24}, t \in Trailing}
        \cup {Constructed(ApplicationConstructed(19), <<Octet(a)>> \o t \o t) : t \in Trailing}
        \cup {Constructed(ApplicationConstructed(25), t \o t) : t \in Trailing}
        \cup {Constructed(ApplicationConstructed(4),
                 <<Octet(a), Sequence([k \in DOMAIN names |-> Sequence(<<Octet(names[k]), Constructed(SetIdentifier, <<>>)>>)])>>) :
                 names \in {<<a, <<65>>>>, <<a, <<98>>>>, <<<<97, 59, 98, 59, 99>>, <<65, 59, 99, 59, 98>>>>}}
Hinted ==
    {Sequence(<<Octet(oid)>> \o f \o t) : f \in {<<>>, <<Primitive(BooleanIdentifier, <<0>>)>>}, t \in Trailing}

Received ==
    {<<Request(1, p, <<>>)>> : p \in Foreign}
        \cup {<<Request(1, Constructed(ApplicationConstructed(5), Result), <<c>>)>> : c \in Hinted}

EvenRequests   == Single \cup Double \cup Typed \cup Received
UnevenRequests == {<<Request(1, Op(1, 1), Uneven)>>}
LongRequests   == {<<Request(1, Op(1, n), <<>>)>> : n \in {501, 504}}

=============================================================================
