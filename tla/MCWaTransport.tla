--------------------------- MODULE MCWaTransport ----------------------------
\* Nodes that reach every size class, string form and JID form of the codec
\* with size bytes of four values, over frames of at most 63 bytes.
EXTENDS WaTransport, WaCodec

MCSingle == << <<20>>, <<21>>, <<24>>, <<25>>, <<26>>, <<30>>, <<40>>, <<41>> >>
MCDouble == << << <<50>>, <<51>> >>, << <<52>> >> >>

S(s) == [str |-> s]
Fill(n) == [bytes |-> [i \in 1 .. n |-> 60]]
Node(values, content) == [tag |-> <<40>>, attrs |-> [i \in DOMAIN values |-> [key |-> <<41>>, value |-> values[i]]], content |-> content]

\* An even and an odd number of half bytes, hexadecimal, too long to pack,
\* tokens of both tables, raw; what is left out or written as text.
Strings == Node(<<S(<<1, 2>>), S(<<1, 10, 11>>), S(<<1, 12, 17>>), S(<<1, 2, 3, 4>>), S(<<51>>), S(<<52>>), S(<<60>>)>>, None)
Scalars == Node(<<[int |-> 7], S(<<>>), [int |-> 42], None, [bool |-> TRUE], [bool |-> FALSE], [bytes |-> <<60>>]>>, S(<<40>>))
Jids == Node(<<Jid(<<1, 2>>, Pn, 0, 0, 0), Jid(<<1, 2>>, Pn, 0, 3, 0), Jid(<<60>>, Lid, 0, 0, 0), Jid(<<60>>, Lid, 0, 3, 0)>>, S(<<60>>))
FarJids == Node(<<Jid(<<1>>, Hosted, 2, 1, 0), Jid(<<1>>, HostedLid, 128, 1, 0), Jid(<<>>, <<26>>, 0, 0, 0),
                  Jid(<<1>>, Msgr, 0, 5, 0), Jid(<<1>>, Interop, 0, 5, 6)>>, [nodes |-> <<>>])
Nested == Node(<<>>, [nodes |-> <<Leaf(<<0>>), Node(<<S(<<51>>)>>, Fill(1)), Node(<<>>, [nodes |-> <<Leaf(<<60>>)>>])>>])
Crowd == Node(<<>>, [nodes |-> [i \in 1 .. 15 |-> Leaf(<<40>>)]])

MCNodes == {Strings, Scalars, Jids, FarJids, Nested, Crowd} \cup {Node(<<>>, Fill(n)) : n \in {0, 3, 4, 31, 32, 63}}

\* The codec, worked out once.
Encoded == [n \in MCNodes |-> Encode(n)]
Decoded == [d \in Range(Encoded) |-> Decode(d)]
MCEncode(n) == Encoded[n]
MCDecode(d) == IF d \in DOMAIN Decoded THEN Decoded[d] ELSE Decode(d)
=============================================================================
