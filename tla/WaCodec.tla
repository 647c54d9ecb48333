------------------------------ MODULE WaCodec -------------------------------
(***************************************************************************)
(* WhatsApp's binary XML (wabinary/): encode_node, decode_node, and what a *)
(* node is expected to be after both (Normal).                             *)
(*                                                                         *)
(* A byte is a number.  A string is a sequence of characters, a character  *)
(* a number: 0-9 digits, 10 and 11 '-' and '.', 12-17 'A' to 'F', others   *)
(* above; outside packed strings it stands for its UTF-8 bytes.  A value   *)
(* is a record whose field names its Python type.  Sizes are written in    *)
(* bytes of U8 values (256 in the code), half bytes of U4 (16), so that a  *)
(* small instance crosses every size class.                                *)
(***************************************************************************)
EXTENDS Integers, Sequences, SequencesExt, FiniteSetsExt

CONSTANTS
  U8, U4,                     \* values of a size byte and of half of one
  PackedMax,                  \* characters of a packed string at most
  SingleByte, DoubleByte      \* the token tables: strings, and dictionaries of them

ASSUME CodecAssumption ==
  /\ U8 \in Nat /\ U4 \in 1 .. U8 /\ PackedMax \in 1 .. 127
  /\ \A d \in DOMAIN DoubleByte : Range(DoubleByte[d]) \cap Range(SingleByte) = {}

\* tokens.py
LIST_EMPTY == 0
DICTIONARY_0 == 236
INTEROP_JID == 245
FB_JID == 246
AD_JID == 247
LIST_8 == 248
LIST_16 == 249
JID_PAIR == 250
HEX_8 == 251
BINARY_8 == 252
BINARY_20 == 253
BINARY_32 == 254
NIBBLE_8 == 255

\* Servers of a JID, each a string of one character.
Pn == <<20>>
Lid == <<21>>
Hosted == <<22>>
HostedLid == <<23>>
Msgr == <<24>>
Interop == <<25>>
TrueText == <<30>>
FalseText == <<31>>

None == [none |-> 0]
Is(v, type) == type \in DOMAIN v

(***************************************************************************)
(* Encoder.                                                                *)
(***************************************************************************)
Uint16(n) == <<(n \div U8) % U8, n % U8>>
Uint20(n) == <<(n \div (U8 * U8)) % U4>> \o Uint16(n)
Uint32(n) == Uint16(n \div (U8 * U8)) \o Uint16(n)

ListStart(n) ==
  IF n = 0 THEN <<LIST_EMPTY>>
  ELSE IF n < U8 THEN <<LIST_8, n>>
  ELSE <<LIST_16>> \o Uint16(n)

ByteLength(n) ==
  IF n < U8 THEN <<BINARY_8, n>>
  ELSE IF n < U4 * U8 * U8 THEN <<BINARY_20>> \o Uint20(n)
  ELSE <<BINARY_32>> \o Uint32(n)

Raw(data) == ByteLength(Len(data)) \o data

ValidNibble(s) == Len(s) \in 1 .. PackedMax /\ \A i \in DOMAIN s : s[i] \in 0 .. 11
ValidHex(s)    == Len(s) \in 1 .. PackedMax /\ \A i \in DOMAIN s : s[i] \in 0 .. 9 \cup 12 .. 17

\* The half byte of a character: '-' and '.' follow the digits, or A to F do.
HalfByte(c, tag) == IF tag = HEX_8 /\ c > 9 THEN c - 2 ELSE c

NoOddFlag(s) == (Len(s) + 1) \div 2   \* mutant
PackedHeader(s) == (Len(s) + 1) \div 2 + (IF Len(s) % 2 = 1 THEN 128 ELSE 0)

\* Two characters to a byte; the odd one is followed by 15.
Packed(s, tag) ==
  LET at(i) == IF i <= Len(s) THEN HalfByte(s[i], tag) ELSE 15
  IN  <<tag, PackedHeader(s)>> \o [i \in 1 .. (Len(s) + 1) \div 2 |-> 16 * at(2 * i - 1) + at(2 * i)]

WriteString(s) ==
  IF s \in Range(SingleByte) THEN <<CHOOSE i \in DOMAIN SingleByte : SingleByte[i] = s>>
  ELSE IF \E d \in DOMAIN DoubleByte : s \in Range(DoubleByte[d])
    THEN LET d == CHOOSE d \in DOMAIN DoubleByte : s \in Range(DoubleByte[d])
         IN  <<DICTIONARY_0 + d - 1, (CHOOSE i \in DOMAIN DoubleByte[d] : DoubleByte[d][i] = s) - 1>>
  ELSE IF ValidNibble(s) THEN Packed(s, NIBBLE_8)
  ELSE IF ValidHex(s) THEN Packed(s, HEX_8)
  ELSE Raw(s)

IsAd(j) == (j.server \in {Pn, Lid} /\ j.device > 0) \/ j.server \in {Hosted, HostedLid}
ActualAgent(j) == IF j.agent # 0 THEN j.agent ELSE IF j.server = Lid THEN 1 ELSE 0

WriteJid(j) ==
  IF IsAd(j) THEN <<AD_JID, ActualAgent(j) % 256, j.device % 256>> \o WriteString(j.user)
  ELSE IF j.server = Msgr THEN <<FB_JID>> \o WriteString(j.user) \o Uint16(j.device) \o WriteString(j.server)
  ELSE IF j.server = Interop
    THEN <<INTEROP_JID>> \o WriteString(j.user) \o Uint16(j.device) \o Uint16(j.integrator) \o WriteString(j.server)
  ELSE <<JID_PAIR>> \o (IF j.user = <<>> THEN <<LIST_EMPTY>> ELSE WriteString(j.user)) \o WriteString(j.server)

Decimal(n) == IF n < 10 THEN <<n>> ELSE <<n \div 10, n % 10>>   \* str(n), n < 100

\* The string a scalar is written as.
Text(v) ==
  IF Is(v, "str") THEN v.str
  ELSE IF Is(v, "bool") THEN (IF v.bool THEN TrueText ELSE FalseText)
  ELSE Decimal(v.int)

\* _count_attrs and _write_attrs leave out the same attributes.
Absent(v) == v = None \/ v = [str |-> <<>>]
Written(attrs) == SelectSeq(attrs, LAMBDA a : ~Absent(a.value))

RECURSIVE WriteNode(_)
WriteAny(v) ==
  IF v = None THEN <<LIST_EMPTY>>
  ELSE IF Is(v, "user") THEN WriteJid(v)
  ELSE IF Is(v, "bytes") THEN Raw(v.bytes)
  ELSE IF Is(v, "nodes") THEN ListStart(Len(v.nodes)) \o FlattenSeq([i \in DOMAIN v.nodes |-> WriteNode(v.nodes[i])])
  ELSE WriteString(Text(v))

WriteNode(n) ==
  IF n.tag = <<0>> THEN <<LIST_8, LIST_EMPTY>>
  ELSE LET attrs == Written(n.attrs) IN
       ListStart(2 * Len(attrs) + 1 + (IF n.content # None THEN 1 ELSE 0))
         \o WriteString(n.tag)
         \o FlattenSeq([i \in DOMAIN attrs |-> WriteString(attrs[i].key) \o WriteAny(attrs[i].value)])
         \o (IF n.content # None THEN WriteAny(n.content) ELSE <<>>)

Encode(n) == <<0>> \o WriteNode(n)   \* the flag of an uncompressed stream

(***************************************************************************)
(* Decoder.  A reading is a value and the position after it, 0 where the   *)
(* code raises; Then(r, F) reads on with F unless r has raised.             *)
(***************************************************************************)
Raised == [v |-> None, p |-> 0]
Reading(v, p) == [v |-> v, p |-> p]
Then(r, F(_, _)) == CHOOSE x \in {IF s.p = 0 THEN Raised ELSE F(s.v, s.p) : s \in {r}} : TRUE

Byte(d, p) == IF p <= Len(d) THEN d[p] ELSE -1
ReadByte(d, p) == IF p <= Len(d) THEN Reading(d[p], p + 1) ELSE Raised
\* Slices past the end are shorter and do not raise.
Slice(d, p, n) == SubSeq(d, p, IF p + n - 1 <= Len(d) THEN p + n - 1 ELSE Len(d))

\* read_u20_be masks the first of its three bytes.
Number(digits, masked) == FoldLeft(LAMBDA n, b : n * U8 + b, 0, IF masked THEN [digits EXCEPT ![1] = @ % U4] ELSE digits)
ReadSize(d, p, width) == Reading(Number(Slice(d, p, width), width = 3), p + width)

ListSize(d, p) ==
  CASE Byte(d, p) = LIST_EMPTY -> Reading(0, p + 1)
    [] Byte(d, p) = LIST_8 -> ReadByte(d, p + 1)
    [] Byte(d, p) = LIST_16 -> ReadSize(d, p + 1, 2)
    [] OTHER -> Raised

ReadRaw(d, p, width, asString) ==
  Then(ReadSize(d, p, width), LAMBDA n, q :
    Reading(IF asString THEN [str |-> Slice(d, q, n)] ELSE [bytes |-> Slice(d, q, n)], q + n))

CharOf(v, tag) == IF tag = HEX_8 /\ v > 9 THEN v + 2 ELSE v

\* _read_packed: with the odd flag the last half byte is dropped.
ReadPacked(d, p, tag) ==
  Then(ReadByte(d, p), LAMBDA h, q :
    LET half(i) == IF i % 2 = 1 THEN d[q + i \div 2] \div 16 ELSE d[q + i \div 2 - 1] % 16
    IN  IF q + (h % 128) - 1 > Len(d) THEN Raised
        ELSE Reading([str |-> [i \in 1 .. 2 * (h % 128) - (h \div 128) |-> CharOf(half(i), tag)]], q + (h % 128)))

\* The server of an AD_JID is read off its agent.
AgentServer(agent) ==
  IF agent = 0 THEN Pn ELSE IF agent = 1 THEN Lid ELSE IF agent < 128 THEN Hosted ELSE HostedLid

Jid(user, server, agent, device, integrator) ==
  [user |-> user, server |-> server, agent |-> agent, device |-> device, integrator |-> integrator]

RECURSIVE ReadValue(_, _, _)
ReadString(d, p) == Then(ReadValue(d, p, TRUE), LAMBDA v, q : IF Is(v, "str") THEN Reading(v.str, q) ELSE Raised)

ReadJidPair(d, p) ==
  Then(IF Byte(d, p) = LIST_EMPTY THEN Reading(<<>>, p + 1) ELSE ReadString(d, p), LAMBDA user, q :
    Then(ReadString(d, q), LAMBDA server, r : Reading(Jid(user, server, 0, 0, 0), r)))

ReadAdJid(d, p) ==
  Then(ReadByte(d, p), LAMBDA agent, q :
    Then(ReadByte(d, q), LAMBDA device, r :
      Then(ReadString(d, r), LAMBDA user, t : Reading(Jid(user, AgentServer(agent), agent, device, 0), t))))

ReadFbJid(d, p) ==
  Then(ReadString(d, p), LAMBDA user, q :
    Then(ReadSize(d, q, 2), LAMBDA device, r :
      Then(ReadString(d, r), LAMBDA server, t : Reading(Jid(user, server, 0, device, 0), t))))

ReadInteropJid(d, p) ==
  Then(ReadString(d, p), LAMBDA user, q :
    Then(ReadSize(d, q, 2), LAMBDA device, r :
      Then(ReadSize(d, r, 2), LAMBDA integrator, t :
        Then(ReadString(d, t), LAMBDA server, u : Reading(Jid(user, server, 0, device, integrator), u)))))

RECURSIVE ReadNode(_, _)
RECURSIVE ReadNodes(_, _, _)
ReadNodes(d, p, n) ==
  IF n = 0 THEN Reading(<<>>, p)
  ELSE Then(ReadNode(d, p), LAMBDA first, q :
         Then(ReadNodes(d, q, n - 1), LAMBDA rest, r : Reading(<<first>> \o rest, r)))

ReadValue(d, p, asString) ==
  LET tag == Byte(d, p) IN
  CASE tag \in DOMAIN SingleByte -> Reading([str |-> SingleByte[tag]], p + 1)
    [] tag = LIST_EMPTY -> Reading([str |-> <<>>], p + 1)
    [] tag - DICTIONARY_0 \in 0 .. Len(DoubleByte) - 1 ->
         Then(ReadByte(d, p + 1), LAMBDA i, q : Reading([str |-> DoubleByte[tag - DICTIONARY_0 + 1][i + 1]], q))
    [] tag = JID_PAIR -> ReadJidPair(d, p + 1)
    [] tag = AD_JID -> ReadAdJid(d, p + 1)
    [] tag = FB_JID -> ReadFbJid(d, p + 1)
    [] tag = INTEROP_JID -> ReadInteropJid(d, p + 1)
    [] tag \in {NIBBLE_8, HEX_8} -> ReadPacked(d, p + 1, tag)
    [] tag = BINARY_8 -> ReadRaw(d, p + 1, 1, asString)
    [] tag = BINARY_20 -> ReadRaw(d, p + 1, 3, asString)
    [] tag = BINARY_32 -> ReadRaw(d, p + 1, 4, asString)
    [] tag \in {LIST_8, LIST_16} ->
         Then(ListSize(d, p), LAMBDA n, q : Then(ReadNodes(d, q, n), LAMBDA ns, r : Reading([nodes |-> ns], r)))
    [] OTHER -> Raised

RECURSIVE ReadAttrs(_, _, _)
ReadAttrs(d, p, n) ==
  IF n = 0 THEN Reading(<<>>, p)
  ELSE Then(ReadString(d, p), LAMBDA key, q :
         Then(ReadValue(d, q, TRUE), LAMBDA value, r :
           Then(ReadAttrs(d, r, n - 1), LAMBDA rest, t : Reading(<<[key |-> key, value |-> value]>> \o rest, t))))

Leaf(tag) == [tag |-> tag, attrs |-> <<>>, content |-> None]

\* _read_node_in_list; _read_node returns no node for an empty list.
ReadNode(d, p) ==
  Then(ListSize(d, p), LAMBDA size, q :
    IF size = 0 THEN Reading(Leaf(<<>>), q)
    ELSE Then(ReadString(d, q), LAMBDA tag, r :
      Then(ReadAttrs(d, r, (size - 1) \div 2), LAMBDA attrs, t :
        Then(IF size % 2 = 0 THEN ReadValue(d, t, FALSE) ELSE Reading(None, t), LAMBDA content, u :
          Reading([tag |-> tag, attrs |-> attrs, content |-> content], u)))))

Unreadable == [unreadable |-> 0]

\* A compressed stream, which only the server sends, is decompressed first.
Decode(data) ==
  LET n == Then(ReadNode(data, 2), LAMBDA node, p :
             IF data[1] = 0 /\ p = Len(data) + 1 /\ ListSize(data, 2).v # 0 THEN Reading(node, p) ELSE Raised)
  IN  IF n = Raised THEN Unreadable ELSE n.v

(***************************************************************************)
(* What arrives of a node: the reference the codec is compared with.       *)
(***************************************************************************)
\* Hosted JIDs must carry an agent, and a device is below 256.
NormalJid(j) ==
  IF j.server = Msgr THEN [j EXCEPT !.agent = 0, !.integrator = 0]
  ELSE IF j.server = Interop THEN [j EXCEPT !.agent = 0]
  ELSE IF (j.server \in {Pn, Lid} /\ j.device = 0) \/ j.server \notin {Pn, Lid, Hosted, HostedLid}
    THEN Jid(j.user, j.server, 0, 0, 0)
  ELSE Jid(j.user, AgentServer(ActualAgent(j)), ActualAgent(j), j.device, 0)

\* As an attribute everything but a JID is text.
NormalAttr(v) ==
  IF Is(v, "user") THEN NormalJid(v)
  ELSE IF Is(v, "bytes") THEN [str |-> v.bytes]
  ELSE [str |-> Text(v)]

\* Text that has no shorter form arrives as bytes when it is the content.
Shortened(s) ==
  s \in Range(SingleByte) \/ (\E d \in DOMAIN DoubleByte : s \in Range(DoubleByte[d])) \/ ValidNibble(s) \/ ValidHex(s)

RECURSIVE Normal(_)
NormalContent(v) ==
  IF v = None \/ Is(v, "bytes") THEN v
  ELSE IF Is(v, "user") THEN NormalJid(v)
  ELSE IF Is(v, "nodes")
    THEN IF v.nodes = <<>> THEN [str |-> <<>>] ELSE [nodes |-> [i \in DOMAIN v.nodes |-> Normal(v.nodes[i])]]
  ELSE IF Shortened(Text(v)) THEN [str |-> Text(v)] ELSE [bytes |-> Text(v)]

\* A child whose tag is "0" is the placeholder for no node.
Normal(n) ==
  IF n.tag = <<0>> THEN Leaf(<<>>)
  ELSE [tag |-> n.tag,
        attrs |-> LET attrs == Written(n.attrs) IN [i \in DOMAIN attrs |-> [key |-> attrs[i].key, value |-> NormalAttr(attrs[i].value)]],
        content |-> NormalContent(n.content)]
=============================================================================
