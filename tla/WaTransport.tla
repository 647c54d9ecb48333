---------------------------- MODULE WaTransport -----------------------------
(***************************************************************************)
(* One connection to the WhatsApp server: the Noise XX handshake           *)
(* (handshake.py, NoiseHandshake), the frames of framesocket.py, cut by    *)
(* the network wherever it likes, and the counters of NoiseSocket.         *)
(*                                                                         *)
(* A byte of a stream is a number.  A sealed payload is the payload behind *)
(* one number that stands for its key and nonce.  A handshake message is   *)
(* one byte, a frame's fields are in offer and finish.  What the code      *)
(* above sends goes through encode_node and decode_node (WaCodec).       *)
(***************************************************************************)
EXTENDS Naturals, Sequences

CONSTANTS
  Nodes,                               \* what is sent, either way
  encode_node(_), decode_node(_), Arrives(_), Unread,  \* the codec, and what a frame it refuses gives
  LenRadix,                            \* values of a length byte: 256
  Chunks,                              \* bound: bytes of a WebSocket message that is not all there is
  MaxSends                             \* bound on the nodes sent, both ways together

ASSUME TransportAssumption == LenRadix \in Nat \ {0, 1} /\ Chunks \subseteq Nat \ {0} /\ MaxSends \in Nat

FRAME_LEN_BYTES == 3
FRAME_MAX_SIZE  == LenRadix * LenRadix * LenRadix
WA_HEADER == <<800, 801, 802, 803>>
Hello == <<900>>
Answer == <<901>>
Finish == <<902>>

VARIABLES
  stage,      \* client: "connected", "hello", "open", "failed"
  peer,       \* server: "wait", "answered", "open", "refused"
  offer,      \* fields of ServerHello
  finish,     \* boxes of ClientFinish
  keys,       \* the client's traffic keys
  headerSent, wctr, rctr,   \* FrameSocket._header_sent, the counters of NoiseSocket
  up,         \* bytes the client has written
  down,       \* bytes on their way to the client
  pctr,       \* counter of the server's frames
  buf, queue, \* FrameParser._buf, FrameSocket._incoming
  socket,     \* "up" or "down"
  upSent, downSent, \* history: nodes sent
  handled,    \* the nodes handed to the code above
  intact      \* history: how many of upSent came before a frame too large

handshakeVars == <<stage, peer, offer, finish, keys>>
outVars == <<headerSent, wctr, up, upSent, intact>>
inVars  == <<down, pctr, buf, queue, rctr, handled, downSent>>
transportVars == <<handshakeVars, outVars, inVars, socket>>

(***************************************************************************)
(* NoiseHandshake, symbolically.  Both keys of a mix_into_key follow from  *)
(* what was mixed so far, so salt stands for the chaining value and for    *)
(* the cipher; a box can be opened by who has the same state.              *)
(***************************************************************************)
Start == [hash |-> <<"pattern", "header">>, salt |-> <<>>, ctr |-> 0]
authenticate(nh, data) == [nh EXCEPT !.hash = Append(@, data)]
mix_shared_secret(nh, a, b) == [nh EXCEPT !.salt = Append(@, {a, b}), !.ctr = 0]
crypt(nh, box) == authenticate([nh EXCEPT !.ctr = @ + 1], box.body)
Box(nh, body) == [with |-> nh, body |-> body]
Unboxes(nh, box) == box.with = nh
finished(nh) == [write |-> <<nh.salt, "write">>, read |-> <<nh.salt, "read">>]

\* Noise XX as the server follows it, token by token: e / e ee s es and the
\* certificate / s se and the payload.
XX == << [hash |-> "ce"],
         [hash |-> "se"], [mix |-> <<"ce", "se">>], [box |-> "ss"], [mix |-> <<"ce", "ss">>], [box |-> "cert"],
         [box |-> "cs"], [mix |-> <<"cs", "se">>], [box |-> "payload"] >>
Follow(nh, token) ==
  IF "hash" \in DOMAIN token THEN authenticate(nh, token.hash)
  ELSE IF "mix" \in DOMAIN token THEN mix_shared_secret(nh, token.mix[1], token.mix[2])
  ELSE crypt(nh, Box(nh, token.box))
At[i \in 1 .. Len(XX) + 1] == IF i = 1 THEN Start ELSE Follow(At[i - 1], XX[i - 1])   \* before token i
PeerBox(i) == Box(At[i], XX[i].box)
PeerKeys == LET k == finished(At[Len(XX) + 1]) IN [write |-> k.read, read |-> k.write]

NoOffer == [eph |-> "none", static |-> PeerBox(4), cert |-> PeerBox(6), chain |-> "good"]
NoFinish == <<>>
NoKeys == [write |-> <<>>, read |-> <<>>]

TransportInit ==
  /\ stage = "connected" /\ peer = "wait" /\ offer = NoOffer /\ finish = NoFinish /\ keys = NoKeys
  /\ headerSent = FALSE /\ wctr = 0 /\ rctr = 0 /\ up = <<>> /\ upSent = <<>> /\ intact = 0
  /\ down = <<>> /\ pctr = 0 /\ buf = <<>> /\ queue = <<>> /\ handled = <<>> /\ downSent = <<>>
  /\ socket = "up"

(***************************************************************************)
(* Frames.                                                                 *)
(***************************************************************************)
LengthBytes(n) == <<(n \div (LenRadix * LenRadix)) % LenRadix, (n \div LenRadix) % LenRadix, n % LenRadix>>
LengthAt(s) == s[1] * LenRadix * LenRadix + s[2] * LenRadix + s[3]

TooLarge(payload) == Len(payload) >= FRAME_MAX_SIZE   \* encode_frame raises
encode_frame(payload) == LengthBytes(Len(payload)) \o payload

\* The first frame of a buffer, if all of it is there, and what follows it.
FrameEnd(s) == FRAME_LEN_BYTES + LengthAt(s)
HasFrame(s) == Len(s) >= FRAME_LEN_BYTES /\ Len(s) >= FrameEnd(s)
FrameOf(s) == SubSeq(s, FRAME_LEN_BYTES + 1, FrameEnd(s))
AfterFrame(s) == SubSeq(s, FrameEnd(s) + 1, Len(s))

\* The complete frames at the start of a buffer, and what is left in it.
feed[s \in Seq(Nat)] ==
  IF HasFrame(s)
    THEN LET more == feed[AfterFrame(s)]
         IN  [frames |-> <<FrameOf(s)>> \o more.frames, rest |-> more.rest]
    ELSE [frames |-> <<>>, rest |-> s]

\* AES-GCM: which key, which nonce.
KeyNo(key) == IF key = PeerKeys.read THEN 1000 ELSE IF key = PeerKeys.write THEN 2000 ELSE 3000
Sealed(key, ctr, payload) == <<KeyNo(key) + ctr>> \o payload

\* FrameSocket.send: the header goes before the first frame.
Prefixed(payload) == IF headerSent THEN encode_frame(payload) ELSE WA_HEADER \o encode_frame(payload)
Send(payload) == up' = up \o Prefixed(payload) /\ headerSent' = TRUE

(***************************************************************************)
(* The handshake.                                                          *)
(***************************************************************************)
SendHello ==
  /\ socket = "up" /\ stage = "connected" /\ stage' = "hello"
  /\ Send(Hello)
  /\ UNCHANGED <<peer, offer, finish, keys, wctr, upSent, intact, inVars, socket>>

PeerReads == IF Len(up) < Len(WA_HEADER) THEN <<>> ELSE feed[SubSeq(up, Len(WA_HEADER) + 1, Len(up))].frames

\* The server answers, perhaps with a field missing or cut short, or with a
\* certificate that is not the one of the key it shows.
PeerAnswers ==
  /\ socket = "up" /\ peer = "wait" /\ PeerReads # <<>> /\ PeerReads[1] = Hello
  /\ \E eph \in {"se", "none", "short"}, chain \in {"good", "unsigned", "other key"} :
       offer' = [NoOffer EXCEPT !.eph = eph, !.chain = chain]
  /\ peer' = "answered" /\ down' = down \o encode_frame(Answer)
  /\ UNCHANGED <<stage, finish, keys, outVars, pctr, buf, queue, rctr, handled, downSent, socket>>

ClientHello == authenticate(Start, "ce")
AfterEphemeral == mix_shared_secret(authenticate(ClientHello, "se"), "ce", "se")
AfterStatic == mix_shared_secret(crypt(AfterEphemeral, offer.static), "ce", offer.static.body)
AfterCert == crypt(AfterStatic, offer.cert)
StaticBox == Box(AfterCert, "cs")
EarlySecret == crypt(mix_shared_secret(AfterCert, "cs", "se"), StaticBox)   \* mutant: se before the static key
AfterOwnStatic == mix_shared_secret(crypt(AfterCert, StaticBox), "cs", "se")
PayloadBox == Box(AfterOwnStatic, "payload")

\* do_handshake raises, and the connection is closed, when the answer is
\* not the one it verifies.
Verified ==
  /\ offer.eph = "se" /\ Unboxes(AfterEphemeral, offer.static)
  /\ Unboxes(AfterStatic, offer.cert) /\ offer.chain = "good"

EndHandshake ==
  /\ socket = "up" /\ stage = "hello" /\ queue # <<>> /\ Verified
  /\ queue' = Tail(queue) /\ Send(Finish)
  /\ finish' = <<StaticBox, PayloadBox>> /\ keys' = finished(crypt(AfterOwnStatic, PayloadBox))
  /\ stage' = "open"
  /\ UNCHANGED <<peer, offer, wctr, upSent, intact, down, pctr, buf, rctr, handled, downSent, socket>>

\* Refused, or no answer within 20 s, or the connection is gone.
FailHandshake ==
  /\ stage = "hello" /\ (queue # <<>> /\ socket = "up" => ~Verified)
  /\ stage' = "failed" /\ socket' = "down" /\ queue' = <<>>
  /\ UNCHANGED <<peer, offer, finish, keys, outVars, down, pctr, buf, rctr, handled, downSent>>

PeerOpens ==
  /\ socket = "up" /\ peer = "answered" /\ Len(PeerReads) >= 2 /\ PeerReads[2] = Finish
  /\ peer' = IF finish = <<PeerBox(7), PeerBox(9)>> THEN "open" ELSE "refused"
  /\ UNCHANGED <<stage, offer, finish, keys, outVars, inVars, socket>>

(***************************************************************************)
(* Traffic.                                                                *)
(***************************************************************************)
Sends == Len(upSent) + Len(downSent)

\* InboundSession.send_node: nothing is awaited between encrypt_frame, which
\* moves the counter, and the write.  A frame too large raises in between.
SendNode(n) ==
  LET payload == Sealed(keys.write, wctr, encode_node(n)) IN
  /\ socket = "up" /\ stage = "open" /\ Sends < MaxSends
  /\ wctr' = wctr + 1 /\ upSent' = Append(upSent, n)
  /\ IF TooLarge(payload) THEN UNCHANGED <<up, headerSent, intact>>
     ELSE /\ Send(payload)
          /\ intact' = IF intact = Len(upSent) THEN intact + 1 ELSE intact
  /\ UNCHANGED <<handshakeVars, inVars, socket>>

PeerSends(n) ==
  LET payload == Sealed(PeerKeys.write, pctr, encode_node(n)) IN
  /\ socket = "up" /\ peer = "open" /\ Sends < MaxSends /\ ~TooLarge(payload)
  /\ down' = down \o encode_frame(payload) /\ pctr' = pctr + 1 /\ downSent' = Append(downSent, n)
  /\ UNCHANGED <<handshakeVars, outVars, buf, queue, rctr, handled, socket>>

\* _read_pump: a WebSocket message ends anywhere.
ReadPump(k) ==
  /\ socket = "up" /\ down # <<>> /\ k <= Len(down)
  /\ LET r == feed[buf \o SubSeq(down, 1, k)] IN queue' = queue \o r.frames /\ buf' = r.rest
  /\ down' = SubSeq(down, k + 1, Len(down))
  /\ UNCHANGED <<handshakeVars, outVars, pctr, rctr, handled, downSent, socket>>

\* _read_loop: a frame that cannot be decrypted leaves the counter, one that
\* cannot be decoded does not; both are logged and left.
decrypt_frame(ct) == ct[1] = KeyNo(keys.read) + rctr
Read ==
  /\ stage = "open" /\ queue # <<>> /\ queue' = Tail(queue)
  /\ IF decrypt_frame(Head(queue))
       THEN LET n == decode_node(Tail(Head(queue)))
            IN  rctr' = rctr + 1 /\ handled' = IF n = Unread THEN handled ELSE Append(handled, n)
       ELSE UNCHANGED <<rctr, handled>>
  /\ UNCHANGED <<handshakeVars, outVars, down, pctr, buf, downSent, socket>>

\* Frames read before it stay in the queue, before the sentinel.
Disconnect ==
  /\ socket = "up" /\ socket' = "down"
  /\ UNCHANGED <<handshakeVars, outVars, inVars>>

TransportNext ==
  \/ SendHello \/ PeerAnswers \/ EndHandshake \/ FailHandshake \/ PeerOpens
  \/ (\E n \in Nodes : SendNode(n) \/ PeerSends(n))
  \/ (\E k \in Chunks \cup {Len(down)} : ReadPump(k))
  \/ Read \/ Disconnect

\* The network delivers, and the two loops of the client run.
TransportFairness == WF_transportVars(\E k \in Chunks \cup {Len(down)} : ReadPump(k)) /\ WF_transportVars(Read)
TransportSpec == TransportInit /\ [][TransportNext]_transportVars /\ TransportFairness

(***************************************************************************)
(* Properties.                                                             *)
(***************************************************************************)
TransportTypeOK ==
  /\ stage \in {"connected", "hello", "open", "failed"} /\ peer \in {"wait", "answered", "open", "refused"}
  /\ headerSent \in BOOLEAN /\ socket \in {"up", "down"}
  /\ wctr \in Nat /\ rctr \in Nat /\ pctr \in Nat /\ intact \in 0 .. Len(upSent)
  /\ \A s \in {up, down, buf} : \A i \in DOMAIN s : s[i] \in Nat
  /\ \A i \in DOMAIN queue : Len(queue[i]) < FRAME_MAX_SIZE

\* What the server can read of the client's bytes, counting the frames of
\* its own: every node that was sent, in its order, up to a frame too large,
\* whose nonce is used up and never sent; after a handshake the server has
\* not refused.
Opened(frames) == [i \in DOMAIN frames |-> IF Head(frames[i]) = KeyNo(PeerKeys.read) + i - 1 THEN decode_node(Tail(frames[i])) ELSE Unread]
OutgoingReadable ==
  /\ peer # "refused"
  /\ stage = "open" =>
       LET frames == Opened(SubSeq(PeerReads, 3, Len(PeerReads)))
       IN  /\ Len(frames) >= intact
           /\ \A i \in 1 .. intact : frames[i] = Arrives(upSent[i])

\* What the codec promises of the nodes that are sent: they become bytes, and
\* the bytes are read as the codec's reference says.
CodecRoundTrips ==
  \A n \in Nodes : encode_node(n) \in Seq(Nat) /\ decode_node(encode_node(n)) = Arrives(n) /\ Arrives(n) # Unread

\* The reader above gets what the server sent, once, in order and as the
\* codec's reference says, however the bytes were cut, and gets all of it
\* while the connection lasts.
Channel == INSTANCE ReliableChannel
             WITH Items <- Nodes, Image <- Arrives, MaxItems <- MaxSends,
                  sent <- downSent, got <- handled, ended <- (socket = "down")
ImplementsChannel == Channel!Spec /\ Channel!Everything
=============================================================================
