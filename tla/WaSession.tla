----------------------------- MODULE WaSession -----------------------------
(***************************************************************************)
(* One WhatsApp connection as its reader sees it: InboundSession of        *)
(* session.py and the message path of cli.py that it calls before every    *)
(* acknowledgement.  (The sends that share the event loop are WaFanout's.) *)
(*                                                                         *)
(* The process is one thread: the message path runs whole between two      *)
(* awaits, and a session is stopped only while the reader waits            *)
(* (AwaitPoint).  What the message path writes to disk survives a crash at *)
(* any of its steps.                                                       *)
(*                                                                         *)
(* A retained stanza is a number, in the order the server sends them.  A   *)
(* ratchet is the set of ciphertexts it has consumed; a consumed one does  *)
(* not decrypt again.                                                      *)
(***************************************************************************)
EXTENDS Naturals, Sequences, FiniteSets

CONSTANTS
  MailCount,  \* stanzas the server holds for this device
  Kind,       \* what each is
  Skdm,       \* for group text: the message that carries its sender key
  MaxFaults   \* bound: lost connections, crashes and failing cache writes

\* direct: a pkmsg with text.  skdm: a pkmsg with a sender key, then group
\* text under that key.  group: group text.  history: a pkmsg from our own
\* phone announcing a history bundle.  bad: a pkmsg no key opens.
\* notice: notification, call or receipt.  ping: a server ping or set IQ.
Kinds == {"direct", "skdm", "group", "history", "bad", "notice", "ping"}

Messages == 1 .. MailCount
Pings    == {m \in Messages : Kind[m] = "ping"}

ASSUME SessionAssumption ==
  /\ MailCount \in Nat /\ Kind \in [Messages -> Kinds]
  /\ Skdm \in [Messages -> Messages]
  /\ \A m \in Messages : /\ Kind[m] \in {"group", "skdm"} => Kind[Skdm[m]] = "skdm"
                         /\ Kind[m] = "skdm" => Skdm[m] = m
  /\ MaxFaults \in Nat

VARIABLES
  server,    \* stanzas the server still retains
  sent,      \* those already sent on this connection
  acks,      \* acknowledgements on their way to the server
  link,      \* the TCP connection
  incoming,  \* FrameSocket._incoming
  pc, cur,   \* the reader: its step and the stanza in hand
  hist,      \* on_message returned "hist_sync"
  consumed,  \* signal.json: <<message, part>> its ratchets have consumed
  installed, \* signal.json: messages whose sender key is installed
  kept,      \* lines in messages.jsonl, or blobs, per message
  faults,
  torn,      \* history: messages hit between ratchet and cache
  receipts   \* history: receipts sent

serverVars  == <<server, sent, acks>>
socketVars  == <<link, incoming>>
readerVars  == <<pc, cur, hist>>
diskVars    == <<consumed, installed, kept>>
historyVars == <<torn, receipts>>
vars == <<serverVars, socketVars, readerVars, diskVars, faults, historyVars>>

Init ==
  /\ server = Messages /\ sent = {} /\ acks = {}
  /\ link = "down" /\ incoming = <<>>
  /\ pc = "off" /\ cur = 0 /\ hist = FALSE
  /\ consumed = {} /\ installed = {} /\ kept = [m \in Messages |-> 0]
  /\ faults = 0 /\ torn = {} /\ receipts = {}

Fault == faults < MaxFaults /\ faults' = faults + 1
AwaitPoint == pc \in {"idle", "ack", "receipt", "extra", "eof"}

(***************************************************************************)
(* The server and the wire.                                                *)
(***************************************************************************)

\* Handshake and <success/> are over: _open_inbound starts the reader.
Connect ==
  /\ pc = "off"
  /\ link' = "up" /\ incoming' = <<>> /\ pc' = "idle"
  /\ UNCHANGED <<serverVars, cur, hist, diskVars, faults, historyVars>>

Receive(stanza) == link = "up" /\ incoming' = Append(incoming, stanza) /\ link' = link

\* The offline mailbox, in order.
Deliver(m) ==
  /\ m \in server \ sent /\ \A n \in server \ sent : m <= n
  /\ Receive(<<"mail", m>>)
  /\ sent' = sent \cup {m}
  /\ UNCHANGED <<server, acks, readerVars, diskVars, faults, historyVars>>

ServerAck(m) ==
  /\ m \in acks
  /\ server' = server \ {m} /\ acks' = acks \ {m}
  /\ UNCHANGED <<sent, socketVars, readerVars, diskVars, faults, historyVars>>

\* Whatever is on its way is lost; unacknowledged mail will be sent again.
Hangup ==
  /\ server' = server \ (Pings \cap sent) /\ sent' = {} /\ acks' = {}

\* _read_pump ends and leaves its sentinel behind the frames it has read.
LoseLink ==
  /\ link = "up" /\ Fault
  /\ Hangup
  /\ link' = "down" /\ incoming' = Append(incoming, <<"eof", 0>>)
  /\ UNCHANGED <<readerVars, diskVars, historyVars>>

(***************************************************************************)
(* The reader (InboundSession._read_loop, handle).                         *)
(***************************************************************************)

Reads(tag) == pc = "idle" /\ incoming # <<>> /\ incoming[1][1] = tag
Consume == incoming' = Tail(incoming) /\ link' = link

\* Mutant: a notification path that acknowledges before the message path.
AckFirst(m) == "ack"

FirstStep(m) ==
  CASE Kind[m] \in {"notice", "ping"} -> "ack"
    [] Kind[m] = "group"              -> "sk"
    [] OTHER                          -> "pk"

HandleMail ==
  /\ Reads("mail") /\ Consume
  /\ cur' = incoming[1][2] /\ pc' = FirstStep(incoming[1][2]) /\ hist' = FALSE
  /\ UNCHANGED <<serverVars, diskVars, faults, historyVars>>

HandleEof ==
  /\ Reads("eof") /\ Consume
  /\ pc' = "eof"
  /\ UNCHANGED <<serverVars, cur, hist, diskVars, faults, historyVars>>

(***************************************************************************)
(* The message path (cli.py _try_decrypt_message): one <enc> after the     *)
(* other, each decryption written to signal.json before it returns.        *)
(***************************************************************************)
Step(label) == pc' = label /\ UNCHANGED <<cur>>

PersistNothing(part) == UNCHANGED consumed   \* mutant: the ratchet is not saved
PersistRatchet(part) == consumed' = consumed \cup {<<cur, part>>}

DecryptPk ==
  /\ pc = "pk" /\ Kind[cur] # "bad" /\ <<cur, "pk">> \notin consumed
  /\ PersistRatchet("pk")
  /\ Step(IF Kind[cur] = "skdm" THEN "skdm" ELSE "keep")
  /\ UNCHANGED <<serverVars, socketVars, hist, installed, kept, faults, historyVars>>

DropSilently(m) == IF Kind[m] = "skdm" THEN "sk" ELSE "idle"   \* mutant: no ack for what does not open
\* An exception skips this <enc>; the next one is still tried.
AfterBadPk(m) == IF Kind[m] = "skdm" THEN "sk" ELSE "ack"

DecryptPkFails ==
  /\ pc = "pk" /\ (Kind[cur] = "bad" \/ <<cur, "pk">> \in consumed)
  /\ Step(AfterBadPk(cur))
  /\ UNCHANGED <<serverVars, socketVars, hist, diskVars, faults, historyVars>>

InstallSenderKey ==
  /\ pc = "skdm"
  /\ installed' = installed \cup {cur}
  /\ Step("sk")
  /\ UNCHANGED <<serverVars, socketVars, hist, consumed, kept, faults, historyVars>>

Opens(m) == Skdm[m] \in installed /\ <<m, "sk">> \notin consumed

DecryptSk ==
  /\ pc = "sk" /\ Opens(cur)
  /\ PersistRatchet("sk")
  /\ Step("keep")
  /\ UNCHANGED <<serverVars, socketVars, hist, installed, kept, faults, historyVars>>

DecryptSkFails ==
  /\ pc = "sk" /\ ~Opens(cur)
  /\ Step("ack")
  /\ UNCHANGED <<serverVars, socketVars, hist, diskVars, faults, historyVars>>

\* append_messages and upsert_chat, or the blob of a history notification.
Keep ==
  /\ pc = "keep"
  /\ kept' = [kept EXCEPT ![cur] = @ + 1]
  /\ hist' = (Kind[cur] = "history")
  /\ Step("ack")
  /\ UNCHANGED <<serverVars, socketVars, consumed, installed, faults, historyVars>>

HistEvenIfUnsaved == Kind[cur] = "history"   \* mutant: the receipt list survives the exception
HistWhenUnsaved == FALSE

\* The write raises: for text it is caught, for a blob on_message raises
\* and its receipts are discarded.  The stanza is acknowledged all the same.
KeepFails ==
  /\ pc = "keep" /\ Fault
  /\ torn' = torn \cup {cur} /\ hist' = HistWhenUnsaved
  /\ Step("ack")
  /\ UNCHANGED <<serverVars, socketVars, diskVars, receipts>>

(***************************************************************************)
(* Acknowledgement and receipts.                                           *)
(***************************************************************************)
Finished == pc' = "idle" /\ cur' = 0 /\ hist' = FALSE

SendAck ==
  /\ pc = "ack" /\ link = "up"
  /\ acks' = acks \cup {cur}
  /\ IF Kind[cur] \in {"notice", "ping"} THEN Finished ELSE Step("receipt") /\ UNCHANGED hist
  /\ UNCHANGED <<server, sent, socketVars, diskVars, faults, historyVars>>

SendReceipt ==
  /\ pc = "receipt" /\ link = "up"
  /\ receipts' = receipts \cup {<<cur, "delivery">>}
  /\ IF Kind[cur] = "history" THEN Step("extra") /\ UNCHANGED hist ELSE Finished
  /\ UNCHANGED <<serverVars, socketVars, diskVars, faults, torn>>

SendExtra ==
  /\ pc = "extra" /\ link = "up"
  /\ receipts' = receipts \cup {<<cur, "peer_msg">>} \cup (IF hist THEN {<<cur, "hist_sync">>} ELSE {})
  /\ Finished
  /\ UNCHANGED <<serverVars, socketVars, diskVars, faults, torn>>

\* send_node raises, _read_loop logs it and reads on.
SendRaises ==
  /\ pc \in {"ack", "receipt", "extra"} /\ link = "down"
  /\ Finished
  /\ UNCHANGED <<serverVars, socketVars, diskVars, faults, historyVars>>

(***************************************************************************)
(* The end of a session.                                                   *)
(***************************************************************************)

\* drain() returns on a disconnect, on silence or at its cap, a send when
\* it is over: at any time the reader waits.  stop() cancels it there.
Stop ==
  /\ AwaitPoint
  /\ pc' = "off" /\ cur' = 0 /\ hist' = FALSE
  /\ link' = "down" /\ incoming' = <<>>
  /\ Hangup
  /\ UNCHANGED <<diskVars, faults, historyVars>>

\* Where a ciphertext is consumed and what it carried is not yet saved.
Window == {"skdm", "keep"}

Crash ==
  /\ pc # "off" /\ Fault
  /\ torn' = IF pc \in Window THEN torn \cup {cur} ELSE torn
  /\ pc' = "off" /\ cur' = 0 /\ hist' = FALSE
  /\ link' = "down" /\ incoming' = <<>>
  /\ Hangup
  /\ UNCHANGED <<diskVars, receipts>>

Reader ==
  \/ HandleMail \/ HandleEof
  \/ DecryptPk \/ DecryptPkFails \/ InstallSenderKey \/ DecryptSk \/ DecryptSkFails
  \/ Keep \/ SendAck \/ SendReceipt \/ SendExtra \/ SendRaises

Next ==
  \/ Connect \/ LoseLink \/ Reader \/ KeepFails \/ Stop \/ Crash
  \/ \E m \in Messages : Deliver(m) \/ ServerAck(m)

Spec == Init /\ [][Next]_vars

(***************************************************************************)
(* Fairness: the user runs command after command and the service accepts   *)
(* the connection, the event loop runs, a timeout fires, and a session     *)
(* that is offered again and again is not always cut at the same point: a  *)
(* drain ends only after --idle seconds without an unsolicited stanza.     *)
(***************************************************************************)
Fairness ==
  /\ WF_vars(Connect) /\ WF_vars(Stop) /\ SF_vars(Reader)
  /\ SF_vars(SendAck) /\ SF_vars(HandleMail)
  /\ SF_vars(\E m \in Messages : Deliver(m)) /\ SF_vars(\E m \in Messages : ServerAck(m))

FairSpec == Spec /\ Fairness

(***************************************************************************)
(* Properties.                                                             *)
(***************************************************************************)
Busy == {"pk", "skdm", "sk", "keep", "ack", "receipt", "extra"}

TypeOK ==
  /\ server \subseteq Messages /\ sent \subseteq Messages /\ acks \subseteq Messages
  /\ link \in {"up", "down"}
  /\ pc \in {"off", "idle", "eof"} \cup Busy
  /\ IF pc \in Busy THEN cur \in Messages ELSE cur = 0 /\ ~hist
  /\ consumed \subseteq Messages \X {"pk", "sk"} /\ installed \subseteq Messages
  /\ kept \in [Messages -> Nat] /\ hist \in BOOLEAN
  /\ faults \in 0 .. MaxFaults /\ torn \subseteq Messages
  /\ receipts \subseteq Messages \X {"delivery", "peer_msg", "hist_sync"}

Content == {m \in Messages : Kind[m] \in {"direct", "skdm", "group", "history"}}

\* on_message runs "before the transport ack": what the server has forgotten
\* is in the cache, wherever the session was cut.  The only ways out are a
\* crash or a failed write between the ratchet and the cache, for the message
\* or for the one that carries its sender key, and group text sent before it.
AcknowledgedIsKept ==
  \A m \in Content : (m \notin server \/ m \in acks) =>
    \/ kept[m] > 0
    \/ m \in torn
    \/ Kind[m] = "group" /\ (Skdm[m] \in torn \/ Skdm[m] > m)

\* A message redelivered because its acknowledgement was lost is not cached
\* twice: append_messages does not deduplicate, the ratchet on disk does.
KeptOnce == \A m \in Messages : kept[m] <= 1

\* "without them it treats its history pushes as undelivered": the phone is
\* told of a history bundle only when its notification has been saved.
HistReceiptMeansSaved ==
  \A m \in Messages : <<m, "hist_sync">> \in receipts => kept[m] = 1

\* Every stanza is answered in the end, also one nothing can decrypt.
Progress == \A m \in Messages : <>(m \notin server)
=============================================================================
