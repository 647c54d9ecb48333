------------------------------ MODULE WaFanout ------------------------------
(***************************************************************************)
(* Sending: _send_async and _send_group_async of cli.py, the helpers they  *)
(* call, the encrypting half of SignalSession, and the waiter tables of    *)
(* the InboundSession they share with the reader.                          *)
(*                                                                         *)
(* A message is encrypted for every device of its addressees, and of our   *)
(* own, from a device list and prekey bundles the server is asked for:     *)
(* several awaits, during which devices come and go, other sends of the    *)
(* same listener move and the reader replaces ratchets.  What runs between *)
(* two awaits is one step.                                                 *)
(*                                                                         *)
(* A device linked anew is another generation of it; a ratchet is a        *)
(* session [id, gen, n] with one generation, n messages into its chain.    *)
(***************************************************************************)
EXTENDS Naturals, Sequences, FiniteSets

CONSTANTS
  Sends, Chat,      \* what is sent, and the user or the Group it goes to
  Wanted,           \* the sends that happen together
  Relayed,          \* sends a listener serves on one connection
  Group, Me,
  Devices, Owner, Own,
  Linked,           \* the devices linked at the start
  Big,              \* sends whose stanza outgrows the socket's write buffer
  NoSend,
  MaxChanges,       \* bound: devices linked or unlinked, messages from peers
  MaxFaults         \* bound: lost connections, crashes, failing writes, refused 1:1 sends

Users  == {Owner[d] : d \in Devices}
Others == Devices \ {Own}
Grouped(t) == Chat[t] = Group

ASSUME FanoutAssumption ==
  /\ Chat \in [Sends -> Users \cup {Group}] /\ Group \notin Users \cup Devices
  /\ Own \in Linked /\ Linked \subseteq Devices /\ Owner[Own] = Me
  /\ Wanted \subseteq SUBSET Sends
  /\ Relayed \subseteq {t \in Sends : ~Grouped(t)} /\ Big \subseteq Sends /\ NoSend \notin Sends
  /\ MaxChanges \in Nat /\ MaxFaults \in Nat

VARIABLES
  linked, gen,      \* the server: linked devices, the generation of each
  asks,             \* active IQs the server has not answered
  posted, acks,     \* message stanzas and their acks on their way
  accepted, refused, \* stanzas the server took, sends it answered with an error
  link,             \* "lost": the sentinel is not read yet
  running,          \* the sends of the command that holds the connection
  iqActive,         \* _iq["send-active"]: the send whose future is registered
  iqOwn, ackOwn,    \* _iq under ids of their own: <<kind, send>>; _ack
  tpc, fut, reply,  \* each send's step, its future and the future's result
  listed, lacking,  \* all_devices, no_session_devices
  ratchet, chain,   \* the libsignal store: sessions, our sender key
  disk,             \* signal.json: both
  made,             \* sessions and sender keys made so far
  mine,             \* sends with a line of their own in messages.jsonl
  changes, faults,
  spent, reused,    \* history: keys in posted stanzas; those in two of them
  unserved,         \* history: <<send, device>> left without a bundle or a saved ratchet
  missed            \* history: acks read before their send waited for them

serverVars == <<linked, gen, accepted, refused>>
wireVars   == <<asks, posted, acks, link>>
waiterVars == <<iqActive, iqOwn, ackOwn, fut, reply>>
keyVars    == <<ratchet, chain, disk, made>>
taskVars   == <<running, tpc, listed, lacking, mine>>
keyHistory == <<spent, reused, unserved>>
vars == <<serverVars, wireVars, waiterVars, keyVars, taskVars, changes, faults, keyHistory, missed>>

None == [id |-> 0, gen |-> 0, n |-> 0]

Init ==
  /\ linked = Linked /\ gen = [d \in Devices |-> IF d \in Linked THEN 1 ELSE 0]
  /\ asks = {} /\ posted = {} /\ acks = {} /\ accepted = {} /\ refused = {}
  /\ link = "down" /\ running = {}
  /\ iqActive = NoSend /\ iqOwn = {} /\ ackOwn = {}
  /\ \E ts \in Wanted : tpc = [t \in Sends |-> IF t \in ts THEN "idle" ELSE "unasked"]
  /\ fut = [t \in Sends |-> "none"] /\ reply = [t \in Sends |-> {}]
  /\ listed = [t \in Sends |-> {}] /\ lacking = [t \in Sends |-> {}]
  /\ ratchet = [d \in Others |-> None] /\ chain = None
  /\ disk = [ratchet |-> ratchet, chain |-> chain] /\ made = 0
  /\ mine = {} /\ changes = 0 /\ faults = 0
  /\ spent = {} /\ reused = {} /\ unserved = {} /\ missed = {}

Fault  == faults < MaxFaults /\ faults' = faults + 1
Change == changes < MaxChanges /\ changes' = changes + 1
Ended  == {"unasked", "idle", "sent", "noack", "failed"}

(***************************************************************************)
(* The server.  A group holds every user.                                  *)
(***************************************************************************)
Asked(t) == IF Grouped(t) THEN Users ELSE {Chat[t], Me}
DevicesOf(users) == {d \in linked : Owner[d] \in users}

LinkDevice(d) ==
  /\ d \in Others \ linked /\ Change
  /\ linked' = linked \cup {d} /\ gen' = [gen EXCEPT ![d] = @ + 1]
  /\ UNCHANGED <<accepted, refused, wireVars, waiterVars, keyVars, taskVars, faults, keyHistory, missed>>

UnlinkDevice(d) ==
  /\ d \in Others \cap linked /\ Change
  /\ linked' = linked \ {d}
  /\ UNCHANGED <<gen, accepted, refused, wireVars, waiterVars, keyVars, taskVars, faults, keyHistory, missed>>

\* The phash of a group stanza names a device list the server no longer has.
Stale(s) == Grouped(s.send) /\ s.listed # DevicesOf(Users)

\* The devices a stanza reaches, and those of them that can read it: they
\* have a copy under a session of theirs and, for group text, the copy's
\* sender key is not ahead of the text.
Reached(s) == DevicesOf(Asked(s.send)) \ {Own}
Reads(d, s) == \E c \in s.copies : c.device = d /\ c.gen = gen[d] /\ s.skdm <= s.text

\* A stanza is taken, or answered with an error: always that one whose phash
\* is out of date, and any 1:1 message, for reasons of the server's own.
Accept(s) ==
  /\ s \in posted
  /\ posted' = posted \ {s} /\ acks' = acks \cup {s.send}
  /\ \/ /\ (Stale(s) /\ UNCHANGED faults) \/ (~Grouped(s.send) /\ Fault)
        /\ refused' = refused \cup {s.send} /\ UNCHANGED accepted
     \/ /\ ~Stale(s)
        /\ accepted' = accepted \cup
             {[send |-> s.send, blind |-> {d \in Reached(s) : ~Reads(d, s)}, gen |-> gen, copies |-> s.copies]}
        /\ UNCHANGED <<refused, faults>>
  /\ UNCHANGED <<linked, gen, asks, link, waiterVars, keyVars, taskVars, changes, keyHistory, missed>>

Hangup == asks' = {} /\ posted' = {} /\ acks' = {}

LoseLink ==
  /\ link = "up" /\ Fault
  /\ Hangup /\ link' = "lost"
  /\ UNCHANGED <<serverVars, waiterVars, keyVars, taskVars, changes, keyHistory, missed>>

(***************************************************************************)
(* The reader: replies and acks to their futures, and messages of peers,   *)
(* of which a pkmsg replaces the ratchet with its sender.  A reply counts  *)
(* from when it is read; one whose id is popped is dropped, but for the    *)
(* shared id, which another send may have registered since.                *)
(***************************************************************************)
Resolve(t, result) ==
  /\ fut' = [u \in Sends |-> IF u = t /\ fut[u] = "pending" THEN "done" ELSE fut[u]]
  /\ reply' = [u \in Sends |-> IF u = t /\ fut[u] = "pending" THEN result ELSE reply[u]]

HandleActive(t) ==
  /\ t \in asks /\ asks' = asks \ {t}
  /\ Resolve(iqActive, {})
  /\ UNCHANGED <<serverVars, posted, acks, link, iqActive, iqOwn, ackOwn, keyVars, taskVars, changes, faults, keyHistory, missed>>

\* What the server answers to a request for members, devices or prekeys; of
\* the prekeys it may leave out some, or send some without a signature.
Answers(t, kind) ==
  CASE kind = "members" -> {{}}
    [] kind = "devices" -> {DevicesOf(Asked(t))}
    [] kind = "keys"    -> SUBSET {<<d, gen[d]>> : d \in lacking[t] \cap linked}

HandleReply(t, kind) ==
  /\ link = "up" /\ <<kind, t>> \in iqOwn /\ fut[t] = "pending"
  /\ \E answer \in Answers(t, kind) : Resolve(t, answer)
  /\ UNCHANGED <<serverVars, wireVars, iqActive, iqOwn, ackOwn, keyVars, taskVars, changes, faults, keyHistory, missed>>

HandleAck(t) ==
  /\ t \in acks /\ acks' = acks \ {t}
  /\ Resolve(IF t \in ackOwn THEN t ELSE NoSend, {})
  /\ missed' = IF tpc[t] = "flush" THEN missed \cup {t} ELSE missed
  /\ UNCHANGED <<serverVars, asks, posted, link, iqActive, iqOwn, ackOwn, keyVars, taskVars, changes, faults, keyHistory>>

\* The sentinel of _read_pump: _fail_waiters.
HandleEof ==
  /\ link = "lost" /\ link' = "down"
  /\ fut' = [t \in Sends |->
       IF fut[t] = "pending" /\ (t \in ackOwn \/ t = iqActive \/ \E w \in iqOwn : w[2] = t) THEN "failed" ELSE fut[t]]
  /\ iqActive' = NoSend /\ iqOwn' = {} /\ ackOwn' = {}
  /\ UNCHANGED <<serverVars, asks, posted, acks, reply, keyVars, taskVars, changes, faults, keyHistory, missed>>

Save(r, c) == disk' = [ratchet |-> r, chain |-> c]

\* decrypt_pkmsg: a peer that knows our prekeys writes first.
HearFrom(d) ==
  /\ link = "up" /\ d \in linked /\ Change
  /\ made' = made + 1 /\ chain' = chain
  /\ ratchet' = [ratchet EXCEPT ![d] = [id |-> made + 1, gen |-> gen[d], n |-> 0]]
  /\ Save(ratchet', chain)
  /\ UNCHANGED <<serverVars, wireVars, waiterVars, taskVars, faults, keyHistory, missed>>

(***************************************************************************)
(* One command holds the connection: a listener with the sends relayed to  *)
(* it, or a send of its own.  It reads signal.json when it starts.         *)
(***************************************************************************)
Connect(ts) ==
  /\ running = {} /\ \E t \in ts : tpc[t] = "idle"
  /\ running' = ts /\ link' = "up"
  /\ ratchet' = disk.ratchet /\ chain' = disk.chain
  /\ UNCHANGED <<serverVars, asks, posted, acks, waiterVars, disk, made, tpc, listed, lacking, mine, changes, faults, keyHistory, missed>>

Closed ==
  /\ running' = {} /\ link' = "down" /\ Hangup
  /\ iqActive' = NoSend /\ iqOwn' = {} /\ ackOwn' = {}
  /\ fut' = [t \in Sends |-> "none"] /\ reply' = [t \in Sends |-> {}]
  /\ ratchet' = [d \in Others |-> None] /\ chain' = None

Stop ==
  /\ running # {} /\ \A t \in running : tpc[t] \in Ended
  /\ Closed
  /\ UNCHANGED <<serverVars, disk, made, tpc, listed, lacking, mine, changes, faults, keyHistory, missed>>

Crash ==
  /\ running # {} /\ Fault /\ Closed
  /\ tpc' = [t \in Sends |-> IF tpc[t] \in Ended THEN tpc[t] ELSE "failed"]
  /\ listed' = [t \in Sends |-> {}] /\ lacking' = [t \in Sends |-> {}]
  /\ UNCHANGED <<serverVars, disk, made, mine, changes, keyHistory, missed>>

(***************************************************************************)
(* The sends.  Any wait may end by its timeout; on a dead link a write may *)
(* raise, or vanish.                                                       *)
(***************************************************************************)
Goto(t, label) == tpc' = [tpc EXCEPT ![t] = label]
Await(t) == fut' = [fut EXCEPT ![t] = "pending"] /\ reply' = [reply EXCEPT ![t] = {}]
Waiting(t) == {w \in iqOwn : w[2] = t}

\* request_iq under the id every send uses for its first IQ.
BeginSend(t) ==
  /\ t \in running /\ tpc[t] = "idle"
  /\ iqActive' = t /\ Await(t) /\ Goto(t, "active")
  /\ asks' = IF link = "up" THEN asks \cup {t} ELSE asks
  /\ UNCHANGED <<serverVars, posted, acks, link, running, iqOwn, ackOwn, keyVars, listed, lacking, mine, changes, faults, keyHistory, missed>>

UnderOneId(kind, t) == {<<kind, t>>}   \* mutant: one id for the queries of all sends
Registered(kind, t) == (iqOwn \ Waiting(t)) \cup {<<kind, t>>}

\* request_iq under a fresh id; the finally of the one before has popped it.
Query(t, kind) ==
  /\ iqOwn' = Registered(kind, t) /\ Await(t) /\ Goto(t, kind)
  /\ UNCHANGED <<serverVars, wireVars, running, ackOwn, mine, changes, faults, keyHistory, missed>>

\* The reply, its timeout or a lost connection ends the first wait; its
\* finally pops the shared id, whoever is registered under it.
ActiveOver(t) ==
  /\ tpc[t] = "active"
  /\ iqActive' = NoSend
  /\ Query(t, IF Grouped(t) THEN "members" ELSE "devices")
  /\ UNCHANGED <<keyVars, listed, lacking>>

\* _fetch_group_members
MembersKnown(t) ==
  /\ tpc[t] = "members" /\ fut[t] = "done"
  /\ Query(t, "devices")
  /\ UNCHANGED <<iqActive, keyVars, listed, lacking>>

\* An error, a timeout, an empty answer, or a write that raises.
GiveUp(t) ==
  /\ tpc[t] \in {"members", "devices"} \/ (tpc[t] = "active" /\ link # "up")
  /\ iqActive' = IF tpc[t] = "active" THEN NoSend ELSE iqActive
  /\ iqOwn' = iqOwn \ Waiting(t) /\ Goto(t, "failed")
  /\ fut' = [fut EXCEPT ![t] = "none"] /\ reply' = [reply EXCEPT ![t] = {}]
  /\ UNCHANGED <<serverVars, wireVars, ackOwn, keyVars, running, listed, lacking, mine, changes, faults, keyHistory, missed>>

ButOurs(all) == {d \in all : Owner[d] # Me}   \* mutant: no copies for our own other devices
Targets(all) == all \ {Own}
HasSession(d) == ratchet[d].id # 0

\* create_sender_key_distribution: the sender key there is, or a new one.
SenderKey(t) == IF Grouped(t) /\ chain.id = 0 THEN [None EXCEPT !.id = made + 1] ELSE chain

\* _usync_devices has answered, and some devices have no session.
DevicesKnown(t) ==
  /\ tpc[t] = "devices" /\ fut[t] = "done"
  /\ LET lack == {d \in Targets(reply[t]) : ~HasSession(d)} IN
       /\ lack # {}
       /\ listed' = [listed EXCEPT ![t] = reply[t]] /\ lacking' = [lacking EXCEPT ![t] = lack]
       /\ Query(t, "keys")
  /\ chain' = SenderKey(t) /\ Save(ratchet, chain')
  /\ made' = IF chain' = chain THEN made ELSE made + 1
  /\ UNCHANGED <<iqActive, ratchet>>

\* install_prekey_bundle for each device with a bundle, whatever its ratchet
\* has become since has_session.
Installed(bundles) ==
  [d \in Others |-> IF \E b \in bundles : b[1] = d
                      THEN [id |-> made + 1, gen |-> (CHOOSE b \in bundles : b[1] = d)[2], n |-> 0]
                      ELSE ratchet[d]]

StaleSenderKey(c) == [c EXCEPT !.n = @ - 1]   \* mutant: group_encrypt saves nothing
SavedSenderKey(c) == c
AfterTheText(c) == c.n + 1   \* mutant: the distribution is made after the text is encrypted
Distributed(c) == c.n

NeedsFlush(t) == t \in Big

Posts(t, s) ==
  LET keys == {<<c.device, c.id, c.n>> : c \in s.copies} \cup (IF Grouped(t) THEN {<<Group, s.key, s.text>>} ELSE {}) IN
    /\ posted' = IF link = "up" THEN posted \cup {s} ELSE posted
    /\ IF link = "up" THEN spent' = spent \cup keys /\ reused' = reused \cup (spent \cap keys)
                      ELSE UNCHANGED <<spent, reused>>
    /\ IF NeedsFlush(t)
         THEN Goto(t, "flush") /\ UNCHANGED ackOwn /\ fut' = [fut EXCEPT ![t] = "none"]
         ELSE Goto(t, "acking") /\ ackOwn' = ackOwn \cup {t} /\ fut' = [fut EXCEPT ![t] = "pending"]

Fails(t) ==
  /\ Goto(t, "failed") /\ fut' = [fut EXCEPT ![t] = "none"]
  /\ UNCHANGED <<posted, ackOwn, spent, reused>>

Copy(d, r) == [device |-> d, id |-> r[d].id, gen |-> r[d].gen, n |-> r[d].n]

\* encrypt_msg for each device, each saved before the next, a failing one
\* skipped; group_encrypt for the text, which may raise; the stanza.  One
\* that overfills the write buffer suspends the send before it registers its
\* ack waiter.
Fanout(t, all, from) ==
  LET able == {d \in Targets(all) : from[d].id # 0}
      key  == SenderKey(t)
  IN \E failing \in SUBSET able, unsaved \in SUBSET able, textFails \in BOOLEAN :
       LET copies == {Copy(d, from) : d \in able \ failing}
           text   == Grouped(t) /\ copies # {}
       IN
       /\ IF failing = {} /\ ~textFails THEN faults' = faults ELSE Fault
       /\ unsaved \subseteq failing /\ (text /\ ~textFails => unsaved = {}) /\ (textFails => text)
       /\ ratchet' = [d \in Others |-> IF d \in able THEN [from[d] EXCEPT !.n = @ + 1] ELSE from[d]]
       /\ chain' = IF text THEN [key EXCEPT !.n = @ + 1] ELSE key
       /\ Save([d \in Others |-> IF d \in unsaved THEN from[d] ELSE ratchet'[d]],
               IF text /\ ~textFails THEN SavedSenderKey(chain') ELSE key)
       /\ unserved' = unserved \cup {<<t, d>> : d \in (Targets(all) \ able) \cup failing}
       /\ \/ ~textFails /\ copies # {}
             /\ Posts(t, [send |-> t, listed |-> all, copies |-> copies,
                          key |-> key.id, text |-> key.n, skdm |-> Distributed(key)])
          \/ (textFails \/ copies = {} \/ link # "up") /\ Fails(t)

TransmitFrame(t) ==
  /\ iqOwn' = iqOwn \ Waiting(t) /\ reply' = [reply EXCEPT ![t] = {}]
  /\ listed' = [listed EXCEPT ![t] = {}] /\ lacking' = [lacking EXCEPT ![t] = {}]
  /\ UNCHANGED <<serverVars, asks, acks, link, iqActive, running, mine, changes, missed>>

\* Every device of the answer has a session: no await before the stanza.
Transmit(t) ==
  /\ tpc[t] = "devices" /\ fut[t] = "done" /\ reply[t] # {}
  /\ \A d \in Targets(reply[t]) : HasSession(d)
  /\ Fanout(t, reply[t], ratchet)
  /\ made' = IF SenderKey(t) = chain THEN made ELSE made + 1
  /\ TransmitFrame(t)

\* The bundles, an error or a timeout; what has no session then is skipped.
TransmitWithBundles(t) ==
  /\ tpc[t] = "keys"
  /\ LET bundles == {b \in reply[t] : b[1] \in lacking[t]} IN
       /\ Fanout(t, listed[t], Installed(bundles))
       /\ made' = IF bundles = {} THEN made ELSE made + 1
  /\ TransmitFrame(t)

WaitAck(t) ==
  /\ tpc[t] = "flush"
  /\ ackOwn' = ackOwn \cup {t} /\ Await(t) /\ Goto(t, "acking")
  /\ UNCHANGED <<serverVars, wireVars, iqActive, iqOwn, keyVars, running, listed, lacking, mine, changes, faults, keyHistory, missed>>

Over(t, label) ==
  /\ ackOwn' = ackOwn \ {t} /\ Goto(t, label) /\ fut' = [fut EXCEPT ![t] = "none"]
  /\ UNCHANGED <<serverVars, wireVars, iqActive, iqOwn, reply, keyVars, running, listed, lacking, changes, faults, keyHistory, missed>>

SentAlways(t) == TRUE   \* mutant: the outcome of wait_ack is not looked at
Acked(t) == fut[t] = "done"

\* wait_ack returns the ack, which nobody looks at: it may be an error.
Sent(t)  == tpc[t] = "acking" /\ Acked(t) /\ mine' = mine \cup {t} /\ Over(t, "sent")
\* "no ack within 15s": nothing is kept.
NoAck(t) == tpc[t] = "acking" /\ fut[t] # "done" /\ mine' = mine /\ Over(t, "noack")

(***************************************************************************)
(* Specification.                                                          *)
(***************************************************************************)
Step(t) ==
  \/ BeginSend(t) \/ ActiveOver(t) \/ MembersKnown(t) \/ GiveUp(t) \/ DevicesKnown(t)
  \/ Transmit(t) \/ TransmitWithBundles(t) \/ WaitAck(t) \/ Sent(t) \/ NoAck(t)

Commands == {Relayed} \cup {{t} : t \in Sends \ Relayed}

Next ==
  \/ \E ts \in Commands \ {{}} : Connect(ts)
  \/ Stop \/ Crash \/ LoseLink
  \/ HandleEof
  \/ \E d \in Others : LinkDevice(d) \/ UnlinkDevice(d) \/ HearFrom(d)
  \/ \E t \in Sends : HandleActive(t) \/ HandleAck(t)
  \/ \E w \in iqOwn : HandleReply(w[2], w[1])
  \/ \E s \in posted : Accept(s)
  \/ \E t \in Sends : Step(t)

Spec == Init /\ [][Next]_vars

(***************************************************************************)
(* Properties.                                                             *)
(***************************************************************************)
Session == [id : Nat, gen : Nat, n : Nat]

TypeOK ==
  /\ linked \subseteq Devices /\ gen \in [Devices -> Nat]
  /\ posted \subseteq [send : Sends, listed : SUBSET Devices, key : Nat, text : Nat, skdm : Nat,
                       copies : SUBSET [device : Others, id : Nat, gen : Nat, n : Nat]]
  /\ asks \subseteq Sends /\ acks \subseteq Sends /\ refused \subseteq Sends /\ link \in {"up", "lost", "down"} /\ running \in {{}} \cup Commands
  /\ iqActive \in Sends \cup {NoSend} /\ iqOwn \subseteq {"members", "devices", "keys"} \X Sends /\ ackOwn \subseteq Sends
  /\ tpc \in [Sends -> Ended \cup {"active", "members", "devices", "keys", "flush", "acking"}]
  /\ fut \in [Sends -> {"none", "pending", "done", "failed"}]
  /\ ratchet \in [Others -> Session] /\ chain \in Session /\ disk \in [ratchet : [Others -> Session], chain : Session]
  /\ made \in Nat /\ changes \in 0 .. MaxChanges /\ faults \in 0 .. MaxFaults
  /\ \A t \in Sends : listed[t] \subseteq Devices /\ lacking[t] \subseteq listed[t] \ {Own}
  /\ mine \subseteq Sends /\ missed \subseteq Sends /\ unserved \subseteq Sends \X Others

\* Whoever a message reaches can read it: each linked device of the
\* addressees, and of ours, has a copy under a session it still has, and
\* nobody's sender key starts behind the text.  The exceptions: a device
\* without a bundle or with a ratchet that could not be saved is skipped; one
\* linked anew no longer has the session has_session still sees; and a 1:1
\* message, which carries no phash, misses a device linked since the list.
EveryDeviceCanRead ==
  \A a \in accepted : \A d \in a.blind :
    \/ <<a.send, d>> \in unserved
    \/ \E c \in a.copies : c.device = d /\ c.gen # a.gen[d]
    \/ ~Grouped(a.send) /\ \A c \in a.copies : c.device # d

\* No message key of a ratchet, and no iteration of our sender key, encrypts
\* two stanzas, in one process or across crashes and failing writes: what
\* signal.json says is never behind what has been sent.
KeysUsedOnce == reused = {}

\* A line of our own in the cache means the server took the message, or
\* answered that it will not: wait_ack does not tell the two apart.
OwnLineMeansAccepted ==
  \A t \in mine : (\E a \in accepted : a.send = t) \/ t \in refused

\* Replies find their way with several sends on one session: a pending
\* future is registered where the reader looks.  (The shared first id is
\* not: a second send takes it over.)  No ack is read before its send waits
\* for it, unless the stanza made the socket wait: send_node and wait_ack are
\* two awaits.
RepliesFindTheirSends ==
  /\ \A t \in Sends : fut[t] = "pending" =>
       /\ tpc[t] \in {"members", "devices", "keys"} => <<tpc[t], t>> \in iqOwn
       /\ tpc[t] = "acking" => t \in ackOwn
  /\ missed \subseteq Big
=============================================================================
