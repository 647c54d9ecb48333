--------------------------- MODULE WaFanoutProofs ---------------------------
(***************************************************************************)
(* Theorems about WaFanout for any devices, sends and connections, and any *)
(* number of device changes and faults: no key is used twice, whoever a    *)
(* message reaches can read it, a line of our own means an answer of the   *)
(* server, and replies find their sends.                                   *)
(***************************************************************************)
EXTENDS WaFanout, TLAPS

\* Types that TypeOK leaves out: what the futures hold, and the histories.
Shapes ==
  /\ reply \in [Sends -> SUBSET (Devices \cup Devices \X Nat)]
  /\ listed \in [Sends -> SUBSET Devices] /\ lacking \in [Sends -> SUBSET Devices]
  /\ spent \subseteq (Others \cup {Group}) \X Nat \X Nat
  /\ \A t \in Sends : /\ tpc[t] = "devices" => reply[t] \subseteq Devices
                      /\ tpc[t] = "keys" => reply[t] \subseteq Devices \X Nat

\* A send under way belongs to the command that holds the connection.
Hosted == \A t \in Sends : tpc[t] \notin Ended => t \in running

\* What is registered is what its send waits for.
Addressed ==
  /\ \A w \in iqOwn : tpc[w[2]] = w[1]
  /\ iqActive \in Sends => tpc[iqActive] = "active"

LargeWait == \A t \in Sends : tpc[t] = "flush" => t \in Big

\* The server has answered the stanza of a send whose ack is on its way, or
\* read, or taken for an ack.
Answered(t) == (\E a \in accepted : a.send = t) \/ t \in refused
AcksAnswer ==
  /\ \A t \in acks : Answered(t)
  /\ \A t \in Sends : tpc[t] = "acking" /\ fut[t] = "done" => Answered(t)

\* The sender key exists from the device list on.
KeyMade == \A t \in Sends : tpc[t] = "keys" /\ Grouped(t) => chain.id # 0

\* Sessions and sender keys, in memory and in signal.json, are ahead of every
\* key that has been spent.
Ahead(who, r, used) == \A k \in used : k[1] = who /\ k[2] = r.id => k[3] < r.n
AllAhead(rs, c, used, count) ==
  /\ \A d \in Others : rs[d].id <= count /\ Ahead(d, rs[d], used)
  /\ c.id <= count /\ Ahead(Group, c, used)
KeysAhead ==
  /\ \A k \in spent : k[2] \in 1 .. made
  /\ AllAhead(ratchet, chain, spent, made) /\ AllAhead(disk.ratchet, disk.chain, spent, made)

\* A stanza on its way has a copy for every device of its list, but for those
\* that went without, and the sender key of its text.
Served(s) ==
  /\ s.skdm <= s.text
  /\ \A d \in s.listed \ {Own} : <<s.send, d>> \in unserved \/ \E c \in s.copies : c.device = d
Stanzas == \A s \in posted : Served(s)

Waits    == Hosted /\ Addressed /\ LargeWait /\ RepliesFindTheirSends
Acks     == AcksAnswer /\ OwnLineMeansAccepted
Keys     == KeyMade /\ KeysAhead /\ KeysUsedOnce
Delivery == Stanzas /\ EveryDeviceCanRead
IInv     == TypeOK /\ Shapes /\ Waits /\ Acks /\ Keys /\ Delivery

\* What a fan-out does to its send: the stanza fills the write buffer, or its
\* ack is awaited, or the send is over.
LEMMA FanoutEnds ==
  ASSUME NEW t \in Sends, NEW all, NEW from, Fanout(t, all, from)
  PROVE  \E label \in {"flush", "acking", "failed"} :
           /\ tpc' = [tpc EXCEPT ![t] = label]
           /\ fut' = [fut EXCEPT ![t] = IF label = "acking" THEN "pending" ELSE "none"]
           /\ ackOwn' = IF label = "acking" THEN ackOwn \cup {t} ELSE ackOwn
           /\ label = "flush" => t \in Big
  BY DEF Fanout, Posts, Fails, Goto, NeedsFlush

\* The sender key of a send is one there is, or one made now.
LEMMA SenderKeyIs ==
  ASSUME NEW t, chain \in Session, made \in Nat
  PROVE  /\ SenderKey(t) \in Session /\ (Grouped(t) => SenderKey(t).id # 0)
         /\ SenderKey(t).id = chain.id \/ SenderKey(t).id = made + 1
         /\ SenderKey(t).id = chain.id => SenderKey(t) = chain
  BY DEF SenderKey, Session, None

\* What a fan-out puts on its way: a stanza that serves its list.
LEMMA FanoutServes ==
  ASSUME TypeOK, NEW t \in Sends, NEW all \in SUBSET Devices, NEW from \in [Others -> Session], Fanout(t, all, from)
  PROVE  /\ unserved \subseteq unserved' /\ unserved' \subseteq Sends \X Others
         /\ \E s \in [send : Sends, listed : SUBSET Devices, key : Nat, text : Nat, skdm : Nat,
                      copies : SUBSET [device : Others, id : Nat, gen : Nat, n : Nat]] :
              posted' \subseteq posted \cup {s} /\ Served(s)'
<1> USE FanoutAssumption
<1> DEFINE able == {d \in Targets(all) : from[d].id # 0}
           key  == SenderKey(t)
<1>1. PICK failing \in SUBSET able, textFails \in BOOLEAN :
         LET copies == {Copy(d, from) : d \in able \ failing} IN
           /\ unserved' = unserved \cup {<<t, d>> : d \in (Targets(all) \ able) \cup failing}
           /\ \/ ~textFails /\ copies # {}
                 /\ Posts(t, [send |-> t, listed |-> all, copies |-> copies,
                              key |-> key.id, text |-> key.n, skdm |-> Distributed(key)])
              \/ Fails(t)
  BY DEF Fanout
<1> DEFINE copies == {Copy(d, from) : d \in able \ failing}
           s == [send |-> t, listed |-> all, copies |-> copies, key |-> key.id, text |-> key.n, skdm |-> Distributed(key)]
<1>2. Targets(all) \subseteq Others /\ able \subseteq Others /\ key \in Session
  BY SenderKeyIs DEF Targets, Others, TypeOK
<1>3. copies \subseteq [device : Others, id : Nat, gen : Nat, n : Nat]
  BY <1>2 DEF Copy, Session
<1>4. s \in [send : Sends, listed : SUBSET Devices, key : Nat, text : Nat, skdm : Nat,
             copies : SUBSET [device : Others, id : Nat, gen : Nat, n : Nat]]
  BY <1>2, <1>3 DEF Session, Distributed
<1>5. unserved \subseteq unserved' /\ unserved' \subseteq Sends \X Others
  BY <1>1, <1>2 DEF TypeOK
<1>6. posted' \subseteq posted \cup {s}
  BY <1>1 DEF Posts, Fails
<1>7. PICK z : z = s
  OBVIOUS
<1>8. Served(z)'
  <2>1. z.send = t /\ z.listed = all /\ z.copies = copies /\ z.skdm = key.n /\ z.text = key.n
    BY <1>7 DEF Distributed
  <2>2. z.skdm <= z.text
    BY <1>2, <2>1 DEF Session
  <2>3. ASSUME NEW d \in all \ {Own} PROVE <<t, d>> \in unserved' \/ \E c \in copies : c.device = d
    <3>1. CASE d \in able \ failing
      <4>1. Copy(d, from) \in copies /\ Copy(d, from).device = d
        BY <3>1 DEF Copy
      <4> QED
        BY <4>1
    <3>2. CASE d \notin able \ failing
      BY <1>1, <3>2 DEF Targets
    <3> QED
      BY <3>1, <3>2
  <2> HIDE DEF copies, key
  <2> QED
    BY <2>1, <2>2, <2>3 DEF Served
<1>9. z \in [send : Sends, listed : SUBSET Devices, key : Nat, text : Nat, skdm : Nat,
             copies : SUBSET [device : Others, id : Nat, gen : Nat, n : Nat]]
  BY <1>4, <1>7
<1> QED
  BY <1>5, <1>6, <1>7, <1>8, <1>9

\* A key is ahead of the keys spent after it has moved on, and of new ones that
\* are not its own.
LEMMA AheadOf ==
  ASSUME NEW r \in Session, NEW q \in Session, q.id = r.id, q.n >= r.n, NEW who, NEW used, NEW more,
         \A k \in used : k[3] \in Nat, Ahead(who, r, used),
         \A k \in more : k[1] = who /\ k[2] = r.id => k[3] \in Nat /\ k[3] < q.n
  PROVE  Ahead(who, q, used \cup more)
  BY DEF Ahead, Session

\* What a fan-out spends was not spent before, and what it leaves in memory and
\* in signal.json is ahead of it.
LEMMA FanoutSpends ==
  ASSUME chain \in Session, made \in Nat, NEW t \in Sends, NEW all \in SUBSET Devices, NEW from \in [Others -> Session],
         Fanout(t, all, from), NEW count \in Nat,
         spent \subseteq (Others \cup {Group}) \X Nat \X Nat, \A k \in spent : k[2] \in 1 .. count, KeysUsedOnce,
         AllAhead(from, SenderKey(t), spent, count)
  PROVE  /\ spent' \subseteq (Others \cup {Group}) \X Nat \X Nat /\ \A k \in spent' : k[2] \in 1 .. count
         /\ ratchet' \in [Others -> Session] /\ chain' \in Session
         /\ disk' \in [ratchet : [Others -> Session], chain : Session]
         /\ AllAhead(ratchet', chain', spent', count) /\ AllAhead(disk'.ratchet, disk'.chain, spent', count)
         /\ chain'.id = SenderKey(t).id /\ KeysUsedOnce'
<1> USE FanoutAssumption
<1> DEFINE able == {d \in Targets(all) : from[d].id # 0}
           key  == SenderKey(t)
<1>1. PICK failing \in SUBSET able, unsaved \in SUBSET able, textFails \in BOOLEAN :
         LET copies == {Copy(d, from) : d \in able \ failing}
             text   == Grouped(t) /\ copies # {}
         IN
           /\ IF failing = {} /\ ~textFails THEN faults' = faults ELSE Fault
           /\ unsaved \subseteq failing /\ (text /\ ~textFails => unsaved = {}) /\ (textFails => text)
           /\ ratchet' = [d \in Others |-> IF d \in able THEN [from[d] EXCEPT !.n = @ + 1] ELSE from[d]]
           /\ chain' = IF text THEN [key EXCEPT !.n = @ + 1] ELSE key
           /\ Save([d \in Others |-> IF d \in unsaved THEN from[d] ELSE ratchet'[d]],
                   IF text /\ ~textFails THEN SavedSenderKey(chain') ELSE key)
           /\ unserved' = unserved \cup {<<t, d>> : d \in (Targets(all) \ able) \cup failing}
           /\ \/ ~textFails /\ copies # {}
                 /\ Posts(t, [send |-> t, listed |-> all, copies |-> copies,
                              key |-> key.id, text |-> key.n, skdm |-> Distributed(key)])
              \/ (textFails \/ copies = {} \/ link # "up") /\ Fails(t)
  BY DEF Fanout
<1> DEFINE copies == {Copy(d, from) : d \in able \ failing}
           text   == Grouped(t) /\ copies # {}
           keys   == {<<c.device, c.id, c.n>> : c \in copies} \cup (IF Grouped(t) THEN {<<Group, key.id, key.n>>} ELSE {})
<1>a. disk' = [ratchet |-> [d \in Others |-> IF d \in unsaved THEN from[d] ELSE ratchet'[d]],
               chain |-> IF text /\ ~textFails THEN chain' ELSE key]
  BY <1>1 DEF Save, SavedSenderKey
<1>2. able \subseteq Others /\ key \in Session /\ (Grouped(t) => key.id # 0) /\ key.id <= count
  BY SenderKeyIs DEF Targets, Others, AllAhead
<1>3. /\ \A d \in Others : from[d] \in Session /\ from[d].id <= count /\ Ahead(d, from[d], spent)
      /\ Ahead(Group, key, spent)
  BY DEF AllAhead
<1>4. Group \notin Others /\ \A k \in spent : k[3] \in Nat
  BY DEF Others
<1>5. \A k \in keys : \/ \E d \in able \ failing : k = <<d, from[d].id, from[d].n>>
                      \/ Grouped(t) /\ k = <<Group, key.id, key.n>>
  BY DEF Copy
<1>6. \/ UNCHANGED <<spent, reused>>
      \/ spent' = spent \cup keys /\ reused' = reused \cup (spent \cap keys) /\ ~textFails /\ copies # {}
  BY <1>1 DEF Posts, Fails
<1> HIDE DEF keys, able, key
<1>7. keys \subseteq (Others \cup {Group}) \X Nat \X Nat /\ \A k \in keys : k[2] \in 1 .. count
  <2>1. ASSUME NEW d \in able \ failing PROVE d \in Others /\ from[d].id \in 1 .. count /\ from[d].n \in Nat
    BY <1>2, <1>3 DEF able, Session
  <2>2. Grouped(t) => key.id \in 1 .. count /\ key.n \in Nat
    BY <1>2 DEF Session
  <2> QED
    BY <1>5, <2>1, <2>2
<1>8. spent \cap keys = {}
  <2> SUFFICES ASSUME NEW k \in spent, k \in keys PROVE FALSE
    OBVIOUS
  <2>1. CASE \E d \in able \ failing : k = <<d, from[d].id, from[d].n>>
    BY <1>2, <1>3, <2>1 DEF Ahead, Session
  <2>2. CASE k = <<Group, key.id, key.n>>
    BY <1>2, <1>3, <2>2 DEF Ahead, Session
  <2> QED
    BY <1>5, <2>1, <2>2
<1>9. /\ ratchet' \in [Others -> Session] /\ chain' \in Session
      /\ disk' \in [ratchet : [Others -> Session], chain : Session]
  <2>1. ratchet' \in [Others -> Session] /\ chain' \in Session
    BY <1>1, <1>2, <1>3 DEF Session, able, key
  <2>2. [d \in Others |-> IF d \in unsaved THEN from[d] ELSE ratchet'[d]] \in [Others -> Session]
    BY <2>1, <1>3
  <2> QED
    BY <1>a, <1>2, <2>1, <2>2 DEF key
<1>10. ASSUME NEW d \in Others
       PROVE  /\ ratchet'[d].id = from[d].id /\ Ahead(d, ratchet'[d], spent')
              /\ disk'.ratchet[d].id = from[d].id /\ Ahead(d, disk'.ratchet[d], spent')
  <2>1. /\ ratchet'[d] = IF d \in able THEN [from[d] EXCEPT !.n = @ + 1] ELSE from[d]
        /\ disk'.ratchet[d] = IF d \in unsaved THEN from[d] ELSE ratchet'[d]
    BY <1>1, <1>a DEF able, key
  <2>2. \A k \in keys : k[1] = d => d \in able \ failing /\ k[3] = from[d].n
    BY <1>4, <1>5
  <2>3. /\ from[d] \in Session /\ ratchet'[d] \in Session /\ disk'.ratchet[d] \in Session
        /\ ratchet'[d].id = from[d].id /\ disk'.ratchet[d].id = from[d].id
        /\ ratchet'[d].n >= from[d].n /\ disk'.ratchet[d].n >= from[d].n
        /\ d \in able \ failing => ratchet'[d].n = from[d].n + 1 /\ disk'.ratchet[d] = ratchet'[d]
    BY <1>1, <1>3, <2>1 DEF Session, able, key
  <2>4. \A k \in keys : k[1] = d => k[3] \in Nat /\ k[3] < ratchet'[d].n /\ k[3] < disk'.ratchet[d].n
    BY <2>2, <2>3 DEF Session
  <2>5. Ahead(d, ratchet'[d], spent \cup keys) /\ Ahead(d, disk'.ratchet[d], spent \cup keys)
    BY <1>3, <1>4, <2>3, <2>4, AheadOf
  <2>6. spent' \subseteq spent \cup keys
    BY <1>6
  <2> QED
    BY <2>3, <2>5, <2>6 DEF Ahead
<1>11. /\ chain'.id = key.id /\ Ahead(Group, chain', spent')
       /\ disk'.chain.id = key.id /\ Ahead(Group, disk'.chain, spent')
  <2>1. /\ chain' = IF text THEN [key EXCEPT !.n = @ + 1] ELSE key
        /\ disk'.chain = IF text /\ ~textFails THEN chain' ELSE key
    BY <1>1, <1>a DEF able, key
  <2>2. /\ chain'.id = key.id /\ disk'.chain.id = key.id /\ chain' \in Session /\ disk'.chain \in Session
        /\ chain'.n >= key.n /\ disk'.chain.n >= key.n
        /\ text /\ ~textFails => chain'.n = key.n + 1 /\ disk'.chain = chain'
    BY <1>2, <2>1 DEF Session
  <2>3. CASE UNCHANGED spent
    <3>1. Ahead(Group, chain', spent \cup {}) /\ Ahead(Group, disk'.chain, spent \cup {})
      BY <1>2, <1>3, <1>4, <2>2, AheadOf
    <3> QED
      BY <2>2, <2>3, <3>1
  <2>4. CASE spent' = spent \cup keys /\ ~textFails /\ copies # {}
    <3>1. \A k \in keys : k[1] = Group => Grouped(t) /\ k[3] = key.n
      BY <1>2, <1>4, <1>5
    <3>2. \A k \in keys : k[1] = Group => k[3] \in Nat /\ k[3] < chain'.n /\ k[3] < disk'.chain.n
      BY <1>2, <2>2, <2>4, <3>1 DEF Session
    <3>3. Ahead(Group, chain', spent \cup keys) /\ Ahead(Group, disk'.chain, spent \cup keys)
      BY <1>2, <1>3, <1>4, <2>2, <3>2, AheadOf
    <3> QED
      BY <2>2, <2>4, <3>3
  <2> QED
    BY <1>6, <2>3, <2>4
<1>12. KeysUsedOnce'
  BY <1>6, <1>8 DEF KeysUsedOnce
<1>13. spent' \subseteq spent \cup keys
  BY <1>6
<1> QED
  BY <1>7, <1>9, <1>10, <1>11, <1>12, <1>13 DEF AllAhead, key

\* A session or sender key made now is ahead: nothing has been spent under it.
LEMMA NewIsAhead ==
  ASSUME NEW count \in Nat, NEW used, \A k \in used : k[2] \in 1 .. count, NEW r, r.id = count + 1, NEW who
  PROVE  Ahead(who, r, used)
  BY DEF Ahead

\* What both ways to fan out have in common.
LEMMA Sending ==
  ASSUME IInv, NEW t \in Sends, Transmit(t) \/ TransmitWithBundles(t)
  PROVE  /\ \E label \in {"flush", "acking", "failed"} :
              /\ tpc' = [tpc EXCEPT ![t] = label]
              /\ fut' = [fut EXCEPT ![t] = IF label = "acking" THEN "pending" ELSE "none"]
              /\ ackOwn' = IF label = "acking" THEN ackOwn \cup {t} ELSE ackOwn
              /\ label = "flush" => t \in Big
         /\ unserved \subseteq unserved' /\ unserved' \subseteq Sends \X Others
         /\ \E s \in [send : Sends, listed : SUBSET Devices, key : Nat, text : Nat, skdm : Nat,
                      copies : SUBSET [device : Others, id : Nat, gen : Nat, n : Nat]] :
              posted' \subseteq posted \cup {s} /\ Served(s)'
         /\ spent' \subseteq (Others \cup {Group}) \X Nat \X Nat /\ \A k \in spent' : k[2] \in 1 .. made'
         /\ ratchet' \in [Others -> Session] /\ chain' \in Session
         /\ disk' \in [ratchet : [Others -> Session], chain : Session]
         /\ AllAhead(ratchet', chain', spent', made') /\ AllAhead(disk'.ratchet, disk'.chain, spent', made')
         /\ (chain.id # 0 => chain'.id # 0) /\ KeysUsedOnce'
         /\ made' \in Nat /\ faults' \in 0 .. MaxFaults /\ TransmitFrame(t) /\ tpc[t] \in {"devices", "keys"}
<1> USE FanoutAssumption DEF IInv, Keys
<1>1. chain \in Session /\ made \in Nat /\ ratchet \in [Others -> Session] /\ faults \in 0 .. MaxFaults
  BY DEF TypeOK
<1>2. spent \subseteq (Others \cup {Group}) \X Nat \X Nat /\ \A k \in spent : k[2] \in 1 .. made
  BY DEF Shapes, KeysAhead
<1>3. AllAhead(ratchet, chain, spent, made)
  BY DEF KeysAhead
<1>4. SenderKey(t) \in Session /\ SenderKey(t).id \in {chain.id, made + 1} /\ (SenderKey(t).id = chain.id => SenderKey(t) = chain)
  BY <1>1, SenderKeyIs
<1>5. PICK all \in SUBSET Devices, from \in [Others -> Session] :
        /\ Fanout(t, all, from) /\ made' \in {made, made + 1}
        /\ AllAhead(from, SenderKey(t), spent, made')
        /\ TransmitFrame(t) /\ tpc[t] \in {"devices", "keys"}
  <2>1. CASE Transmit(t)
    <3>1. /\ Fanout(t, reply[t], ratchet) /\ tpc[t] = "devices" /\ TransmitFrame(t)
          /\ made' = IF SenderKey(t) = chain THEN made ELSE made + 1
      BY <2>1 DEF Transmit
    <3>2. reply[t] \in SUBSET Devices
      BY <3>1 DEF Shapes
    <3>3. \A d \in Others : ratchet[d].id <= made' /\ Ahead(d, ratchet[d], spent)
      BY <1>1, <1>3, <3>1 DEF AllAhead, Session
    <3>4. SenderKey(t).id <= made' /\ Ahead(Group, SenderKey(t), spent)
      <4>1. CASE SenderKey(t) = chain
        BY <1>1, <1>3, <3>1, <4>1 DEF AllAhead
      <4>2. CASE SenderKey(t) # chain
        BY <1>1, <1>2, <1>4, <3>1, <4>2, NewIsAhead
      <4> QED
        BY <4>1, <4>2
    <3> QED
      BY <1>1, <3>1, <3>2, <3>3, <3>4 DEF AllAhead
  <2>2. CASE TransmitWithBundles(t)
    <3> DEFINE bundles == {b \in reply[t] : b[1] \in lacking[t]}
    <3>1. /\ Fanout(t, listed[t], Installed(bundles)) /\ tpc[t] = "keys" /\ TransmitFrame(t)
          /\ made' = IF bundles = {} THEN made ELSE made + 1
      BY <2>2 DEF TransmitWithBundles
    <3>2. bundles \subseteq Devices \X Nat /\ listed[t] \in SUBSET Devices
      BY <3>1 DEF Shapes
    <3>3. SenderKey(t) = chain
      BY <3>1 DEF KeyMade, SenderKey
    <3> HIDE DEF bundles
    <3>4. ASSUME NEW d \in Others
          PROVE  /\ Installed(bundles)[d] \in Session
                 /\ \/ Installed(bundles)[d] = ratchet[d]
                    \/ Installed(bundles)[d].id = made + 1 /\ bundles # {}
      <4>1. CASE \E b \in bundles : b[1] = d
        <5> DEFINE b == CHOOSE b \in bundles : b[1] = d
        <5>1. b \in bundles
          BY <4>1
        <5>2. Installed(bundles)[d] = [id |-> made + 1, gen |-> b[2], n |-> 0]
          BY <4>1 DEF Installed
        <5> QED
          BY <1>1, <3>2, <5>1, <5>2 DEF Session
      <4>2. CASE ~\E b \in bundles : b[1] = d
        BY <1>1, <4>2 DEF Installed
      <4> QED
        BY <4>1, <4>2
    <3>5. Installed(bundles) \in [Others -> Session]
      BY <3>4 DEF Installed
    <3>6. ASSUME NEW d \in Others PROVE Installed(bundles)[d].id <= made' /\ Ahead(d, Installed(bundles)[d], spent)
      <4>1. CASE Installed(bundles)[d] = ratchet[d]
        BY <1>1, <1>3, <3>1, <4>1 DEF AllAhead, Session
      <4>2. CASE Installed(bundles)[d].id = made + 1 /\ bundles # {}
        BY <1>1, <1>2, <3>1, <4>2, NewIsAhead
      <4> QED
        BY <3>4, <4>1, <4>2
    <3>7. SenderKey(t).id <= made' /\ Ahead(Group, SenderKey(t), spent)
      BY <1>1, <1>3, <3>1, <3>3 DEF AllAhead, Session
    <3> QED
      BY <1>1, <3>1, <3>2, <3>5, <3>6, <3>7 DEF AllAhead
  <2> QED
    BY <2>1, <2>2
<1>6. made' \in Nat /\ \A k \in spent : k[2] \in 1 .. made'
  BY <1>1, <1>2, <1>5
<1>7. /\ spent' \subseteq (Others \cup {Group}) \X Nat \X Nat /\ \A k \in spent' : k[2] \in 1 .. made'
      /\ ratchet' \in [Others -> Session] /\ chain' \in Session
      /\ disk' \in [ratchet : [Others -> Session], chain : Session]
      /\ AllAhead(ratchet', chain', spent', made') /\ AllAhead(disk'.ratchet, disk'.chain, spent', made')
      /\ chain'.id = SenderKey(t).id /\ KeysUsedOnce'
  BY <1>1, <1>2, <1>5, <1>6, FanoutSpends
<1>8. faults' \in 0 .. MaxFaults
  BY <1>1, <1>5 DEF Fanout, Fault
<1>9. chain.id # 0 => chain'.id # 0
  BY <1>1, <1>4, <1>7
<1> QED
  BY <1>5, <1>6, <1>7, <1>8, <1>9, FanoutEnds, FanoutServes

\* Every step keeps what is waited for where the reader looks.
LEMMA WaitsStep == IInv /\ [Next]_vars => Waits'
<1> SUFFICES ASSUME IInv, [Next]_vars PROVE Waits'
  OBVIOUS
<1> USE FanoutAssumption DEF IInv, TypeOK, vars, serverVars, wireVars, waiterVars, keyVars,
        taskVars, keyHistory
<1>1. ASSUME NEW ts \in Commands \ {{}}, Connect(ts) PROVE Waits'
  <2>1. Hosted'
    BY <1>1 DEF Connect, Ended, Hosted, Ended, Waits
  <2>2. Addressed'
    BY <1>1 DEF Connect, Ended, Addressed, Hosted, Ended, Waits
  <2>3. LargeWait'
    BY <1>1 DEF Connect, Ended, LargeWait, Waits
  <2>4. RepliesFindTheirSends'
    BY <1>1 DEF Connect, RepliesFindTheirSends, Waits
  <2> QED
    BY <2>1, <2>2, <2>3, <2>4 DEF Waits
<1>2. ASSUME Stop PROVE Waits'
  <2>1. Hosted'
    BY <1>2 DEF Stop, Closed, Hangup, Ended, Hosted, Ended, Waits
  <2>2. Addressed'
    BY <1>2 DEF Stop, Closed, Addressed
  <2>3. LargeWait'
    BY <1>2 DEF Stop, Closed, Hangup, Ended, LargeWait, Waits
  <2>4. RepliesFindTheirSends'
    BY <1>2 DEF Stop, Ended, RepliesFindTheirSends, Hosted, Ended, Waits
  <2> QED
    BY <2>1, <2>2, <2>3, <2>4 DEF Waits
<1>3. ASSUME Crash PROVE Waits'
  <2>1. Hosted'
    BY <1>3 DEF Crash, Ended, Hosted, Ended
  <2>2. Addressed'
    BY <1>3 DEF Crash, Closed, Addressed
  <2>3. LargeWait'
    BY <1>3 DEF Crash, Closed, Hangup, Ended, Fault, LargeWait, Waits
  <2>4. RepliesFindTheirSends'
    BY <1>3 DEF Crash, Ended, RepliesFindTheirSends, Ended, Waits
  <2> QED
    BY <2>1, <2>2, <2>3, <2>4 DEF Waits
<1>4. ASSUME LoseLink PROVE Waits'
  <2>1. Hosted'
    BY <1>4 DEF LoseLink, Hangup, Fault, Hosted, Ended, Waits
  <2>2. Addressed'
    BY <1>4 DEF LoseLink, Hangup, Fault, Addressed, Hosted, Ended, Waits
  <2>3. LargeWait'
    BY <1>4 DEF LoseLink, Hangup, Fault, LargeWait, Waits
  <2>4. RepliesFindTheirSends'
    BY <1>4 DEF LoseLink, RepliesFindTheirSends, Waits
  <2> QED
    BY <2>1, <2>2, <2>3, <2>4 DEF Waits
<1>5. ASSUME HandleEof PROVE Waits'
  <2>1. Hosted'
    BY <1>5 DEF HandleEof, Hosted, Ended, Waits
  <2>2. Addressed'
    BY <1>5 DEF HandleEof, Addressed, Hosted, Ended, Waits
  <2>3. LargeWait'
    BY <1>5 DEF HandleEof, LargeWait, Waits
  <2>4. RepliesFindTheirSends'
    <3>1. /\ UNCHANGED <<tpc, missed>>
          /\ \A t \in Sends : fut'[t] = "pending" =>
               fut[t] = "pending" /\ t \notin ackOwn /\ t # iqActive /\ \A w \in iqOwn : w[2] # t
      BY <1>5 DEF HandleEof
    <3>2. \A t \in Sends : <<tpc[t], t>>[2] = t
      OBVIOUS
    <3> QED
      BY <3>1, <3>2 DEF RepliesFindTheirSends, Waits
  <2> QED
    BY <2>1, <2>2, <2>3, <2>4 DEF Waits
<1>6. ASSUME NEW d \in Others, LinkDevice(d) PROVE Waits'
  <2>1. Hosted'
    BY <1>6 DEF LinkDevice, Change, Hosted, Ended, Waits
  <2>2. Addressed'
    BY <1>6 DEF LinkDevice, Change, Addressed, Hosted, Ended, Waits
  <2>3. LargeWait'
    BY <1>6 DEF LinkDevice, Change, LargeWait, Waits
  <2>4. RepliesFindTheirSends'
    BY <1>6 DEF LinkDevice, RepliesFindTheirSends, Waits
  <2> QED
    BY <2>1, <2>2, <2>3, <2>4 DEF Waits
<1>7. ASSUME NEW d \in Others, UnlinkDevice(d) PROVE Waits'
  <2>1. Hosted'
    BY <1>7 DEF UnlinkDevice, Change, Hosted, Ended, Waits
  <2>2. Addressed'
    BY <1>7 DEF UnlinkDevice, Change, Addressed, Hosted, Ended, Waits
  <2>3. LargeWait'
    BY <1>7 DEF UnlinkDevice, Change, LargeWait, Waits
  <2>4. RepliesFindTheirSends'
    BY <1>7 DEF UnlinkDevice, RepliesFindTheirSends, Waits
  <2> QED
    BY <2>1, <2>2, <2>3, <2>4 DEF Waits
<1>8. ASSUME NEW d \in Others, HearFrom(d) PROVE Waits'
  <2>1. Hosted'
    BY <1>8 DEF HearFrom, Change, Save, Hosted, Ended, Waits
  <2>2. Addressed'
    BY <1>8 DEF HearFrom, Change, Save, Addressed, Hosted, Ended, Waits
  <2>3. LargeWait'
    BY <1>8 DEF HearFrom, Change, Save, LargeWait, Waits
  <2>4. RepliesFindTheirSends'
    BY <1>8 DEF HearFrom, RepliesFindTheirSends, Waits
  <2> QED
    BY <2>1, <2>2, <2>3, <2>4 DEF Waits
<1>9. ASSUME NEW t \in Sends, HandleActive(t) PROVE Waits'
  <2>1. Hosted'
    BY <1>9 DEF HandleActive, Resolve, Hosted, Ended, Waits
  <2>2. Addressed'
    BY <1>9 DEF HandleActive, Resolve, Addressed, Hosted, Ended, Waits
  <2>3. LargeWait'
    BY <1>9 DEF HandleActive, Resolve, LargeWait, Waits
  <2>4. RepliesFindTheirSends'
    BY <1>9 DEF HandleActive, Resolve, RepliesFindTheirSends, Waits
  <2> QED
    BY <2>1, <2>2, <2>3, <2>4 DEF Waits
<1>10. ASSUME NEW t \in Sends, HandleAck(t) PROVE Waits'
  <2>1. Hosted'
    BY <1>10 DEF HandleAck, Resolve, Hosted, Ended, Waits
  <2>2. Addressed'
    BY <1>10 DEF HandleAck, Resolve, Addressed, Hosted, Ended, Waits
  <2>3. LargeWait'
    BY <1>10 DEF HandleAck, Resolve, LargeWait, Waits
  <2>4. RepliesFindTheirSends'
    BY <1>10 DEF HandleAck, Resolve, RepliesFindTheirSends, LargeWait, Waits
  <2> QED
    BY <2>1, <2>2, <2>3, <2>4 DEF Waits
<1>11. ASSUME NEW t, NEW k, <<k, t>> \in iqOwn, HandleReply(t, k) PROVE Waits'
  <2>1. Hosted'
    BY <1>11 DEF HandleReply, Resolve, Answers, DevicesOf, Hosted, Ended, Waits
  <2>2. Addressed'
    BY <1>11 DEF HandleReply, Addressed, Waits
  <2>3. LargeWait'
    BY <1>11 DEF HandleReply, Resolve, Answers, DevicesOf, LargeWait, Waits
  <2>4. RepliesFindTheirSends'
    BY <1>11 DEF HandleReply, Resolve, RepliesFindTheirSends, Waits
  <2> QED
    BY <2>1, <2>2, <2>3, <2>4 DEF Waits
<1>12. ASSUME NEW s \in posted, Accept(s) PROVE Waits'
  <2>1. Hosted'
    BY <1>12 DEF Accept, Stale, Hosted, Ended, Waits
  <2>2. Addressed'
    BY <1>12 DEF Accept, Stale, Addressed, Hosted, Ended, Waits
  <2>3. LargeWait'
    BY <1>12 DEF Accept, Stale, LargeWait, Waits
  <2>4. RepliesFindTheirSends'
    BY <1>12 DEF Accept, RepliesFindTheirSends, Waits
  <2> QED
    BY <2>1, <2>2, <2>3, <2>4 DEF Waits
<1>13. ASSUME NEW t \in Sends, BeginSend(t) PROVE Waits'
  <2>1. Hosted'
    BY <1>13 DEF BeginSend, Await, Goto, Hosted, Ended, Waits
  <2>2. Addressed'
    BY <1>13 DEF BeginSend, Await, Goto, Addressed, Hosted, Ended, Waits
  <2>3. LargeWait'
    BY <1>13 DEF BeginSend, Await, Goto, LargeWait, Waits
  <2>4. RepliesFindTheirSends'
    BY <1>13 DEF BeginSend, Await, Goto, RepliesFindTheirSends, Waits
  <2> QED
    BY <2>1, <2>2, <2>3, <2>4 DEF Waits
<1>14. ASSUME NEW t \in Sends, ActiveOver(t) PROVE Waits'
  <2>1. Hosted'
    BY <1>14 DEF ActiveOver, Query, Goto, Hosted, Ended, Waits
  <2>2. Addressed'
    BY <1>14 DEF ActiveOver, Query, Goto, Registered, Addressed, Waits
  <2>3. LargeWait'
    BY <1>14 DEF ActiveOver, Query, Goto, LargeWait, Waits
  <2>4. RepliesFindTheirSends'
    BY <1>14 DEF ActiveOver, Query, Await, Goto, Registered, Waiting, RepliesFindTheirSends, Waits
  <2> QED
    BY <2>1, <2>2, <2>3, <2>4 DEF Waits
<1>15. ASSUME NEW t \in Sends, MembersKnown(t) PROVE Waits'
  <2>1. Hosted'
    BY <1>15 DEF MembersKnown, Query, Goto, Hosted, Ended, Waits
  <2>2. Addressed'
    BY <1>15 DEF MembersKnown, Query, Goto, Registered, Waiting, Addressed, Waits
  <2>3. LargeWait'
    BY <1>15 DEF MembersKnown, Query, Goto, LargeWait, Waits
  <2>4. RepliesFindTheirSends'
    BY <1>15 DEF MembersKnown, Query, Await, Goto, Registered, Waiting, RepliesFindTheirSends, Waits
  <2> QED
    BY <2>1, <2>2, <2>3, <2>4 DEF Waits
<1>16. ASSUME NEW t \in Sends, GiveUp(t) PROVE Waits'
  <2>1. Hosted'
    BY <1>16 DEF GiveUp, Waiting, Goto, Hosted, Ended, Waits
  <2>2. Addressed'
    BY <1>16 DEF GiveUp, Waiting, Goto, Addressed, Hosted, Ended, Waits
  <2>3. LargeWait'
    BY <1>16 DEF GiveUp, Waiting, Goto, LargeWait, Waits
  <2>4. RepliesFindTheirSends'
    BY <1>16 DEF GiveUp, Waiting, Goto, RepliesFindTheirSends, Waits
  <2> QED
    BY <2>1, <2>2, <2>3, <2>4 DEF Waits
<1>17. ASSUME NEW t \in Sends, DevicesKnown(t) PROVE Waits'
  <2>1. Hosted'
    BY <1>17 DEF DevicesKnown, Query, Goto, Hosted, Ended, Waits
  <2>2. Addressed'
    BY <1>17 DEF DevicesKnown, Query, Goto, Registered, Waiting, Addressed, Waits
  <2>3. LargeWait'
    BY <1>17 DEF DevicesKnown, Query, Goto, LargeWait, Waits
  <2>4. RepliesFindTheirSends'
    BY <1>17 DEF DevicesKnown, Query, Await, Goto, Registered, Waiting, RepliesFindTheirSends, Waits
  <2> QED
    BY <2>1, <2>2, <2>3, <2>4 DEF Waits
<1>18. ASSUME NEW t \in Sends, Transmit(t) PROVE Waits'
  <2>a. PICK label \in {"flush", "acking", "failed"} :
              /\ tpc' = [tpc EXCEPT ![t] = label]
              /\ fut' = [fut EXCEPT ![t] = IF label = "acking" THEN "pending" ELSE "none"]
              /\ ackOwn' = IF label = "acking" THEN ackOwn \cup {t} ELSE ackOwn
              /\ label = "flush" => t \in Big
    BY <1>18, Sending
  <2>b. TransmitFrame(t) /\ tpc[t] \in {"devices", "keys"}
    BY <1>18, Sending
  <2>1. Hosted'
    BY <2>a, <2>b DEF TransmitFrame, Waiting, Hosted, Ended, Waits
  <2>2. Addressed'
    BY <2>a, <2>b DEF TransmitFrame, Waiting, Addressed, Hosted, Ended, Waits
  <2>3. LargeWait'
    BY <2>a, <2>b DEF TransmitFrame, Waiting, LargeWait, Waits
  <2>4. RepliesFindTheirSends'
    BY <2>a, <2>b DEF TransmitFrame, Waiting, RepliesFindTheirSends, Addressed, LargeWait, Waits
  <2> QED
    BY <2>1, <2>2, <2>3, <2>4 DEF Waits
<1>19. ASSUME NEW t \in Sends, TransmitWithBundles(t) PROVE Waits'
  <2>a. PICK label \in {"flush", "acking", "failed"} :
              /\ tpc' = [tpc EXCEPT ![t] = label]
              /\ fut' = [fut EXCEPT ![t] = IF label = "acking" THEN "pending" ELSE "none"]
              /\ ackOwn' = IF label = "acking" THEN ackOwn \cup {t} ELSE ackOwn
              /\ label = "flush" => t \in Big
    BY <1>19, Sending
  <2>b. TransmitFrame(t) /\ tpc[t] \in {"devices", "keys"}
    BY <1>19, Sending
  <2>1. Hosted'
    BY <2>a, <2>b DEF TransmitFrame, Waiting, Hosted, Ended, Waits
  <2>2. Addressed'
    BY <2>a, <2>b DEF TransmitFrame, Waiting, Addressed, Hosted, Ended, Waits
  <2>3. LargeWait'
    BY <2>a, <2>b DEF TransmitFrame, Waiting, LargeWait, Waits
  <2>4. RepliesFindTheirSends'
    BY <2>a, <2>b DEF TransmitFrame, Waiting, RepliesFindTheirSends, Addressed, LargeWait, Waits
  <2> QED
    BY <2>1, <2>2, <2>3, <2>4 DEF Waits
<1>20. ASSUME NEW t \in Sends, WaitAck(t) PROVE Waits'
  <2>1. Hosted'
    BY <1>20 DEF WaitAck, Await, Goto, Hosted, Ended, Waits
  <2>2. Addressed'
    BY <1>20 DEF WaitAck, Await, Goto, Addressed, Hosted, Ended, Waits
  <2>3. LargeWait'
    BY <1>20 DEF WaitAck, Await, Goto, LargeWait, Waits
  <2>4. RepliesFindTheirSends'
    BY <1>20 DEF WaitAck, Await, Goto, RepliesFindTheirSends, Waits
  <2> QED
    BY <2>1, <2>2, <2>3, <2>4 DEF Waits
<1>21. ASSUME NEW t \in Sends, Sent(t) PROVE Waits'
  <2>1. Hosted'
    BY <1>21 DEF Sent, Over, Goto, Acked, Hosted, Ended, Waits
  <2>2. Addressed'
    BY <1>21 DEF Sent, Over, Goto, Addressed, Waits
  <2>3. LargeWait'
    BY <1>21 DEF Sent, Over, Goto, Acked, LargeWait, Waits
  <2>4. RepliesFindTheirSends'
    BY <1>21 DEF Sent, Over, Goto, RepliesFindTheirSends, Waits
  <2> QED
    BY <2>1, <2>2, <2>3, <2>4 DEF Waits
<1>22. ASSUME NEW t \in Sends, NoAck(t) PROVE Waits'
  <2>1. Hosted'
    BY <1>22 DEF NoAck, Over, Goto, Hosted, Ended, Waits
  <2>2. Addressed'
    BY <1>22 DEF NoAck, Over, Goto, Addressed, Hosted, Ended, Waits
  <2>3. LargeWait'
    BY <1>22 DEF NoAck, Over, Goto, LargeWait, Waits
  <2>4. RepliesFindTheirSends'
    BY <1>22 DEF NoAck, Over, Goto, RepliesFindTheirSends, Waits
  <2> QED
    BY <2>1, <2>2, <2>3, <2>4 DEF Waits
<1>23. CASE UNCHANGED vars
  BY <1>23 DEF Waits, Hosted, Ended, Addressed, LargeWait, RepliesFindTheirSends
<1>24. \A w \in iqOwn : w = <<w[1], w[2]>>
  BY DEF TypeOK
<1> HIDE DEF IInv, TypeOK
<1> QED
  BY <1>1, <1>2, <1>3, <1>4, <1>5, <1>6, <1>7, <1>8, <1>9, <1>10, <1>11, <1>12, <1>13, <1>14,
     <1>15, <1>16,
    <1>17, <1>18, <1>19, <1>20, <1>21, <1>22, <1>23, <1>24 DEF Next, Step

\* Every step keeps the acks honest.
LEMMA AcksStep == IInv /\ [Next]_vars => Acks'
<1> SUFFICES ASSUME IInv, [Next]_vars PROVE Acks'
  OBVIOUS
<1> USE FanoutAssumption DEF IInv, TypeOK, vars, serverVars, wireVars, waiterVars, keyVars,
        taskVars, keyHistory
<1>1. ASSUME NEW ts \in Commands \ {{}}, Connect(ts) PROVE Acks'
  <2>1. AcksAnswer'
    BY <1>1 DEF Connect, Acks, AcksAnswer, Answered
  <2>2. OwnLineMeansAccepted'
    BY <1>1 DEF Connect, Ended, Acks, AcksAnswer, Answered, OwnLineMeansAccepted
  <2> QED
    BY <2>1, <2>2 DEF Acks
<1>2. ASSUME Stop PROVE Acks'
  <2>1. AcksAnswer'
    BY <1>2 DEF Stop, Closed, Hangup, AcksAnswer
  <2>2. OwnLineMeansAccepted'
    BY <1>2 DEF Stop, Acks, OwnLineMeansAccepted
  <2> QED
    BY <2>1, <2>2 DEF Acks
<1>3. ASSUME Crash PROVE Acks'
  <2>1. AcksAnswer'
    BY <1>3 DEF Crash, Closed, Hangup, AcksAnswer
  <2>2. OwnLineMeansAccepted'
    BY <1>3 DEF Crash, Acks, OwnLineMeansAccepted
  <2> QED
    BY <2>1, <2>2 DEF Acks
<1>4. ASSUME LoseLink PROVE Acks'
  <2>1. AcksAnswer'
    BY <1>4 DEF LoseLink, Hangup, Acks, AcksAnswer, Answered
  <2>2. OwnLineMeansAccepted'
    BY <1>4 DEF LoseLink, Hangup, Fault, Acks, AcksAnswer, Answered, OwnLineMeansAccepted
  <2> QED
    BY <2>1, <2>2 DEF Acks
<1>5. ASSUME HandleEof PROVE Acks'
  <2>1. AcksAnswer'
    BY <1>5 DEF HandleEof, Acks, AcksAnswer, Answered, Waits, Addressed, Ended
  <2>2. OwnLineMeansAccepted'
    BY <1>5 DEF HandleEof, Acks, AcksAnswer, Answered, OwnLineMeansAccepted
  <2> QED
    BY <2>1, <2>2 DEF Acks
<1>6. ASSUME NEW d \in Others, LinkDevice(d) PROVE Acks'
  <2>1. AcksAnswer'
    BY <1>6 DEF LinkDevice, Acks, AcksAnswer, Answered
  <2>2. OwnLineMeansAccepted'
    BY <1>6 DEF LinkDevice, Change, Acks, AcksAnswer, Answered, OwnLineMeansAccepted
  <2> QED
    BY <2>1, <2>2 DEF Acks
<1>7. ASSUME NEW d \in Others, UnlinkDevice(d) PROVE Acks'
  <2>1. AcksAnswer'
    BY <1>7 DEF UnlinkDevice, Acks, AcksAnswer, Answered
  <2>2. OwnLineMeansAccepted'
    BY <1>7 DEF UnlinkDevice, Change, Acks, AcksAnswer, Answered, OwnLineMeansAccepted
  <2> QED
    BY <2>1, <2>2 DEF Acks
<1>8. ASSUME NEW d \in Others, HearFrom(d) PROVE Acks'
  <2>1. AcksAnswer'
    BY <1>8 DEF HearFrom, Acks, AcksAnswer, Answered
  <2>2. OwnLineMeansAccepted'
    BY <1>8 DEF HearFrom, Change, Save, Acks, AcksAnswer, Answered, OwnLineMeansAccepted
  <2> QED
    BY <2>1, <2>2 DEF Acks
<1>9. ASSUME NEW t \in Sends, HandleActive(t) PROVE Acks'
  <2>1. AcksAnswer'
    BY <1>9 DEF HandleActive, Resolve, Acks, AcksAnswer, Answered, Waits, Addressed
  <2>2. OwnLineMeansAccepted'
    BY <1>9 DEF HandleActive, Resolve, Acks, AcksAnswer, Answered, OwnLineMeansAccepted
  <2> QED
    BY <2>1, <2>2 DEF Acks
<1>10. ASSUME NEW t \in Sends, HandleAck(t) PROVE Acks'
  <2>1. AcksAnswer'
    BY <1>10 DEF HandleAck, Resolve, Acks, AcksAnswer, Answered
  <2>2. OwnLineMeansAccepted'
    BY <1>10 DEF HandleAck, Resolve, Acks, AcksAnswer, Answered, OwnLineMeansAccepted
  <2> QED
    BY <2>1, <2>2 DEF Acks
<1>11. ASSUME NEW t, NEW k, <<k, t>> \in iqOwn, HandleReply(t, k) PROVE Acks'
  <2>1. AcksAnswer'
    BY <1>11 DEF HandleReply, Resolve, Acks, AcksAnswer, Answered, Waits, Addressed
  <2>2. OwnLineMeansAccepted'
    BY <1>11 DEF HandleReply, Acks, OwnLineMeansAccepted
  <2> QED
    BY <2>1, <2>2 DEF Acks
<1>12. ASSUME NEW s \in posted, Accept(s) PROVE Acks'
  <2>1. AcksAnswer'
    <3>1. /\ acks' = acks \cup {s.send} /\ UNCHANGED <<tpc, fut>>
          /\ accepted \subseteq accepted' /\ refused \subseteq refused'
      BY <1>12 DEF Accept
    <3>2. Answered(s.send)'
      <4>1. CASE s.send \in refused'
        BY <4>1 DEF Answered
      <4>2. CASE s.send \notin refused'
        <5> DEFINE a == [send |-> s.send, blind |-> {d \in Reached(s) : ~Reads(d, s)}, gen |-> gen, copies |-> s.copies]
        <5>1. a \in accepted' /\ a.send = s.send
          BY <1>12, <4>2 DEF Accept
        <5> QED
          BY <5>1 DEF Answered
      <4> QED
        BY <4>1, <4>2
    <3>3. \A u : Answered(u) => Answered(u)'
      BY <3>1 DEF Answered
    <3> QED
      BY <3>1, <3>2, <3>3 DEF Acks, AcksAnswer
  <2>2. OwnLineMeansAccepted'
    BY <1>12 DEF Accept, Stale, Acks, AcksAnswer, Answered, OwnLineMeansAccepted
  <2> QED
    BY <2>1, <2>2 DEF Acks
<1>13. ASSUME NEW t \in Sends, BeginSend(t) PROVE Acks'
  <2>1. AcksAnswer'
    BY <1>13 DEF BeginSend, Await, Goto, Acks, AcksAnswer, Answered
  <2>2. OwnLineMeansAccepted'
    BY <1>13 DEF BeginSend, Await, Goto, Acks, AcksAnswer, Answered, OwnLineMeansAccepted
  <2> QED
    BY <2>1, <2>2 DEF Acks
<1>14. ASSUME NEW t \in Sends, ActiveOver(t) PROVE Acks'
  <2>1. AcksAnswer'
    BY <1>14 DEF ActiveOver, Query, Await, Goto, Acks, AcksAnswer, Answered
  <2>2. OwnLineMeansAccepted'
    BY <1>14 DEF ActiveOver, Query, Acks, OwnLineMeansAccepted
  <2> QED
    BY <2>1, <2>2 DEF Acks
<1>15. ASSUME NEW t \in Sends, MembersKnown(t) PROVE Acks'
  <2>1. AcksAnswer'
    BY <1>15 DEF MembersKnown, Query, Await, Goto, Acks, AcksAnswer, Answered
  <2>2. OwnLineMeansAccepted'
    BY <1>15 DEF MembersKnown, Query, Acks, OwnLineMeansAccepted
  <2> QED
    BY <2>1, <2>2 DEF Acks
<1>16. ASSUME NEW t \in Sends, GiveUp(t) PROVE Acks'
  <2>1. AcksAnswer'
    BY <1>16 DEF GiveUp, Goto, Acks, AcksAnswer, Answered
  <2>2. OwnLineMeansAccepted'
    BY <1>16 DEF GiveUp, Waiting, Goto, Acks, AcksAnswer, Answered, OwnLineMeansAccepted
  <2> QED
    BY <2>1, <2>2 DEF Acks
<1>17. ASSUME NEW t \in Sends, DevicesKnown(t) PROVE Acks'
  <2>1. AcksAnswer'
    BY <1>17 DEF DevicesKnown, Query, Await, Goto, Acks, AcksAnswer, Answered
  <2>2. OwnLineMeansAccepted'
    BY <1>17 DEF DevicesKnown, Query, Acks, OwnLineMeansAccepted
  <2> QED
    BY <2>1, <2>2 DEF Acks
<1>18. ASSUME NEW t \in Sends, Transmit(t) PROVE Acks'
  <2>a. PICK label \in {"flush", "acking", "failed"} :
              /\ tpc' = [tpc EXCEPT ![t] = label]
              /\ fut' = [fut EXCEPT ![t] = IF label = "acking" THEN "pending" ELSE "none"]
              /\ ackOwn' = IF label = "acking" THEN ackOwn \cup {t} ELSE ackOwn
              /\ label = "flush" => t \in Big
    BY <1>18, Sending
  <2>b. TransmitFrame(t) /\ tpc[t] \in {"devices", "keys"}
    BY <1>18, Sending
  <2>c. UNCHANGED <<acks, accepted, refused, mine>>
    BY <2>b DEF TransmitFrame
  <2>1. AcksAnswer'
    BY <2>a, <2>c DEF Acks, AcksAnswer, Answered
  <2>2. OwnLineMeansAccepted'
    BY <2>a, <2>c DEF Acks, OwnLineMeansAccepted
  <2> QED
    BY <2>1, <2>2 DEF Acks
<1>19. ASSUME NEW t \in Sends, TransmitWithBundles(t) PROVE Acks'
  <2>a. PICK label \in {"flush", "acking", "failed"} :
              /\ tpc' = [tpc EXCEPT ![t] = label]
              /\ fut' = [fut EXCEPT ![t] = IF label = "acking" THEN "pending" ELSE "none"]
              /\ ackOwn' = IF label = "acking" THEN ackOwn \cup {t} ELSE ackOwn
              /\ label = "flush" => t \in Big
    BY <1>19, Sending
  <2>b. TransmitFrame(t) /\ tpc[t] \in {"devices", "keys"}
    BY <1>19, Sending
  <2>c. UNCHANGED <<acks, accepted, refused, mine>>
    BY <2>b DEF TransmitFrame
  <2>1. AcksAnswer'
    BY <2>a, <2>c DEF Acks, AcksAnswer, Answered
  <2>2. OwnLineMeansAccepted'
    BY <2>a, <2>c DEF Acks, OwnLineMeansAccepted
  <2> QED
    BY <2>1, <2>2 DEF Acks
<1>20. ASSUME NEW t \in Sends, WaitAck(t) PROVE Acks'
  <2>1. AcksAnswer'
    BY <1>20 DEF WaitAck, Await, Goto, Acks, AcksAnswer, Answered
  <2>2. OwnLineMeansAccepted'
    BY <1>20 DEF WaitAck, Await, Goto, Acks, AcksAnswer, Answered, OwnLineMeansAccepted
  <2> QED
    BY <2>1, <2>2 DEF Acks
<1>21. ASSUME NEW t \in Sends, Sent(t) PROVE Acks'
  <2>1. AcksAnswer'
    BY <1>21 DEF Sent, Over, Goto, Acks, AcksAnswer, Answered
  <2>2. OwnLineMeansAccepted'
    BY <1>21 DEF Sent, Over, Acked, Acks, AcksAnswer, Answered, OwnLineMeansAccepted
  <2> QED
    BY <2>1, <2>2 DEF Acks
<1>22. ASSUME NEW t \in Sends, NoAck(t) PROVE Acks'
  <2>1. AcksAnswer'
    BY <1>22 DEF NoAck, Over, Goto, Acks, AcksAnswer, Answered
  <2>2. OwnLineMeansAccepted'
    BY <1>22 DEF NoAck, Over, Goto, Acks, AcksAnswer, Answered, OwnLineMeansAccepted
  <2> QED
    BY <2>1, <2>2 DEF Acks
<1>23. CASE UNCHANGED vars
  BY <1>23 DEF Acks, AcksAnswer, Answered, Waits, Addressed, Ended, OwnLineMeansAccepted
<1>24. \A w \in iqOwn : w = <<w[1], w[2]>>
  BY DEF TypeOK
<1> HIDE DEF IInv, TypeOK
<1> QED
  BY <1>1, <1>2, <1>3, <1>4, <1>5, <1>6, <1>7, <1>8, <1>9, <1>10, <1>11, <1>12, <1>13, <1>14,
     <1>15, <1>16,
    <1>17, <1>18, <1>19, <1>20, <1>21, <1>22, <1>23, <1>24 DEF Next, Step

\* Every step keeps memory and signal.json ahead of the keys that are spent.
LEMMA KeysStep == IInv /\ [Next]_vars => Keys'
<1> SUFFICES ASSUME IInv, [Next]_vars PROVE Keys'
  OBVIOUS
<1> USE FanoutAssumption DEF IInv, TypeOK, Session, vars, serverVars, wireVars, waiterVars,
        keyVars, taskVars, keyHistory
<1>1. ASSUME NEW ts \in Commands \ {{}}, Connect(ts) PROVE Keys'
  <2>1. KeyMade'
    BY <1>1 DEF Connect, Ended, Keys, KeyMade, Waits, Hosted, Ended
  <2>2. KeysAhead'
    BY <1>1 DEF Connect, Ended, Keys, KeysAhead, AllAhead, Ahead, None
  <2>3. KeysUsedOnce'
    BY <1>1 DEF Connect, Ended, Keys, KeysUsedOnce
  <2> QED
    BY <2>1, <2>2, <2>3 DEF Keys
<1>2. ASSUME Stop PROVE Keys'
  <2>1. KeyMade'
    <3>1. tpc' = tpc /\ \A t \in Sends : tpc[t] # "keys"
      BY <1>2 DEF Stop, Waits, Hosted, Ended
    <3> QED
      BY <3>1 DEF KeyMade
  <2>2. KeysAhead'
    BY <1>2 DEF Stop, Closed, Keys, KeysAhead, AllAhead, Ahead, None
  <2>3. KeysUsedOnce'
    BY <1>2 DEF Stop, Closed, Hangup, Ended, Keys, KeysUsedOnce
  <2> QED
    BY <2>1, <2>2, <2>3 DEF Keys
<1>3. ASSUME Crash PROVE Keys'
  <2>1. KeyMade'
    BY <1>3 DEF Crash, Ended, KeyMade, Ended
  <2>2. KeysAhead'
    BY <1>3 DEF Crash, Closed, Keys, KeysAhead, AllAhead, Ahead, None
  <2>3. KeysUsedOnce'
    BY <1>3 DEF Crash, Closed, Hangup, Ended, Fault, Keys, KeysUsedOnce
  <2> QED
    BY <2>1, <2>2, <2>3 DEF Keys
<1>4. ASSUME LoseLink PROVE Keys'
  <2>1. KeyMade'
    BY <1>4 DEF LoseLink, Keys, KeyMade
  <2>2. KeysAhead'
    BY <1>4 DEF LoseLink, Keys, KeysAhead
  <2>3. KeysUsedOnce'
    BY <1>4 DEF LoseLink, Hangup, Fault, Keys, KeysUsedOnce
  <2> QED
    BY <2>1, <2>2, <2>3 DEF Keys
<1>5. ASSUME HandleEof PROVE Keys'
  <2>1. KeyMade'
    BY <1>5 DEF HandleEof, Keys, KeyMade, Waits, Hosted, Ended
  <2>2. KeysAhead'
    BY <1>5 DEF HandleEof, Keys, KeysAhead, AllAhead, Ahead, None
  <2>3. KeysUsedOnce'
    BY <1>5 DEF HandleEof, Keys, KeysUsedOnce
  <2> QED
    BY <2>1, <2>2, <2>3 DEF Keys
<1>6. ASSUME NEW d \in Others, LinkDevice(d) PROVE Keys'
  <2>1. KeyMade'
    BY <1>6 DEF LinkDevice, Change, Keys, KeyMade, Waits, Hosted, Ended
  <2>2. KeysAhead'
    BY <1>6 DEF LinkDevice, Change, Keys, KeysAhead, AllAhead, Ahead, None
  <2>3. KeysUsedOnce'
    BY <1>6 DEF LinkDevice, Change, Keys, KeysUsedOnce
  <2> QED
    BY <2>1, <2>2, <2>3 DEF Keys
<1>7. ASSUME NEW d \in Others, UnlinkDevice(d) PROVE Keys'
  <2>1. KeyMade'
    BY <1>7 DEF UnlinkDevice, Change, Keys, KeyMade, Waits, Hosted, Ended
  <2>2. KeysAhead'
    BY <1>7 DEF UnlinkDevice, Change, Keys, KeysAhead, AllAhead, Ahead, None
  <2>3. KeysUsedOnce'
    BY <1>7 DEF UnlinkDevice, Change, Keys, KeysUsedOnce
  <2> QED
    BY <2>1, <2>2, <2>3 DEF Keys
<1>8. ASSUME NEW d \in Others, HearFrom(d) PROVE Keys'
  <2>1. KeyMade'
    BY <1>8 DEF HearFrom, Keys, KeyMade
  <2>2. KeysAhead'
    BY <1>8 DEF HearFrom, Save, Keys, KeysAhead, AllAhead, Ahead
  <2>3. KeysUsedOnce'
    BY <1>8 DEF HearFrom, Change, Save, Keys, KeysUsedOnce
  <2> QED
    BY <2>1, <2>2, <2>3 DEF Keys
<1>9. ASSUME NEW t \in Sends, HandleActive(t) PROVE Keys'
  <2>1. KeyMade'
    BY <1>9 DEF HandleActive, Resolve, Keys, KeyMade, Waits, Hosted, Ended
  <2>2. KeysAhead'
    BY <1>9 DEF HandleActive, Resolve, Keys, KeysAhead, AllAhead, Ahead, None
  <2>3. KeysUsedOnce'
    BY <1>9 DEF HandleActive, Resolve, Keys, KeysUsedOnce
  <2> QED
    BY <2>1, <2>2, <2>3 DEF Keys
<1>10. ASSUME NEW t \in Sends, HandleAck(t) PROVE Keys'
  <2>1. KeyMade'
    BY <1>10 DEF HandleAck, Resolve, Keys, KeyMade, Waits, Hosted, Ended
  <2>2. KeysAhead'
    BY <1>10 DEF HandleAck, Resolve, Keys, KeysAhead, AllAhead, Ahead, None
  <2>3. KeysUsedOnce'
    BY <1>10 DEF HandleAck, Resolve, Keys, KeysUsedOnce
  <2> QED
    BY <2>1, <2>2, <2>3 DEF Keys
<1>11. ASSUME NEW t, NEW k, <<k, t>> \in iqOwn, HandleReply(t, k) PROVE Keys'
  <2>1. KeyMade'
    BY <1>11 DEF HandleReply, Keys, KeyMade
  <2>2. KeysAhead'
    BY <1>11 DEF HandleReply, Keys, KeysAhead
  <2>3. KeysUsedOnce'
    BY <1>11 DEF HandleReply, Resolve, Answers, DevicesOf, Keys, KeysUsedOnce
  <2> QED
    BY <2>1, <2>2, <2>3 DEF Keys
<1>12. ASSUME NEW s \in posted, Accept(s) PROVE Keys'
  <2>1. KeyMade'
    BY <1>12 DEF Accept, Stale, Keys, KeyMade, Waits, Hosted, Ended
  <2>2. KeysAhead'
    BY <1>12 DEF Accept, Stale, Keys, KeysAhead, AllAhead, Ahead, None
  <2>3. KeysUsedOnce'
    BY <1>12 DEF Accept, Stale, Keys, KeysUsedOnce
  <2> QED
    BY <2>1, <2>2, <2>3 DEF Keys
<1>13. ASSUME NEW t \in Sends, BeginSend(t) PROVE Keys'
  <2>1. KeyMade'
    BY <1>13 DEF BeginSend, Goto, Keys, KeyMade
  <2>2. KeysAhead'
    BY <1>13 DEF BeginSend, Keys, KeysAhead
  <2>3. KeysUsedOnce'
    BY <1>13 DEF BeginSend, Await, Goto, Keys, KeysUsedOnce
  <2> QED
    BY <2>1, <2>2, <2>3 DEF Keys
<1>14. ASSUME NEW t \in Sends, ActiveOver(t) PROVE Keys'
  <2>1. KeyMade'
    BY <1>14 DEF ActiveOver, Query, Goto, Keys, KeyMade
  <2>2. KeysAhead'
    BY <1>14 DEF ActiveOver, Query, Keys, KeysAhead
  <2>3. KeysUsedOnce'
    BY <1>14 DEF ActiveOver, Query, Keys, KeysUsedOnce
  <2> QED
    BY <2>1, <2>2, <2>3 DEF Keys
<1>15. ASSUME NEW t \in Sends, MembersKnown(t) PROVE Keys'
  <2>1. KeyMade'
    BY <1>15 DEF MembersKnown, Query, Goto, Keys, KeyMade
  <2>2. KeysAhead'
    BY <1>15 DEF MembersKnown, Query, Keys, KeysAhead
  <2>3. KeysUsedOnce'
    BY <1>15 DEF MembersKnown, Query, Keys, KeysUsedOnce
  <2> QED
    BY <2>1, <2>2, <2>3 DEF Keys
<1>16. ASSUME NEW t \in Sends, GiveUp(t) PROVE Keys'
  <2>1. KeyMade'
    BY <1>16 DEF GiveUp, Goto, Keys, KeyMade
  <2>2. KeysAhead'
    BY <1>16 DEF GiveUp, Keys, KeysAhead
  <2>3. KeysUsedOnce'
    BY <1>16 DEF GiveUp, Waiting, Goto, Keys, KeysUsedOnce
  <2> QED
    BY <2>1, <2>2, <2>3 DEF Keys
<1>17. ASSUME NEW t \in Sends, DevicesKnown(t) PROVE Keys'
  <2>1. KeyMade'
    BY <1>17 DEF DevicesKnown, Query, Goto, SenderKey, Keys, KeyMade
  <2>2. KeysAhead'
    BY <1>17 DEF DevicesKnown, Query, SenderKey, Save, Keys, KeysAhead, AllAhead, Ahead
  <2>3. KeysUsedOnce'
    BY <1>17 DEF DevicesKnown, Query, Keys, KeysUsedOnce
  <2> QED
    BY <2>1, <2>2, <2>3 DEF Keys
<1>18. ASSUME NEW t \in Sends, Transmit(t) PROVE Keys'
  <2>a. PICK label \in {"flush", "acking", "failed"} :
              /\ tpc' = [tpc EXCEPT ![t] = label]
              /\ fut' = [fut EXCEPT ![t] = IF label = "acking" THEN "pending" ELSE "none"]
              /\ ackOwn' = IF label = "acking" THEN ackOwn \cup {t} ELSE ackOwn
              /\ label = "flush" => t \in Big
    BY <1>18, Sending
  <2>b. TransmitFrame(t) /\ tpc[t] \in {"devices", "keys"}
    BY <1>18, Sending
  <2>c. /\ \A k \in spent' : k[2] \in 1 .. made'
        /\ AllAhead(ratchet', chain', spent', made') /\ AllAhead(disk'.ratchet, disk'.chain, spent', made')
        /\ (chain.id # 0 => chain'.id # 0) /\ KeysUsedOnce'
    BY <1>18, Sending
  <2>1. KeyMade'
    BY <2>a, <2>b, <2>c DEF Keys, KeyMade
  <2>2. KeysAhead'
    BY <2>c DEF KeysAhead
  <2>3. KeysUsedOnce'
    BY <2>c
  <2> QED
    BY <2>1, <2>2, <2>3 DEF Keys
<1>19. ASSUME NEW t \in Sends, TransmitWithBundles(t) PROVE Keys'
  <2>a. PICK label \in {"flush", "acking", "failed"} :
              /\ tpc' = [tpc EXCEPT ![t] = label]
              /\ fut' = [fut EXCEPT ![t] = IF label = "acking" THEN "pending" ELSE "none"]
              /\ ackOwn' = IF label = "acking" THEN ackOwn \cup {t} ELSE ackOwn
              /\ label = "flush" => t \in Big
    BY <1>19, Sending
  <2>b. TransmitFrame(t) /\ tpc[t] \in {"devices", "keys"}
    BY <1>19, Sending
  <2>c. /\ \A k \in spent' : k[2] \in 1 .. made'
        /\ AllAhead(ratchet', chain', spent', made') /\ AllAhead(disk'.ratchet, disk'.chain, spent', made')
        /\ (chain.id # 0 => chain'.id # 0) /\ KeysUsedOnce'
    BY <1>19, Sending
  <2>1. KeyMade'
    BY <2>a, <2>b, <2>c DEF Keys, KeyMade
  <2>2. KeysAhead'
    BY <2>c DEF KeysAhead
  <2>3. KeysUsedOnce'
    BY <2>c
  <2> QED
    BY <2>1, <2>2, <2>3 DEF Keys
<1>20. ASSUME NEW t \in Sends, WaitAck(t) PROVE Keys'
  <2>1. KeyMade'
    BY <1>20 DEF WaitAck, Goto, Keys, KeyMade
  <2>2. KeysAhead'
    BY <1>20 DEF WaitAck, Keys, KeysAhead
  <2>3. KeysUsedOnce'
    BY <1>20 DEF WaitAck, Await, Goto, Keys, KeysUsedOnce
  <2> QED
    BY <2>1, <2>2, <2>3 DEF Keys
<1>21. ASSUME NEW t \in Sends, Sent(t) PROVE Keys'
  <2>1. KeyMade'
    BY <1>21 DEF Sent, Over, Goto, Keys, KeyMade
  <2>2. KeysAhead'
    BY <1>21 DEF Sent, Over, Keys, KeysAhead
  <2>3. KeysUsedOnce'
    BY <1>21 DEF Sent, Over, Goto, Acked, Keys, KeysUsedOnce
  <2> QED
    BY <2>1, <2>2, <2>3 DEF Keys
<1>22. ASSUME NEW t \in Sends, NoAck(t) PROVE Keys'
  <2>1. KeyMade'
    BY <1>22 DEF NoAck, Over, Goto, Keys, KeyMade
  <2>2. KeysAhead'
    BY <1>22 DEF NoAck, Over, Keys, KeysAhead
  <2>3. KeysUsedOnce'
    BY <1>22 DEF NoAck, Over, Goto, Keys, KeysUsedOnce
  <2> QED
    BY <2>1, <2>2, <2>3 DEF Keys
<1>23. CASE UNCHANGED vars
  BY <1>23 DEF Keys, KeyMade, KeysAhead, KeysUsedOnce
<1>24. \A w \in iqOwn : w = <<w[1], w[2]>>
  BY DEF TypeOK
<1> HIDE DEF IInv, TypeOK, Session
<1> QED
  BY <1>1, <1>2, <1>3, <1>4, <1>5, <1>6, <1>7, <1>8, <1>9, <1>10, <1>11, <1>12, <1>13, <1>14,
     <1>15, <1>16,
    <1>17, <1>18, <1>19, <1>20, <1>21, <1>22, <1>23, <1>24 DEF Next, Step

\* Every step keeps the stanzas complete.
LEMMA DeliveryStep == IInv /\ [Next]_vars => Delivery'
<1> SUFFICES ASSUME IInv, [Next]_vars PROVE Delivery'
  OBVIOUS
<1> USE FanoutAssumption DEF IInv, TypeOK, vars, serverVars, wireVars, waiterVars, keyVars,
        taskVars, keyHistory
<1>1. ASSUME NEW ts \in Commands \ {{}}, Connect(ts) PROVE Delivery'
  <2>1. Stanzas'
    BY <1>1 DEF Connect, Ended, Delivery, Stanzas, Served
  <2>2. EveryDeviceCanRead'
    BY <1>1 DEF Connect, Delivery, EveryDeviceCanRead
  <2> QED
    BY <2>1, <2>2 DEF Delivery
<1>2. ASSUME Stop PROVE Delivery'
  <2>1. Stanzas'
    BY <1>2 DEF Stop, Closed, Hangup, Ended, Delivery, Stanzas, Served
  <2>2. EveryDeviceCanRead'
    BY <1>2 DEF Stop, Delivery, EveryDeviceCanRead
  <2> QED
    BY <2>1, <2>2 DEF Delivery
<1>3. ASSUME Crash PROVE Delivery'
  <2>1. Stanzas'
    BY <1>3 DEF Crash, Closed, Hangup, Stanzas
  <2>2. EveryDeviceCanRead'
    BY <1>3 DEF Crash, Delivery, EveryDeviceCanRead
  <2> QED
    BY <2>1, <2>2 DEF Delivery
<1>4. ASSUME LoseLink PROVE Delivery'
  <2>1. Stanzas'
    BY <1>4 DEF LoseLink, Hangup, Fault, Delivery, Stanzas, Served
  <2>2. EveryDeviceCanRead'
    BY <1>4 DEF LoseLink, Delivery, EveryDeviceCanRead
  <2> QED
    BY <2>1, <2>2 DEF Delivery
<1>5. ASSUME HandleEof PROVE Delivery'
  <2>1. Stanzas'
    BY <1>5 DEF HandleEof, Delivery, Stanzas, Served
  <2>2. EveryDeviceCanRead'
    BY <1>5 DEF HandleEof, Delivery, EveryDeviceCanRead
  <2> QED
    BY <2>1, <2>2 DEF Delivery
<1>6. ASSUME NEW d \in Others, LinkDevice(d) PROVE Delivery'
  <2>1. Stanzas'
    BY <1>6 DEF LinkDevice, Change, Delivery, Stanzas, Served
  <2>2. EveryDeviceCanRead'
    BY <1>6 DEF LinkDevice, Delivery, EveryDeviceCanRead
  <2> QED
    BY <2>1, <2>2 DEF Delivery
<1>7. ASSUME NEW d \in Others, UnlinkDevice(d) PROVE Delivery'
  <2>1. Stanzas'
    BY <1>7 DEF UnlinkDevice, Change, Delivery, Stanzas, Served
  <2>2. EveryDeviceCanRead'
    BY <1>7 DEF UnlinkDevice, Delivery, EveryDeviceCanRead
  <2> QED
    BY <2>1, <2>2 DEF Delivery
<1>8. ASSUME NEW d \in Others, HearFrom(d) PROVE Delivery'
  <2>1. Stanzas'
    BY <1>8 DEF HearFrom, Change, Save, Delivery, Stanzas, Served
  <2>2. EveryDeviceCanRead'
    BY <1>8 DEF HearFrom, Delivery, EveryDeviceCanRead
  <2> QED
    BY <2>1, <2>2 DEF Delivery
<1>9. ASSUME NEW t \in Sends, HandleActive(t) PROVE Delivery'
  <2>1. Stanzas'
    BY <1>9 DEF HandleActive, Resolve, Delivery, Stanzas, Served
  <2>2. EveryDeviceCanRead'
    BY <1>9 DEF HandleActive, Delivery, EveryDeviceCanRead
  <2> QED
    BY <2>1, <2>2 DEF Delivery
<1>10. ASSUME NEW t \in Sends, HandleAck(t) PROVE Delivery'
  <2>1. Stanzas'
    BY <1>10 DEF HandleAck, Resolve, Delivery, Stanzas, Served
  <2>2. EveryDeviceCanRead'
    BY <1>10 DEF HandleAck, Delivery, EveryDeviceCanRead
  <2> QED
    BY <2>1, <2>2 DEF Delivery
<1>11. ASSUME NEW t, NEW k, <<k, t>> \in iqOwn, HandleReply(t, k) PROVE Delivery'
  <2>1. Stanzas'
    BY <1>11 DEF HandleReply, Resolve, Answers, DevicesOf, Delivery, Stanzas, Served
  <2>2. EveryDeviceCanRead'
    BY <1>11 DEF HandleReply, Delivery, EveryDeviceCanRead
  <2> QED
    BY <2>1, <2>2 DEF Delivery
<1>12. ASSUME NEW s \in posted, Accept(s) PROVE Delivery'
  <2>1. Stanzas'
    BY <1>12 DEF Accept, Stale, Delivery, Stanzas, Served
  <2>2. EveryDeviceCanRead'
    <3>1. unserved' = unserved /\ \A a \in accepted' \ accepted :
             /\ ~Stale(s) /\ a.send = s.send /\ a.copies = s.copies /\ a.gen = gen
             /\ a.blind = {d \in Reached(s) : ~Reads(d, s)}
      BY <1>12 DEF Accept
    <3>2. ASSUME NEW d \in Reached(s), ~Reads(d, s), ~Stale(s)
          PROVE  \/ <<s.send, d>> \in unserved
                 \/ \E c \in s.copies : c.device = d /\ c.gen # gen[d]
                 \/ ~Grouped(s.send) /\ \A c \in s.copies : c.device # d
      <4>1. Served(s)
        BY <1>12 DEF Delivery, Stanzas
      <4>2. Grouped(s.send) => d \in s.listed \ {Own}
        BY <3>2 DEF Reached, Stale, Asked
      <4> QED
        BY <3>2, <4>1, <4>2 DEF Served, Reads
    <3>3. ASSUME NEW a \in accepted', NEW d \in a.blind
          PROVE  \/ <<a.send, d>> \in unserved'
                 \/ \E c \in a.copies : c.device = d /\ c.gen # a.gen[d]
                 \/ ~Grouped(a.send) /\ \A c \in a.copies : c.device # d
      <4>1. CASE a \in accepted
        BY <3>1, <4>1 DEF Delivery, EveryDeviceCanRead
      <4>2. CASE a \notin accepted
        <5>1. ~Stale(s) /\ a.send = s.send /\ a.copies = s.copies /\ a.gen = gen /\ a.blind = {e \in Reached(s) : ~Reads(e, s)}
          BY <3>1, <4>2
        <5>2. d \in Reached(s) /\ ~Reads(d, s)
          BY <5>1
        <5> QED
          BY <3>1, <3>2, <5>1, <5>2
      <4> QED
        BY <4>1, <4>2
    <3> QED
      BY <3>3 DEF EveryDeviceCanRead
  <2> QED
    BY <2>1, <2>2 DEF Delivery
<1>13. ASSUME NEW t \in Sends, BeginSend(t) PROVE Delivery'
  <2>1. Stanzas'
    BY <1>13 DEF BeginSend, Await, Goto, Delivery, Stanzas, Served
  <2>2. EveryDeviceCanRead'
    BY <1>13 DEF BeginSend, Delivery, EveryDeviceCanRead
  <2> QED
    BY <2>1, <2>2 DEF Delivery
<1>14. ASSUME NEW t \in Sends, ActiveOver(t) PROVE Delivery'
  <2>1. Stanzas'
    BY <1>14 DEF ActiveOver, Query, Delivery, Stanzas, Served
  <2>2. EveryDeviceCanRead'
    BY <1>14 DEF ActiveOver, Query, Delivery, EveryDeviceCanRead
  <2> QED
    BY <2>1, <2>2 DEF Delivery
<1>15. ASSUME NEW t \in Sends, MembersKnown(t) PROVE Delivery'
  <2>1. Stanzas'
    BY <1>15 DEF MembersKnown, Query, Delivery, Stanzas, Served
  <2>2. EveryDeviceCanRead'
    BY <1>15 DEF MembersKnown, Query, Delivery, EveryDeviceCanRead
  <2> QED
    BY <2>1, <2>2 DEF Delivery
<1>16. ASSUME NEW t \in Sends, GiveUp(t) PROVE Delivery'
  <2>1. Stanzas'
    BY <1>16 DEF GiveUp, Waiting, Goto, Delivery, Stanzas, Served
  <2>2. EveryDeviceCanRead'
    BY <1>16 DEF GiveUp, Delivery, EveryDeviceCanRead
  <2> QED
    BY <2>1, <2>2 DEF Delivery
<1>17. ASSUME NEW t \in Sends, DevicesKnown(t) PROVE Delivery'
  <2>1. Stanzas'
    BY <1>17 DEF DevicesKnown, Query, Delivery, Stanzas, Served
  <2>2. EveryDeviceCanRead'
    BY <1>17 DEF DevicesKnown, Query, Delivery, EveryDeviceCanRead
  <2> QED
    BY <2>1, <2>2 DEF Delivery
<1>18. ASSUME NEW t \in Sends, Transmit(t) PROVE Delivery'
  <2>a. unserved \subseteq unserved' /\ TransmitFrame(t)
    BY <1>18, Sending
  <2>b. UNCHANGED accepted
    BY <2>a DEF TransmitFrame
  <2>c. PICK s : posted' \subseteq posted \cup {s} /\ Served(s)'
    BY <1>18, Sending
  <2>1. Stanzas'
    BY <2>a, <2>c DEF Delivery, Stanzas, Served
  <2>2. EveryDeviceCanRead'
    BY <2>a, <2>b DEF Delivery, EveryDeviceCanRead
  <2> QED
    BY <2>1, <2>2 DEF Delivery
<1>19. ASSUME NEW t \in Sends, TransmitWithBundles(t) PROVE Delivery'
  <2>a. unserved \subseteq unserved' /\ TransmitFrame(t)
    BY <1>19, Sending
  <2>b. UNCHANGED accepted
    BY <2>a DEF TransmitFrame
  <2>c. PICK s : posted' \subseteq posted \cup {s} /\ Served(s)'
    BY <1>19, Sending
  <2>1. Stanzas'
    BY <2>a, <2>c DEF Delivery, Stanzas, Served
  <2>2. EveryDeviceCanRead'
    BY <2>a, <2>b DEF Delivery, EveryDeviceCanRead
  <2> QED
    BY <2>1, <2>2 DEF Delivery
<1>20. ASSUME NEW t \in Sends, WaitAck(t) PROVE Delivery'
  <2>1. Stanzas'
    BY <1>20 DEF WaitAck, Await, Goto, Delivery, Stanzas, Served
  <2>2. EveryDeviceCanRead'
    BY <1>20 DEF WaitAck, Delivery, EveryDeviceCanRead
  <2> QED
    BY <2>1, <2>2 DEF Delivery
<1>21. ASSUME NEW t \in Sends, Sent(t) PROVE Delivery'
  <2>1. Stanzas'
    BY <1>21 DEF Sent, Over, Goto, Acked, Delivery, Stanzas, Served
  <2>2. EveryDeviceCanRead'
    BY <1>21 DEF Sent, Over, Delivery, EveryDeviceCanRead
  <2> QED
    BY <2>1, <2>2 DEF Delivery
<1>22. ASSUME NEW t \in Sends, NoAck(t) PROVE Delivery'
  <2>1. Stanzas'
    BY <1>22 DEF NoAck, Over, Goto, Delivery, Stanzas, Served
  <2>2. EveryDeviceCanRead'
    BY <1>22 DEF NoAck, Over, Delivery, EveryDeviceCanRead
  <2> QED
    BY <2>1, <2>2 DEF Delivery
<1>23. CASE UNCHANGED vars
  BY <1>23 DEF Delivery, Stanzas, Served, EveryDeviceCanRead
<1>24. \A w \in iqOwn : w = <<w[1], w[2]>>
  BY DEF TypeOK
<1> HIDE DEF IInv, TypeOK
<1> QED
  BY <1>1, <1>2, <1>3, <1>4, <1>5, <1>6, <1>7, <1>8, <1>9, <1>10, <1>11, <1>12, <1>13, <1>14,
     <1>15, <1>16,
    <1>17, <1>18, <1>19, <1>20, <1>21, <1>22, <1>23, <1>24 DEF Next, Step

\* Every step keeps the types of the futures' results.
LEMMA ShapesStep == IInv /\ [Next]_vars => Shapes'
<1> SUFFICES ASSUME IInv, [Next]_vars PROVE Shapes'
  OBVIOUS
<1> USE FanoutAssumption DEF IInv, TypeOK, vars, serverVars, wireVars, waiterVars, keyVars,
        taskVars, keyHistory
<1>1. ASSUME NEW ts \in Commands \ {{}}, Connect(ts) PROVE Shapes'
  BY <1>1 DEF Connect, Ended, Shapes
<1>2. ASSUME Stop PROVE Shapes'
  BY <1>2 DEF Stop, Closed, Hangup, Ended, Shapes
<1>3. ASSUME Crash PROVE Shapes'
  BY <1>3 DEF Crash, Closed, Hangup, Ended, Fault, Shapes
<1>4. ASSUME LoseLink PROVE Shapes'
  BY <1>4 DEF LoseLink, Hangup, Fault, Shapes
<1>5. ASSUME HandleEof PROVE Shapes'
  BY <1>5 DEF HandleEof, Shapes
<1>6. ASSUME NEW d \in Others, LinkDevice(d) PROVE Shapes'
  BY <1>6 DEF LinkDevice, Change, Shapes
<1>7. ASSUME NEW d \in Others, UnlinkDevice(d) PROVE Shapes'
  BY <1>7 DEF UnlinkDevice, Change, Shapes
<1>8. ASSUME NEW d \in Others, HearFrom(d) PROVE Shapes'
  BY <1>8 DEF HearFrom, Change, Save, Shapes
<1>9. ASSUME NEW t \in Sends, HandleActive(t) PROVE Shapes'
  BY <1>9 DEF HandleActive, Resolve, Shapes
<1>10. ASSUME NEW t \in Sends, HandleAck(t) PROVE Shapes'
  BY <1>10 DEF HandleAck, Resolve, Shapes
<1>11. ASSUME NEW t, NEW k, <<k, t>> \in iqOwn, HandleReply(t, k) PROVE Shapes'
  <2>1. PICK answer \in Answers(t, k) : Resolve(t, answer)
    BY <1>11 DEF HandleReply
  <2>2. k = tpc[t]
    <3>1. <<k, t>>[2] = t /\ <<k, t>>[1] = k
      OBVIOUS
    <3> QED
      BY <1>11, <3>1 DEF Waits, Addressed
  <2>3. /\ answer \subseteq Devices \cup Devices \X Nat
        /\ (k = "devices" => answer \subseteq Devices) /\ (k = "keys" => answer \subseteq Devices \X Nat)
    <3>1. \A d \in linked : <<d, gen[d]>> \in Devices \X Nat
      OBVIOUS
    <3>2. k \in {"members", "devices", "keys"}
      BY <1>11
    <3> QED
      BY <2>1, <3>1, <3>2 DEF Answers, DevicesOf
  <2>4. /\ \A u \in Sends : reply'[u] \in {reply[u], answer} /\ (u # t => reply'[u] = reply[u])
        /\ reply' \in [Sends -> SUBSET (Devices \cup Devices \X Nat)] /\ UNCHANGED <<tpc, listed, lacking, spent>>
    <3>1. reply' = [u \in Sends |-> IF u = t /\ fut[u] = "pending" THEN answer ELSE reply[u]]
      BY <2>1 DEF Resolve
    <3>2. UNCHANGED <<tpc, listed, lacking, spent>>
      BY <1>11 DEF HandleReply
    <3> QED
      BY <2>3, <3>1, <3>2 DEF Shapes
  <2> QED
    BY <2>2, <2>3, <2>4 DEF Shapes
<1>12. ASSUME NEW s \in posted, Accept(s) PROVE Shapes'
  BY <1>12 DEF Accept, Fault, Stale, Shapes
<1>13. ASSUME NEW t \in Sends, BeginSend(t) PROVE Shapes'
  BY <1>13 DEF BeginSend, Await, Goto, Shapes
<1>14. ASSUME NEW t \in Sends, ActiveOver(t) PROVE Shapes'
  BY <1>14 DEF ActiveOver, Query, Await, Goto, Registered, Waiting, Shapes
<1>15. ASSUME NEW t \in Sends, MembersKnown(t) PROVE Shapes'
  BY <1>15 DEF MembersKnown, Query, Await, Goto, Registered, Waiting, Shapes
<1>16. ASSUME NEW t \in Sends, GiveUp(t) PROVE Shapes'
  <2>1. /\ \A u \in Sends : reply'[u] \in {reply[u], {}} /\ (u # t => tpc'[u] = tpc[u]) /\ tpc'[t] = "failed"
        /\ reply' \in [Sends -> SUBSET (Devices \cup Devices \X Nat)] /\ UNCHANGED <<listed, lacking, spent>>
    BY <1>16 DEF GiveUp, Goto, Shapes
  <2> QED
    BY <2>1 DEF Shapes
<1>17. ASSUME NEW t \in Sends, DevicesKnown(t) PROVE Shapes'
  BY <1>17 DEF DevicesKnown, Query, Await, Goto, Targets, Shapes
<1>18. ASSUME NEW t \in Sends, Transmit(t) PROVE Shapes'
  <2>a. PICK label \in {"flush", "acking", "failed"} :
              /\ tpc' = [tpc EXCEPT ![t] = label]
              /\ fut' = [fut EXCEPT ![t] = IF label = "acking" THEN "pending" ELSE "none"]
              /\ ackOwn' = IF label = "acking" THEN ackOwn \cup {t} ELSE ackOwn
    BY <1>18, Sending
  <2>b. TransmitFrame(t) /\ spent' \subseteq (Others \cup {Group}) \X Nat \X Nat
    BY <1>18, Sending
  <2>c. /\ \A u \in Sends : reply'[u] \in {reply[u], {}} /\ (u # t => tpc'[u] = tpc[u]) /\ tpc'[t] \in {"flush", "acking", "failed"}
        /\ reply' \in [Sends -> SUBSET (Devices \cup Devices \X Nat)]
        /\ listed' \in [Sends -> SUBSET Devices] /\ lacking' \in [Sends -> SUBSET Devices]
    BY <2>a, <2>b DEF Shapes, TransmitFrame
  <2> QED
    BY <2>b, <2>c DEF Shapes
<1>19. ASSUME NEW t \in Sends, TransmitWithBundles(t) PROVE Shapes'
  <2>a. PICK label \in {"flush", "acking", "failed"} :
              /\ tpc' = [tpc EXCEPT ![t] = label]
              /\ fut' = [fut EXCEPT ![t] = IF label = "acking" THEN "pending" ELSE "none"]
              /\ ackOwn' = IF label = "acking" THEN ackOwn \cup {t} ELSE ackOwn
    BY <1>19, Sending
  <2>b. TransmitFrame(t) /\ spent' \subseteq (Others \cup {Group}) \X Nat \X Nat
    BY <1>19, Sending
  <2>c. /\ \A u \in Sends : reply'[u] \in {reply[u], {}} /\ (u # t => tpc'[u] = tpc[u]) /\ tpc'[t] \in {"flush", "acking", "failed"}
        /\ reply' \in [Sends -> SUBSET (Devices \cup Devices \X Nat)]
        /\ listed' \in [Sends -> SUBSET Devices] /\ lacking' \in [Sends -> SUBSET Devices]
    BY <2>a, <2>b DEF Shapes, TransmitFrame
  <2> QED
    BY <2>b, <2>c DEF Shapes
<1>20. ASSUME NEW t \in Sends, WaitAck(t) PROVE Shapes'
  BY <1>20 DEF WaitAck, Await, Goto, Shapes
<1>21. ASSUME NEW t \in Sends, Sent(t) PROVE Shapes'
  BY <1>21 DEF Sent, Over, Goto, Acked, Shapes
<1>22. ASSUME NEW t \in Sends, NoAck(t) PROVE Shapes'
  BY <1>22 DEF NoAck, Over, Goto, Shapes
<1>23. CASE UNCHANGED vars
  BY <1>23 DEF Shapes
<1>24. \A w \in iqOwn : w = <<w[1], w[2]>>
  BY DEF TypeOK
<1> HIDE DEF IInv, TypeOK
<1> QED
  BY <1>1, <1>2, <1>3, <1>4, <1>5, <1>6, <1>7, <1>8, <1>9, <1>10, <1>11, <1>12, <1>13, <1>14,
     <1>15, <1>16,
    <1>17, <1>18, <1>19, <1>20, <1>21, <1>22, <1>23, <1>24 DEF Next, Step

\* Every step keeps the types.
LEMMA TypeStep == IInv /\ [Next]_vars => TypeOK'
<1> SUFFICES ASSUME IInv, [Next]_vars PROVE TypeOK'
  OBVIOUS
<1> USE FanoutAssumption DEF IInv, Shapes, TypeOK, Ended, vars, serverVars, wireVars, waiterVars,
        keyVars, taskVars, keyHistory
<1>1. ASSUME NEW ts \in Commands \ {{}}, Connect(ts) PROVE TypeOK'
  BY <1>1 DEF Connect, Ended, Commands, TypeOK
<1>2. ASSUME Stop PROVE TypeOK'
  BY <1>2 DEF Stop, Closed, Hangup, Ended, None, Session, TypeOK
<1>3. ASSUME Crash PROVE TypeOK'
  BY <1>3 DEF Crash, Closed, Hangup, Fault, None, Session
<1>4. ASSUME LoseLink PROVE TypeOK'
  BY <1>4 DEF LoseLink, Hangup, Fault, TypeOK
<1>5. ASSUME HandleEof PROVE TypeOK'
  BY <1>5 DEF HandleEof, TypeOK
<1>6. ASSUME NEW d \in Others, LinkDevice(d) PROVE TypeOK'
  <2>1. linked' \subseteq Devices /\ gen' \in [Devices -> Nat] /\ changes' \in 0 .. MaxChanges
    BY <1>6 DEF LinkDevice, Change, Others
  <2> QED
    BY <1>6, <2>1 DEF LinkDevice
<1>7. ASSUME NEW d \in Others, UnlinkDevice(d) PROVE TypeOK'
  BY <1>7 DEF UnlinkDevice, Change, TypeOK
<1>8. ASSUME NEW d \in Others, HearFrom(d) PROVE TypeOK'
  BY <1>8 DEF HearFrom, Change, Save, Session, TypeOK
<1>9. ASSUME NEW t \in Sends, HandleActive(t) PROVE TypeOK'
  BY <1>9 DEF HandleActive, Resolve, TypeOK
<1>10. ASSUME NEW t \in Sends, HandleAck(t) PROVE TypeOK'
  BY <1>10 DEF HandleAck, Resolve, TypeOK
<1>11. ASSUME NEW t, NEW k, <<k, t>> \in iqOwn, HandleReply(t, k) PROVE TypeOK'
  BY <1>11 DEF HandleReply, Resolve, Answers, DevicesOf, TypeOK
<1>12. ASSUME NEW s \in posted, Accept(s) PROVE TypeOK'
  BY <1>12 DEF Accept, Fault, Stale, TypeOK
<1>13. ASSUME NEW t \in Sends, BeginSend(t) PROVE TypeOK'
  BY <1>13 DEF BeginSend, Await, Goto, TypeOK
<1>14. ASSUME NEW t \in Sends, ActiveOver(t) PROVE TypeOK'
  BY <1>14 DEF ActiveOver, Query, Await, Goto, Registered, Waiting, TypeOK
<1>15. ASSUME NEW t \in Sends, MembersKnown(t) PROVE TypeOK'
  BY <1>15 DEF MembersKnown, Query, Await, Goto, Registered, Waiting, TypeOK
<1>16. ASSUME NEW t \in Sends, GiveUp(t) PROVE TypeOK'
  BY <1>16 DEF GiveUp, Waiting, Goto, TypeOK
<1>17. ASSUME NEW t \in Sends, DevicesKnown(t) PROVE TypeOK'
  BY <1>17 DEF DevicesKnown, Query, Await, Goto, Registered, SenderKey, Save, Targets, Session, None
<1>18. ASSUME NEW t \in Sends, Transmit(t) PROVE TypeOK'
  <2>a. PICK label \in {"flush", "acking", "failed"} :
              /\ tpc' = [tpc EXCEPT ![t] = label]
              /\ fut' = [fut EXCEPT ![t] = IF label = "acking" THEN "pending" ELSE "none"]
              /\ ackOwn' = IF label = "acking" THEN ackOwn \cup {t} ELSE ackOwn
    BY <1>18, Sending
  <2>b. /\ TransmitFrame(t) /\ unserved' \subseteq Sends \X Others
        /\ ratchet' \in [Others -> Session] /\ chain' \in Session
        /\ disk' \in [ratchet : [Others -> Session], chain : Session]
        /\ made' \in Nat /\ faults' \in 0 .. MaxFaults
    BY <1>18, Sending
  <2>c. posted' \subseteq [send : Sends, listed : SUBSET Devices, key : Nat, text : Nat, skdm : Nat,
                          copies : SUBSET [device : Others, id : Nat, gen : Nat, n : Nat]]
    <3>1. PICK s \in [send : Sends, listed : SUBSET Devices, key : Nat, text : Nat, skdm : Nat,
                      copies : SUBSET [device : Others, id : Nat, gen : Nat, n : Nat]] : posted' \subseteq posted \cup {s}
      BY <1>18, Sending
    <3> QED
      BY <3>1
  <2> QED
    BY <2>a, <2>b, <2>c DEF Shapes, TransmitFrame, Waiting, Ended
<1>19. ASSUME NEW t \in Sends, TransmitWithBundles(t) PROVE TypeOK'
  <2>a. PICK label \in {"flush", "acking", "failed"} :
              /\ tpc' = [tpc EXCEPT ![t] = label]
              /\ fut' = [fut EXCEPT ![t] = IF label = "acking" THEN "pending" ELSE "none"]
              /\ ackOwn' = IF label = "acking" THEN ackOwn \cup {t} ELSE ackOwn
    BY <1>19, Sending
  <2>b. /\ TransmitFrame(t) /\ unserved' \subseteq Sends \X Others
        /\ ratchet' \in [Others -> Session] /\ chain' \in Session
        /\ disk' \in [ratchet : [Others -> Session], chain : Session]
        /\ made' \in Nat /\ faults' \in 0 .. MaxFaults
    BY <1>19, Sending
  <2>c. posted' \subseteq [send : Sends, listed : SUBSET Devices, key : Nat, text : Nat, skdm : Nat,
                          copies : SUBSET [device : Others, id : Nat, gen : Nat, n : Nat]]
    <3>1. PICK s \in [send : Sends, listed : SUBSET Devices, key : Nat, text : Nat, skdm : Nat,
                      copies : SUBSET [device : Others, id : Nat, gen : Nat, n : Nat]] : posted' \subseteq posted \cup {s}
      BY <1>19, Sending
    <3> QED
      BY <3>1
  <2> QED
    BY <2>a, <2>b, <2>c DEF Shapes, TransmitFrame, Waiting, Ended
<1>20. ASSUME NEW t \in Sends, WaitAck(t) PROVE TypeOK'
  BY <1>20 DEF WaitAck, Await, Goto, TypeOK
<1>21. ASSUME NEW t \in Sends, Sent(t) PROVE TypeOK'
  BY <1>21 DEF Sent, Over, Goto, Acked, TypeOK
<1>22. ASSUME NEW t \in Sends, NoAck(t) PROVE TypeOK'
  BY <1>22 DEF NoAck, Over, Goto, TypeOK
<1>23. CASE UNCHANGED vars
  BY <1>23 DEF TypeOK
<1>24. \A w \in iqOwn : w = <<w[1], w[2]>>
  BY DEF TypeOK
<1> HIDE DEF IInv, Shapes, TypeOK, Ended
<1> QED
  BY <1>1, <1>2, <1>3, <1>4, <1>5, <1>6, <1>7, <1>8, <1>9, <1>10, <1>11, <1>12, <1>13, <1>14,
     <1>15, <1>16,
    <1>17, <1>18, <1>19, <1>20, <1>21, <1>22, <1>23, <1>24 DEF Next, Step

\* The invariant holds before anything is sent.
LEMMA InitInv == Init => IInv
<1> SUFFICES ASSUME Init PROVE IInv
  OBVIOUS
<1> USE FanoutAssumption
<1>1. PICK ts \in Wanted : tpc = [t \in Sends |-> IF t \in ts THEN "idle" ELSE "unasked"]
  BY DEF Init
<1>2. \A t \in Sends : tpc[t] \in {"idle", "unasked"}
  BY <1>1
<1>3. None \in Session /\ None.id = 0
  BY DEF None, Session
<1>4. TypeOK
  <2>1. gen \in [Devices -> Nat] /\ ratchet \in [Others -> Session] /\ chain \in Session
    BY <1>3 DEF Init
  <2>2. disk \in [ratchet : [Others -> Session], chain : Session]
    BY <2>1 DEF Init
  <2>3. tpc \in [Sends -> Ended \cup {"active", "members", "devices", "keys", "flush", "acking"}]
    BY <1>1 DEF Ended
  <2> QED
    BY <2>1, <2>2, <2>3 DEF Init, TypeOK
<1>5. Shapes
  BY <1>2 DEF Init, Shapes
<1>6. Waits
  BY <1>2 DEF Init, Waits, Hosted, Ended, Addressed, LargeWait, RepliesFindTheirSends
<1>7. Acks
  BY <1>2 DEF Init, Acks, AcksAnswer, OwnLineMeansAccepted
<1>8. Keys
  BY <1>3 DEF Init, Keys, KeyMade, KeysAhead, AllAhead, Ahead, KeysUsedOnce
<1>9. Delivery
  BY DEF Init, Delivery, Stanzas, EveryDeviceCanRead
<1> QED
  BY <1>4, <1>5, <1>6, <1>7, <1>8, <1>9 DEF IInv

\* Every step of the server, the reader and the sends keeps the invariant.
LEMMA StepInv == IInv /\ [Next]_vars => IInv'
  BY TypeStep, ShapesStep, WaitsStep, AcksStep, KeysStep, DeliveryStep DEF IInv

\* The inductive invariant holds in every reachable state.
THEOREM Invariance == Spec => []IInv
  BY InitInv, StepInv, PTL DEF Spec

\* The server, the waiter tables, the sends and the store have their types.
THEOREM TypeCorrect == Spec => []TypeOK
<1>1. IInv => TypeOK
  BY DEF IInv
<1> QED
  BY <1>1, Invariance, PTL

\* Whoever a message reaches can read it, but for the exceptions that
\* EveryDeviceCanRead names, however devices come and go while it is fanned out.
THEOREM ReachedMeansReadable == Spec => []EveryDeviceCanRead
<1>1. IInv => EveryDeviceCanRead
  BY DEF IInv, Delivery
<1> QED
  BY <1>1, Invariance, PTL

\* No message key of a session and no iteration of our sender key encrypts two
\* stanzas, across crashes and failing writes.
THEOREM NoKeyTwice == Spec => []KeysUsedOnce
<1>1. IInv => KeysUsedOnce
  BY DEF IInv, Keys
<1> QED
  BY <1>1, Invariance, PTL

\* A line of our own is in the cache only when the server has answered the
\* message.
THEOREM OwnLineIsAnswered == Spec => []OwnLineMeansAccepted
<1>1. IInv => OwnLineMeansAccepted
  BY DEF IInv, Acks
<1> QED
  BY <1>1, Invariance, PTL

\* A pending future is registered where the reader looks, with any number of
\* sends on one connection.
THEOREM NoReplyIsLost == Spec => []RepliesFindTheirSends
<1>1. IInv => RepliesFindTheirSends
  BY DEF IInv, Waits
<1> QED
  BY <1>1, Invariance, PTL
=============================================================================
