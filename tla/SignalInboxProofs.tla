-------------------------- MODULE SignalInboxProofs --------------------------
(***************************************************************************)
(* Theorems about what feeds the inbox: SignalReceive, for every set of    *)
(* envelopes, every dependency between them and any number of faults; and  *)
(* SignalAccount, for every archive, any number of peers, of pairings and  *)
(* of processes that die.                                                  *)
(***************************************************************************)
EXTENDS SignalReceive, SignalAccount, FiniteSetTheorems, TLAPS

(***************************************************************************)
(* Receiving.                                                              *)
(***************************************************************************)

\* The row in hand is still queued, its snapshot is the committed account
\* and memory is that account after the decryption.
RowInHand == pc = "decrypted" =>
  /\ cur \in Queued \ batch
  /\ snapshot = disk /\ mem = AfterDecrypt(EnvOf(cur), snapshot)

\* Nothing leaves the queue while the drain is under way but by the drain.
BatchIsQueued == batch \subseteq Queued

\* What the drain has passed over has failed.
PassedRowsFailed ==
  /\ \A a \in Queued, b \in batch : rowid[a] < rowid[b] =>
       \/ a \in batch \cup everFailed
       \/ pc = "decrypted" /\ a = cur
  /\ pc = "decrypted" => \A a \in Queued : rowid[a] < rowid[cur] => a \in everFailed

IInv ==
  /\ TypeOK /\ AcknowledgedIsStored /\ ConsumedAtMostOnce /\ InboxMatchesRatchet
  /\ MemoryIsCommitted /\ RowInHand /\ BatchIsQueued /\ PassedRowsFailed

\* An envelope has its fields.
LEMMA EnvOfType == \A id \in Ids : EnvOf(id) \in Envelopes
  BY DEF Ids, EnvOf

\* StoreRow adds at most the row asked for, behind every other.
LEMMA StoreRowAdds ==
  ASSUME TypeOK, NEW id \in Ids, StoreRow(id)
  PROVE  /\ rowid' \in [Ids -> Nat]
         /\ \A other \in Ids : other # id => rowid'[other] = rowid[other]
         /\ id \in seen => rowid' = rowid
         /\ id \in seen \/ rowid'[id] # 0
         /\ rowid[id] # 0 => rowid' = rowid
         /\ rowid[id] = 0 /\ rowid'[id] # 0 =>
              \A other \in Ids : other # id => rowid'[other] < rowid'[id]
<1>1. CASE id \in seen \cup Queued
  BY <1>1 DEF StoreRow, Queued, TypeOK
<1>2. CASE id \notin seen \cup Queued
  <2>1. PICK n \in 1 .. RowidBound : IsNextRowid(n) /\ rowid' = [rowid EXCEPT ![id] = n]
    BY <1>2 DEF StoreRow
  <2>2. n \in Nat \ {0}
    BY <2>1
  <2> QED
    BY <1>2, <2>1, <2>2 DEF TypeOK, Queued, IsNextRowid
<1> QED
  BY <1>1, <1>2

\* What a row that can be committed does to the account in memory.
LEMMA CommitEffect ==
  ASSUME TypeOK, RowInHand, pc = "decrypted", Decoded(EnvOf(cur))
  PROVE  /\ cur \in Queued /\ EnvOf(cur) \in Envelopes
         /\ Kind[EnvOf(cur)] = "receipt" => mem = disk
         /\ Kind[EnvOf(cur)] # "receipt" => mem = disk \cup {EnvOf(cur)} /\ EnvOf(cur) \notin disk
  BY EnvOfType DEF TypeOK, RowInHand, Decoded, AfterDecrypt, Decryptable

\* The invariant holds when the command starts.
LEMMA InitInv == Init => IInv
<1> SUFFICES ASSUME Init PROVE IInv
  OBVIOUS
<1>1. TypeOK
  <2>1. faults \in 0 .. MaxFaults
    BY EnvelopeAssumption DEF Init
  <2>2. rowid \in [Ids -> Nat] /\ commits \in [Envelopes -> Nat]
    BY DEF Init
  <2> QED
    BY <2>1, <2>2 DEF Init, TypeOK
<1>2. Queued = {}
  BY DEF Init, Queued
<1> QED
  BY <1>1, <1>2 DEF Init, IInv, AcknowledgedIsStored, ConsumedAtMostOnce, InboxMatchesRatchet,
    MemoryIsCommitted, RowInHand, BatchIsQueued, PassedRowsFailed

\* Every step keeps it.
LEMMA NextInv == IInv /\ [Next]_vars => IInv'
<1> SUFFICES ASSUME IInv, [Next]_vars PROVE IInv'
  OBVIOUS
<1> USE DEF IInv
\* A step that leaves the tables and the acknowledgements alone.
<1>1. CASE StartPull
  <2>1. TypeOK'
    BY <1>1 DEF StartPull, serviceVars, tableVars, historyVars, TypeOK
  <2>2. (AcknowledgedIsStored /\ ConsumedAtMostOnce /\ InboxMatchesRatchet)'
    BY <1>1 DEF StartPull, serviceVars, tableVars, historyVars, Queued,
      AcknowledgedIsStored, ConsumedAtMostOnce, InboxMatchesRatchet
  <2>3. (MemoryIsCommitted /\ RowInHand /\ BatchIsQueued /\ PassedRowsFailed)'
    BY <1>1 DEF StartPull, serviceVars, tableVars, historyVars, Queued,
      MemoryIsCommitted, RowInHand, BatchIsQueued, PassedRowsFailed
  <2> QED
    BY <2>1, <2>2, <2>3
<1>2. CASE DrainBegin
  <2>1. TypeOK'
    BY <1>2 DEF DrainBegin, serviceVars, tableVars, TypeOK, Queued
  <2>2. (AcknowledgedIsStored /\ ConsumedAtMostOnce /\ InboxMatchesRatchet)'
    BY <1>2 DEF DrainBegin, serviceVars, tableVars, Queued,
      AcknowledgedIsStored, ConsumedAtMostOnce, InboxMatchesRatchet
  <2>3. (MemoryIsCommitted /\ RowInHand /\ BatchIsQueued /\ PassedRowsFailed)'
    BY <1>2 DEF DrainBegin, serviceVars, tableVars, Queued, TypeOK,
      MemoryIsCommitted, RowInHand, BatchIsQueued, PassedRowsFailed
  <2> QED
    BY <2>1, <2>2, <2>3
<1>3. ASSUME NEW e \in Envelopes, Incoming(e) PROVE IInv'
  <2>1. PICK id \in RowFor(e) : StoreRow(id)
    BY <1>3 DEF Incoming
  <2>2. id \in Ids /\ EnvOf(id) = e
    BY <2>1 DEF RowFor
  <2>3. /\ rowid' \in [Ids -> Nat]
        /\ \A other \in Ids : other # id => rowid'[other] = rowid[other]
        /\ id \in seen => rowid' = rowid
        /\ id \in seen \/ rowid'[id] # 0
        /\ rowid[id] # 0 => rowid' = rowid
        /\ rowid[id] = 0 /\ rowid'[id] # 0 =>
             \A other \in Ids : other # id => rowid'[other] < rowid'[id]
    BY <2>1, <2>2, StoreRowAdds
  <2>4. TypeOK'
    BY <1>3, <2>3 DEF Incoming, processVars, historyVars, TypeOK
  <2>5. Queued \subseteq Queued' /\ Queued' \subseteq Queued \cup {id} /\ id \in Queued' \cup seen
    BY <2>2, <2>3 DEF Queued
  <2>6. AcknowledgedIsStored'
    BY <1>3, <2>2, <2>5 DEF Incoming, AcknowledgedIsStored
  <2>7. (ConsumedAtMostOnce /\ InboxMatchesRatchet /\ MemoryIsCommitted)'
    BY <1>3, <2>2, <2>3, <2>5 DEF Incoming, processVars, historyVars, Queued,
      ConsumedAtMostOnce, InboxMatchesRatchet, MemoryIsCommitted
  <2>8. (RowInHand /\ BatchIsQueued)'
    BY <1>3, <2>5 DEF Incoming, processVars, RowInHand, BatchIsQueued, AfterDecrypt, Decryptable
  <2>9. PassedRowsFailed'
    <3>1. \A a \in Queued', b \in Queued : rowid'[a] < rowid'[b] =>
             a \in Queued /\ rowid[a] < rowid[b]
      BY <2>2, <2>3, <2>5 DEF Queued, TypeOK
    <3>2. pc = "decrypted" => cur \in Queued
      BY DEF RowInHand
    <3> QED
      BY <1>3, <3>1, <3>2 DEF Incoming, processVars, historyVars, PassedRowsFailed, BatchIsQueued
  <2> QED
    BY <2>4, <2>6, <2>7, <2>8, <2>9
<1>4. ASSUME NEW e \in Envelopes, IncomingFails(e) PROVE IInv'
  <2>1. TypeOK'
    BY <1>4, EnvelopeAssumption DEF IncomingFails, Fault, tableVars, historyVars, TypeOK
  <2>2. (AcknowledgedIsStored /\ ConsumedAtMostOnce /\ InboxMatchesRatchet)'
    BY <1>4 DEF IncomingFails, tableVars, historyVars, Queued,
      AcknowledgedIsStored, ConsumedAtMostOnce, InboxMatchesRatchet
  <2>3. (MemoryIsCommitted /\ RowInHand /\ BatchIsQueued /\ PassedRowsFailed)'
    BY <1>4 DEF IncomingFails, tableVars, historyVars, Queued, AfterDecrypt, Decryptable,
      MemoryIsCommitted, RowInHand, BatchIsQueued, PassedRowsFailed
  <2> QED
    BY <2>1, <2>2, <2>3
<1>5. ASSUME NEW e \in Envelopes, ServerAck(e) PROVE IInv'
  <2>1. TypeOK'
    BY <1>5 DEF ServerAck, tableVars, processVars, historyVars, TypeOK
  <2>2. (AcknowledgedIsStored /\ ConsumedAtMostOnce /\ InboxMatchesRatchet)'
    BY <1>5 DEF ServerAck, tableVars, historyVars, Queued,
      AcknowledgedIsStored, ConsumedAtMostOnce, InboxMatchesRatchet
  <2>3. (MemoryIsCommitted /\ RowInHand /\ BatchIsQueued /\ PassedRowsFailed)'
    BY <1>5 DEF ServerAck, tableVars, processVars, historyVars, Queued, AfterDecrypt,
      Decryptable, MemoryIsCommitted, RowInHand, BatchIsQueued, PassedRowsFailed
  <2> QED
    BY <2>1, <2>2, <2>3
<1>6. ASSUME NEW id \in Ids, DecryptRow(id) PROVE IInv'
  <2>1. TypeOK'
    BY <1>6, EnvOfType DEF DecryptRow, serviceVars, tableVars, historyVars, TypeOK, AfterDecrypt
  <2>2. (AcknowledgedIsStored /\ ConsumedAtMostOnce /\ InboxMatchesRatchet)'
    BY <1>6 DEF DecryptRow, serviceVars, tableVars, historyVars, Queued,
      AcknowledgedIsStored, ConsumedAtMostOnce, InboxMatchesRatchet
  <2>3. (MemoryIsCommitted /\ RowInHand /\ BatchIsQueued)'
    BY <1>6 DEF DecryptRow, NextRow, tableVars, Queued, MemoryIsCommitted, RowInHand,
      BatchIsQueued, AfterDecrypt, Decryptable
  <2>4. PassedRowsFailed'
    BY <1>6 DEF DecryptRow, NextRow, tableVars, historyVars, Queued, TypeOK, BatchIsQueued,
      PassedRowsFailed
  <2> QED
    BY <2>1, <2>2, <2>3, <2>4
<1>7. CASE CommitRow
  <2> DEFINE e == EnvOf(cur)
  <2>1. /\ cur \in Queued /\ e \in Envelopes
        /\ Kind[e] = "receipt" => mem = disk
        /\ Kind[e] # "receipt" => mem = disk \cup {e} /\ e \notin disk
    BY <1>7, CommitEffect DEF CommitRow
  <2>2. /\ pc = "decrypted" /\ pc' = "draining" /\ cur' = NoRow
        /\ rowid' = [rowid EXCEPT ![cur] = 0] /\ seen' = seen \cup {cur}
        /\ disk' = mem /\ inbox' = InboxAfter(e)
        /\ commits' = [commits EXCEPT ![e] = @ + (IF Kind[e] = "receipt" THEN 0 ELSE 1)]
        /\ UNCHANGED <<serviceVars, mem, snapshot, batch, failures, error, exit, faults, everFailed>>
    BY <1>7 DEF CommitRow, RowDone, Persist
  <2>3. Queued' = Queued \ {cur}
    BY <2>1, <2>2 DEF Queued, TypeOK
  <2>4. TypeOK'
    BY <2>1, <2>2 DEF serviceVars, TypeOK, InboxAfter, Texts, Queued
  <2>5. AcknowledgedIsStored'
    BY <2>2, <2>3 DEF serviceVars, AcknowledgedIsStored
  <2>6. ConsumedAtMostOnce'
    BY <2>1, <2>2, <2>3 DEF TypeOK, ConsumedAtMostOnce, Receipts
  <2>7. InboxMatchesRatchet'
    BY <2>1, <2>2, EnvelopeAssumption DEF InboxAfter, InboxMatchesRatchet, Texts, TypeOK
  <2>8. (MemoryIsCommitted /\ RowInHand /\ BatchIsQueued)'
    BY <2>2, <2>3 DEF MemoryIsCommitted, RowInHand, BatchIsQueued
  <2>9. PassedRowsFailed'
    BY <2>1, <2>2, <2>3 DEF PassedRowsFailed, BatchIsQueued, RowInHand, Queued, TypeOK
  <2> QED
    BY <2>4, <2>5, <2>6, <2>7, <2>8, <2>9
<1>8. ASSUME pc = "decrypted", Restore, faults' \in 0 .. MaxFaults PROVE IInv'
  <2>1. cur \in Ids
    BY <1>8 DEF TypeOK
  <2>2. TypeOK'
    BY <1>8, <2>1 DEF Restore, AccountRestored, RowDone, serviceVars, tableVars, TypeOK
  <2>3. (AcknowledgedIsStored /\ ConsumedAtMostOnce /\ InboxMatchesRatchet)'
    BY <1>8 DEF Restore, serviceVars, tableVars, Queued,
      AcknowledgedIsStored, ConsumedAtMostOnce, InboxMatchesRatchet
  <2>4. (MemoryIsCommitted /\ RowInHand /\ BatchIsQueued)'
    BY <1>8 DEF Restore, AccountRestored, RowDone, tableVars, Queued, MemoryIsCommitted,
      RowInHand, BatchIsQueued
  <2>5. PassedRowsFailed'
    BY <1>8 DEF Restore, RowDone, tableVars, Queued, PassedRowsFailed
  <2> QED
    BY <2>2, <2>3, <2>4, <2>5
<1>9. CASE FailRow
  BY <1>8, <1>9 DEF FailRow, TypeOK
<1>10. CASE CommitFails
  BY <1>8, <1>10, EnvelopeAssumption DEF CommitFails, Fault, TypeOK
<1>11. ASSUME pc' = "down", batch' = {}, cur' = NoRow, acks' = {}, sent' = {}, mem' = {}, snapshot' = {},
              failures' = failures, exit' \in {"ok", "error", "killed"}, faults' \in 0 .. MaxFaults,
              UNCHANGED <<server, tableVars, error, historyVars>>
       PROVE  IInv'
  <2>1. TypeOK'
    BY <1>11 DEF tableVars, historyVars, TypeOK
  <2>2. (AcknowledgedIsStored /\ ConsumedAtMostOnce /\ InboxMatchesRatchet)'
    BY <1>11 DEF tableVars, historyVars, Queued,
      AcknowledgedIsStored, ConsumedAtMostOnce, InboxMatchesRatchet
  <2>3. (MemoryIsCommitted /\ RowInHand /\ BatchIsQueued /\ PassedRowsFailed)'
    BY <1>11 DEF MemoryIsCommitted, RowInHand, BatchIsQueued, PassedRowsFailed
  <2> QED
    BY <2>1, <2>2, <2>3
<1>12. CASE Finish
  <2>1. cur = NoRow /\ faults \in 0 .. MaxFaults
    BY <1>12 DEF Finish, TypeOK
  <2> QED
    BY <1>11, <1>12, <2>1 DEF Finish, Disconnect, Outcome
<1>13. CASE Crash
  <2>1. faults' \in 0 .. MaxFaults
    BY <1>13, EnvelopeAssumption DEF Crash, Fault, TypeOK
  <2> QED
    BY <1>11, <1>13, <2>1 DEF Crash, Disconnect
<1>14. CASE UNCHANGED vars
  <2>1. (TypeOK /\ AcknowledgedIsStored /\ ConsumedAtMostOnce /\ InboxMatchesRatchet)'
    BY <1>14 DEF vars, serviceVars, tableVars, processVars, historyVars, Queued,
      TypeOK, AcknowledgedIsStored, ConsumedAtMostOnce, InboxMatchesRatchet
  <2>2. (MemoryIsCommitted /\ RowInHand /\ BatchIsQueued /\ PassedRowsFailed)'
    BY <1>14 DEF vars, tableVars, processVars, historyVars, Queued, AfterDecrypt, Decryptable,
      MemoryIsCommitted, RowInHand, BatchIsQueued, PassedRowsFailed
  <2> QED
    BY <2>1, <2>2
<1> QED
  BY <1>1, <1>2, <1>3, <1>4, <1>5, <1>6, <1>7, <1>9, <1>10, <1>12, <1>13, <1>14 DEF Next

THEOREM InductiveInvariant == Spec => []IInv
  BY InitInv, NextInv, PTL DEF Spec

\* Every variable keeps its type, and the drain's cursor designates a row
\* exactly while a row is in hand.
THEOREM TypeCorrect == Spec => []TypeOK
<1>1. IInv => TypeOK
  BY DEF IInv
<1> QED
  BY <1>1, InductiveInvariant, PTL

\* What the service has forgotten, or will forget once an acknowledgement
\* under way reaches it, is queued or consumed (network.mjs, receive.mjs).
THEOREM NothingLost == Spec => []AcknowledgedIsStored
<1>1. IInv => AcknowledgedIsStored
  BY DEF IInv
<1> QED
  BY <1>1, InductiveInvariant, PTL

\* Redelivery, crashes and failed transactions never make a ratchet step
\* happen twice (receive.mjs, drain).
THEOREM AtMostOnce == Spec => []ConsumedAtMostOnce
<1>1. IInv => ConsumedAtMostOnce
  BY DEF IInv
<1> QED
  BY <1>1, InductiveInvariant, PTL

\* The inbox is exactly what the committed ratchet has consumed and no
\* consumed deletion has removed (receive.mjs, drain and ingestText).
THEOREM InboxFollowsRatchet == Spec => []InboxMatchesRatchet
<1>1. IInv => InboxMatchesRatchet
  BY DEF IInv
<1> QED
  BY <1>1, InductiveInvariant, PTL

\* Between rows memory never runs ahead of the database (receive.mjs, the
\* catch block of drain).
THEOREM MemoryFollowsDisk == Spec => []MemoryIsCommitted
<1>1. IInv => MemoryIsCommitted
  BY DEF IInv
<1> QED
  BY <1>1, InductiveInvariant, PTL

\* Only rows that some drain has failed on are overtaken (receive.mjs, the
\* loop of drain).
THEOREM OvertakenRowsFailed == Spec => FifoUnlessFailed
<1> DEFINE Overtake == \A a, b \in Queued :
      rowid[a] < rowid[b] /\ b \notin Queued' /\ a \in Queued' => a \in everFailed
<1>1. IInv /\ [Next]_vars => [Overtake]_vars
  <2> SUFFICES ASSUME IInv, Next PROVE Overtake
    OBVIOUS
  <2>1. CASE CommitRow
    <3>1. Queued' = Queued \ {cur} /\ pc = "decrypted"
      BY <2>1 DEF CommitRow, IInv, TypeOK, Queued
    <3> QED
      BY <3>1 DEF IInv, PassedRowsFailed
  <2>2. ASSUME ~CommitRow PROVE Queued \subseteq Queued'
    <3>1. ASSUME NEW e \in Envelopes, Incoming(e) PROVE Queued \subseteq Queued'
      <4>1. PICK id \in Ids : StoreRow(id)
        BY <3>1 DEF Incoming, RowFor
      <4> QED
        BY <4>1, StoreRowAdds DEF Queued, IInv
    <3> QED
      BY <2>2, <3>1 DEF Next, StartPull, DrainBegin, FailRow, CommitFails, Restore, Finish, Crash,
        IncomingFails, ServerAck, DecryptRow, tableVars, Queued
  <2> QED
    BY <2>1, <2>2
<1> QED
  BY <1>1, InductiveInvariant, PTL DEF Spec, FifoUnlessFailed

\* The client implements the mailbox that loses nothing.
THEOREM ImplementsDurableMailbox == Spec => ImplementsMailbox
<1>1. Init => Mailbox!Init
  BY DEF Init, Mailbox!Init, Stored, Consumed, Queued
<1>2. IInv /\ [Next]_vars => [Mailbox!Next]_(Mailbox!vars)
  <2> SUFFICES ASSUME IInv, [Next]_vars PROVE Mailbox!Next \/ UNCHANGED Mailbox!vars
    OBVIOUS
  <2> USE DEF Mailbox!vars
  <2>1. ASSUME NEW e \in Envelopes, Incoming(e) PROVE Mailbox!Next \/ UNCHANGED Mailbox!vars
    <3>1. PICK id \in RowFor(e) : StoreRow(id)
      BY <2>1 DEF Incoming
    <3>2. id \in Ids /\ EnvOf(id) = e
      BY <3>1 DEF RowFor
    <3>3. Queued' \in {Queued, Queued \cup {id}}
      BY <3>1, <3>2, StoreRowAdds DEF IInv, Queued
    <3>4. UNCHANGED <<server, Consumed, inbox>> /\ e \in server
      BY <2>1 DEF Incoming, Consumed
    <3>5. Stored' \in {Stored, Stored \cup {e}}
      BY <3>2, <3>3 DEF Stored
    <3> QED
      BY <3>4, <3>5 DEF Mailbox!Next, Mailbox!Store
  <2>2. ASSUME NEW e \in Envelopes, ServerAck(e) PROVE Mailbox!Next \/ UNCHANGED Mailbox!vars
    <3>1. UNCHANGED <<Stored, Consumed, inbox>> /\ server' = server \ {e}
      BY <2>2 DEF ServerAck, tableVars, Stored, Consumed, Queued
    <3>2. e \in Stored \cup Consumed
      BY <2>2 DEF ServerAck, IInv, AcknowledgedIsStored, ConsumedAtMostOnce, Stored, Consumed
    <3> QED
      BY <3>1, <3>2 DEF Mailbox!Next, Mailbox!Forget
  <2>3. CASE CommitRow
    <3> DEFINE e == EnvOf(cur)
    <3>1. /\ cur \in Queued /\ e \in Envelopes
          /\ Kind[e] = "receipt" => mem = disk
          /\ Kind[e] # "receipt" => mem = disk \cup {e} /\ e \notin disk
      BY <2>3, CommitEffect DEF CommitRow, IInv
    <3>2. /\ Queued' = Queued \ {cur} /\ seen' = seen \cup {cur} /\ disk' = mem
          /\ inbox' = InboxAfter(e) /\ UNCHANGED server
      BY <2>3 DEF CommitRow, Persist, serviceVars, Queued, IInv, TypeOK
    <3>3. e \in Stored /\ Stored' \in {Stored, Stored \ {e}}
      BY <3>1, <3>2 DEF Stored
    <3>4. Consumed' = Consumed \cup {e}
      BY <3>1, <3>2 DEF Consumed, Receipts
    <3>5. CASE e \notin Consumed
      BY <3>1, <3>2, <3>3, <3>4, <3>5 DEF Mailbox!Next, Mailbox!Consume, InboxAfter
    <3>6. CASE e \in Consumed
      <4>1. Kind[e] = "receipt"
        BY <3>1, <3>6 DEF Consumed, Receipts
      <4>2. inbox' = inbox
        BY <3>1, <3>2, <4>1, EnvelopeAssumption DEF InboxAfter, Texts
      <4> QED
        BY <3>1, <3>2, <3>3, <3>4, <3>6, <4>2 DEF Mailbox!Next, Mailbox!Discharge
    <3> QED
      BY <3>5, <3>6
  <2>4. CASE UNCHANGED <<server, tableVars>>
    BY <2>4 DEF tableVars, Stored, Consumed, Queued
  <2> QED
    BY <2>1, <2>2, <2>3, <2>4 DEF Next, StartPull, DrainBegin, FailRow, CommitFails, Restore,
      Finish, Disconnect, Crash, IncomingFails, DecryptRow, serviceVars, vars
<1> QED
  BY <1>1, <1>2, InductiveInvariant, PTL DEF Spec, ImplementsMailbox, Mailbox!Spec

(***************************************************************************)
(* The account.  What a list of contacts must keep of another.             *)
(***************************************************************************)

\* Every entry has an id.
Identified(cs) == \A i \in DOMAIN cs : cs[i].uuid \/ cs[i].number

\* Some entry of a peer's has no uuid.
Partial(cs, p) == \E i \in DOMAIN cs : cs[i].peer = p /\ ~cs[i].uuid

\* A send finds the timer that was last heard of, where all entries have a uuid.
Honest(cs, tm) == \A p \in Peers : Partial(cs, p) \/ Expiration(cs, p) = tm[p]

PeersOf(cs) == {cs[i].peer : i \in DOMAIN cs}

\* more has everything that cs is relied on for.
Covers(more, cs) == PeersOf(cs) \subseteq PeersOf(more) /\ \A p \in Peers : Partial(cs, p) => Partial(more, p)

Sound(cs, tm) == Identified(cs) /\ Honest(cs, tm)

\* A set of positions in a list that is not empty has a least one.
LEMMA LeastPosition ==
  ASSUME NEW n \in Nat, NEW S \in SUBSET (1 .. n), S # {}
  PROVE  \E x \in S : \A y \in S : x <= y
<1> DEFINE Below(x) == {y \in S : y < x}
           T == {Below(x) : x \in S}
           R == StrictSubsetOrdering(S)
<1> HIDE DEF Below, T, R
<1>1. IsFiniteSet(S)
  <2>1. IsFiniteSet(1 .. n)
    BY FS_Interval
  <2> QED
    BY <2>1, FS_Subset
<1>2. IsWellFoundedOn(R, FiniteSubsetsOf(S))
  BY FS_StrictSubsetOrderingWellFounded DEF R
<1>3. T \subseteq FiniteSubsetsOf(S) /\ T # {}
  <2>1. \A x \in S : Below(x) \in SUBSET S
    BY DEF Below
  <2>2. \A x \in S : Below(x) \in FiniteSubsetsOf(S)
    BY <1>1, <2>1, FS_FiniteSubsetsOfFinite
  <2> QED
    BY <2>2 DEF T
<1>4. PICK A \in T : \A B \in T : <<B, A>> \notin R
  BY <1>2, <1>3, WFMin
<1>5. PICK x \in S : A = Below(x)
  BY <1>4 DEF T
<1>6. ASSUME NEW y \in S, y < x PROVE FALSE
  <2>1. Below(y) \in T
    BY DEF T
  <2>2. \A z \in S : z \in Nat
    OBVIOUS
  <2>3. Below(y) \subseteq A
    <3>1. \A z \in S : z < y => z < x
      BY <1>6, <2>2
    <3> QED
      BY <1>5, <3>1 DEF Below
  <2>4. y \in A /\ y \notin Below(y) /\ A \subseteq S
    BY <1>5, <1>6, <2>2 DEF Below
  <2>5. <<Below(y), A>> \in R
    BY <2>3, <2>4 DEF R, StrictSubsetOrdering
  <2> QED
    BY <1>4, <2>1, <2>5
<1> QED
  BY <1>6

\* A lookup takes the first of the entries that match.
LEMMA FirstIs ==
  ASSUME NEW cs \in Seq(Contact), NEW p, NEW f, Entries(cs, p, f) # {}
  PROVE  LET is == Entries(cs, p, f)
         IN First(is) \in is /\ First(is) \in DOMAIN cs /\ \A j \in is : First(is) <= j
<1> DEFINE is == Entries(cs, p, f)
<1>1. Len(cs) \in Nat /\ is \in SUBSET (1 .. Len(cs))
  BY DEF Entries
<1>2. \E x \in is : \A y \in is : x <= y
  <2> HIDE DEF is
  <2> QED
    BY <1>1, LeastPosition DEF is
<1> QED
  BY <1>1, <1>2 DEF First

\* What a lookup takes depends on the entries that match only.
LEMMA FirstOf ==
  ASSUME NEW cs \in Seq(Contact), NEW new \in Seq(Contact), NEW p,
         Entries(cs, p, "uuid") # {}, Entries(cs, p, "uuid") \subseteq Entries(new, p, "uuid"),
         \A j \in Entries(new, p, "uuid") : j \in Entries(cs, p, "uuid") \/ j > Len(cs)
  PROVE  First(Entries(new, p, "uuid")) = First(Entries(cs, p, "uuid"))
<1> DEFINE a == First(Entries(cs, p, "uuid"))
           b == First(Entries(new, p, "uuid"))
<1>1. a \in Entries(cs, p, "uuid") /\ a \in 1 .. Len(cs) /\ \A j \in Entries(cs, p, "uuid") : a <= j
  BY FirstIs
<1>2. b \in Entries(new, p, "uuid") /\ b \in 1 .. Len(new) /\ \A j \in Entries(new, p, "uuid") : b <= j
  BY FirstIs
<1>3. b <= a /\ (b \in Entries(cs, p, "uuid") \/ b > Len(cs))
  BY <1>1, <1>2
<1>4. b \in Entries(cs, p, "uuid")
  BY <1>1, <1>2, <1>3
<1> HIDE DEF a, b
<1> QED
  BY <1>1, <1>2, <1>3, <1>4 DEF a, b

\* An entry at the end of the list.
LEMMA Appended ==
  ASSUME NEW cs \in Seq(Contact), NEW x \in Contact
  PROVE  LET new == Append(cs, x) IN
         /\ new \in Seq(Contact) /\ PeersOf(new) = PeersOf(cs) \cup {x.peer} /\ Covers(new, cs)
         /\ Identified(cs) /\ (x.uuid \/ x.number) => Identified(new)
         /\ ~x.uuid => Partial(new, x.peer)
         /\ \A q : q # x.peer => Expiration(new, q) = Expiration(cs, q) /\ (Partial(new, q) <=> Partial(cs, q))
         /\ x.uuid => /\ Entries(new, x.peer, "uuid") # {}
                      /\ Expiration(new, x.peer) = IF Entries(cs, x.peer, "uuid") = {} THEN x.timer
                                                   ELSE Expiration(cs, x.peer)
<1> DEFINE new == Append(cs, x)
<1>1. /\ new \in Seq(Contact) /\ Len(cs) \in Nat /\ DOMAIN cs = 1 .. Len(cs)
      /\ Len(new) = Len(cs) + 1 /\ DOMAIN new = 1 .. Len(cs) + 1
      /\ \A i \in DOMAIN cs : i \in DOMAIN new /\ new[i] = cs[i]
      /\ Len(cs) + 1 \in DOMAIN new /\ new[Len(cs) + 1] = x
      /\ \A i \in DOMAIN new : i \in DOMAIN cs \/ i = Len(cs) + 1
  OBVIOUS
<1> HIDE DEF new
<1>2. PeersOf(new) = PeersOf(cs) \cup {x.peer} /\ Covers(new, cs)
  BY <1>1 DEF PeersOf, Covers, Partial
<1>3. Identified(cs) /\ (x.uuid \/ x.number) => Identified(new)
  BY <1>1 DEF Identified
<1>4. ~x.uuid => Partial(new, x.peer)
  BY <1>1 DEF Partial
<1>5. \A q : /\ Entries(cs, q, "uuid") \subseteq Entries(new, q, "uuid")
             /\ \A j \in Entries(new, q, "uuid") :
                  j \in Entries(cs, q, "uuid") \/ (j > Len(cs) /\ j = Len(cs) + 1 /\ x.peer = q /\ x.uuid)
  BY <1>1 DEF Entries, Matches
<1>6. ASSUME NEW q, Entries(cs, q, "uuid") # {} PROVE Expiration(new, q) = Expiration(cs, q)
  <2>1. First(Entries(new, q, "uuid")) = First(Entries(cs, q, "uuid"))
    BY <1>1, <1>5, <1>6, FirstOf
  <2>2. First(Entries(cs, q, "uuid")) \in DOMAIN cs
    BY <1>6, FirstIs
  <2>3. Entries(new, q, "uuid") # {}
    BY <1>5, <1>6
  <2> QED
    BY <1>1, <1>6, <2>1, <2>2, <2>3 DEF Expiration
<1>7. ASSUME NEW q, q # x.peer
      PROVE  Expiration(new, q) = Expiration(cs, q) /\ (Partial(new, q) <=> Partial(cs, q))
  <2>1. Entries(cs, q, "uuid") = {} => Entries(new, q, "uuid") = {}
    BY <1>5, <1>7
  <2>2. Partial(new, q) <=> Partial(cs, q)
    BY <1>1, <1>7 DEF Partial
  <2> QED
    BY <1>6, <2>1, <2>2 DEF Expiration
<1>8. ASSUME x.uuid
      PROVE  /\ Entries(new, x.peer, "uuid") # {}
             /\ Entries(cs, x.peer, "uuid") = {} => Expiration(new, x.peer) = x.timer
  <2>1. Len(cs) + 1 \in Entries(new, x.peer, "uuid")
    BY <1>1, <1>8 DEF Entries, Matches
  <2>2. ASSUME Entries(cs, x.peer, "uuid") = {} PROVE First(Entries(new, x.peer, "uuid")) = Len(cs) + 1
    <3>1. First(Entries(new, x.peer, "uuid")) \in Entries(new, x.peer, "uuid")
      BY <1>1, <2>1, FirstIs
    <3> QED
      BY <1>5, <2>2, <3>1
  <2> QED
    BY <1>1, <2>1, <2>2 DEF Expiration
<1> QED
  BY <1>1, <1>2, <1>3, <1>4, <1>6, <1>7, <1>8 DEF new

\* An entry of a peer's replaced by another that has a uuid if it had.
LEMMA Replaced ==
  ASSUME NEW cs \in Seq(Contact), NEW i \in DOMAIN cs, NEW x \in Contact, x.peer = cs[i].peer
  PROVE  LET new == [cs EXCEPT ![i] = x] IN
         /\ new \in Seq(Contact) /\ PeersOf(new) = PeersOf(cs)
         /\ Identified(cs) /\ (x.uuid \/ x.number) => Identified(new)
         /\ ~x.uuid => Partial(new, x.peer)
         /\ \A q : q # x.peer => Expiration(new, q) = Expiration(cs, q) /\ (Partial(new, q) <=> Partial(cs, q))
         /\ new[i] = x
<1> DEFINE new == [cs EXCEPT ![i] = x]
<1>1. /\ new \in Seq(Contact) /\ DOMAIN new = DOMAIN cs /\ i \in DOMAIN new
      /\ new[i] = x /\ \A j \in DOMAIN cs : j # i => new[j] = cs[j]
  OBVIOUS
<1> HIDE DEF new
<1>2. \A j \in DOMAIN cs : new[j].peer = cs[j].peer
  BY <1>1
<1>3. PeersOf(new) = PeersOf(cs)
  BY <1>1, <1>2 DEF PeersOf
<1>4. Identified(cs) /\ (x.uuid \/ x.number) => Identified(new)
  BY <1>1 DEF Identified
<1>5. ~x.uuid => Partial(new, x.peer)
  BY <1>1 DEF Partial
<1>6. ASSUME NEW q, q # x.peer
      PROVE  Expiration(new, q) = Expiration(cs, q) /\ (Partial(new, q) <=> Partial(cs, q))
  <2>1. Entries(new, q, "uuid") = Entries(cs, q, "uuid") /\ i \notin Entries(cs, q, "uuid")
    BY <1>1, <1>6 DEF Entries, Matches
  <2>2. Entries(cs, q, "uuid") # {} => First(Entries(cs, q, "uuid")) \in Entries(cs, q, "uuid")
    BY FirstIs
  <2>3. Entries(cs, q, "uuid") \subseteq DOMAIN cs
    BY DEF Entries
  <2>4. Partial(new, q) <=> Partial(cs, q)
    BY <1>1, <1>2, <1>6 DEF Partial
  <2> QED
    BY <1>1, <2>1, <2>2, <2>3, <2>4 DEF Expiration
<1> QED
  BY <1>1, <1>3, <1>4, <1>5, <1>6 DEF new

\* And one that has a uuid just as the old one: lookups find the same entries.
LEMMA ReplacedAlike ==
  ASSUME NEW cs \in Seq(Contact), NEW i \in DOMAIN cs, NEW x \in Contact,
         x.peer = cs[i].peer, x.uuid = cs[i].uuid
  PROVE  LET new == [cs EXCEPT ![i] = x]
         IN \A q : Entries(new, q, "uuid") = Entries(cs, q, "uuid") /\ (Partial(new, q) <=> Partial(cs, q))
<1> DEFINE new == [cs EXCEPT ![i] = x]
<1>1. DOMAIN new = DOMAIN cs /\ \A j \in DOMAIN cs : new[j].peer = cs[j].peer /\ new[j].uuid = cs[j].uuid
  OBVIOUS
<1> HIDE DEF new
<1> QED
  BY <1>1 DEF Entries, Matches, Partial, new

\* A message's or a frame's timer, written into the first entry.
LEMMA WithTimerIs ==
  ASSUME NEW cs \in Seq(Contact), NEW p, NEW f \in Forms, NEW t \in {"none", "on", "off"}
  PROVE  LET new == WithTimer(cs, p, f, t) IN
         /\ new \in Seq(Contact) /\ PeersOf(new) = PeersOf(cs) /\ (Identified(cs) => Identified(new))
         /\ \A q : Partial(new, q) <=> Partial(cs, q)
         /\ \A q : q # p => Expiration(new, q) = Expiration(cs, q)
         /\ t = "none" => new = cs
         /\ f = "uuid" /\ t # "none" /\ Entries(cs, p, f) # {} => Expiration(new, p) = t
<1> DEFINE is == Entries(cs, p, f)
           i == First(is)
           new == WithTimer(cs, p, f, t)
<1>1. CASE t = "none" \/ is = {}
  BY <1>1 DEF WithTimer
<1>2. CASE t # "none" /\ is # {}
  <2> DEFINE x == [cs[i] EXCEPT !.timer = t]
  <2>1. i \in is /\ i \in DOMAIN cs /\ cs[i] \in Contact /\ cs[i].peer = p
    <3>1. i \in is /\ i \in DOMAIN cs
      BY <1>2, FirstIs
    <3> QED
      BY <3>1 DEF Entries, Matches
  <2>2. x \in Contact /\ x.peer = p /\ x.uuid = cs[i].uuid /\ x.number = cs[i].number /\ x.timer = t
    BY <1>2, <2>1 DEF Contact
  <2>3. new = [cs EXCEPT ![i] = x]
    BY <1>2, <2>1 DEF WithTimer
  <2> HIDE DEF x, i, is, new
  <2>4. /\ new \in Seq(Contact) /\ PeersOf(new) = PeersOf(cs)
        /\ Identified(cs) /\ (x.uuid \/ x.number) => Identified(new)
        /\ ~x.uuid => Partial(new, x.peer)
        /\ \A q : q # x.peer => Expiration(new, q) = Expiration(cs, q) /\ (Partial(new, q) <=> Partial(cs, q))
        /\ new[i] = x
    BY <2>1, <2>2, <2>3, Replaced
  <2>5. \A q : Entries(new, q, "uuid") = Entries(cs, q, "uuid") /\ (Partial(new, q) <=> Partial(cs, q))
    BY <2>1, <2>2, <2>3, ReplacedAlike
  <2>6. Identified(cs) => Identified(new)
    BY <2>1, <2>2, <2>4 DEF Identified
  <2>7. f = "uuid" => Expiration(new, p) = t
    BY <1>2, <2>1, <2>2, <2>4, <2>5 DEF Expiration, i, is
  <2> QED
    BY <1>2, <2>2, <2>4, <2>6, <2>7, <2>5 DEF new
<1> QED
  BY <1>1, <1>2

\* A frame of the archive: its peer has an entry, under its uuid if it has one.
LEMMA WithContactIs ==
  ASSUME NEW cs \in Seq(Contact), NEW fr \in ArchiveFrame, fr.uuid \/ fr.number
  PROVE  LET new == WithContact(cs, fr) IN
         /\ new \in Seq(Contact) /\ PeersOf(new) = PeersOf(cs) \cup {fr.peer} /\ (Identified(cs) => Identified(new))
         /\ \A q : q # fr.peer => Expiration(new, q) = Expiration(cs, q) /\ (Partial(new, q) <=> Partial(cs, q))
         /\ ~fr.uuid => Partial(new, fr.peer)
         /\ fr.uuid => /\ Entries(new, fr.peer, "uuid") # {}
                       /\ Partial(cs, fr.peer) => Partial(new, fr.peer)
                       /\ Expiration(new, fr.peer) = Expiration(cs, fr.peer)
<1> DEFINE is == Entries(cs, fr.peer, FrameForm(fr))
           i == First(is)
           new == WithContact(cs, fr)
<1>1. fr.peer \in Peers /\ fr.uuid \in BOOLEAN /\ fr.number \in BOOLEAN
  BY DEF ArchiveFrame
<1>2. CASE is = {}
  <2> DEFINE x == Entry(fr.peer, fr.uuid, fr.number, "off")
  <2>1. x \in Contact /\ x.peer = fr.peer /\ x.uuid = fr.uuid /\ x.number = fr.number /\ x.timer = "off"
    BY <1>1 DEF Entry, Contact
  <2>2. new = Append(cs, x)
    BY <1>2 DEF WithContact
  <2>3. fr.uuid => Expiration(cs, fr.peer) = "off" /\ Entries(cs, fr.peer, "uuid") = {}
    BY <1>2 DEF FrameForm, Expiration
  <2> HIDE DEF x, new
  <2>4. /\ new \in Seq(Contact) /\ PeersOf(new) = PeersOf(cs) \cup {x.peer} /\ Covers(new, cs)
        /\ Identified(cs) /\ (x.uuid \/ x.number) => Identified(new)
        /\ ~x.uuid => Partial(new, x.peer)
        /\ \A q : q # x.peer => Expiration(new, q) = Expiration(cs, q) /\ (Partial(new, q) <=> Partial(cs, q))
        /\ x.uuid => /\ Entries(new, x.peer, "uuid") # {}
                     /\ Expiration(new, x.peer) = IF Entries(cs, x.peer, "uuid") = {} THEN x.timer
                                                  ELSE Expiration(cs, x.peer)
    BY <2>1, <2>2, Appended
  <2> QED
    BY <1>1, <2>1, <2>3, <2>4 DEF Covers, new
<1>3. CASE is # {}
  <2> DEFINE x == Entry(fr.peer, fr.uuid, fr.number, cs[i].timer)
  <2>1. i \in is /\ i \in DOMAIN cs /\ cs[i] \in Contact /\ cs[i].peer = fr.peer
        /\ (fr.uuid => cs[i].uuid)
    <3>1. i \in is /\ i \in DOMAIN cs
      BY <1>3, FirstIs
    <3> QED
      BY <3>1 DEF Entries, Matches, FrameForm
  <2>2. x \in Contact /\ x.peer = fr.peer /\ x.uuid = fr.uuid /\ x.number = fr.number /\ x.timer = cs[i].timer
    BY <1>1, <2>1 DEF Entry, Contact
  <2>3. new = [cs EXCEPT ![i] = x]
    BY <1>3, <2>1 DEF WithContact
  <2>4. fr.uuid => x.uuid = cs[i].uuid /\ is = Entries(cs, fr.peer, "uuid")
    BY <2>1, <2>2 DEF Contact, FrameForm
  <2> HIDE DEF x, i, new
  <2>5. /\ new \in Seq(Contact) /\ PeersOf(new) = PeersOf(cs)
        /\ Identified(cs) /\ (x.uuid \/ x.number) => Identified(new)
        /\ ~x.uuid => Partial(new, x.peer)
        /\ \A q : q # x.peer => Expiration(new, q) = Expiration(cs, q) /\ (Partial(new, q) <=> Partial(cs, q))
        /\ new[i] = x
    BY <2>1, <2>2, <2>3, Replaced
  <2>8. fr.uuid => \A q : Entries(new, q, "uuid") = Entries(cs, q, "uuid") /\ (Partial(new, q) <=> Partial(cs, q))
    BY <2>1, <2>2, <2>3, <2>4, ReplacedAlike
  <2>6. fr.peer \in PeersOf(cs)
    BY <2>1 DEF PeersOf
  <2>7. fr.uuid => Expiration(new, fr.peer) = Expiration(cs, fr.peer)
    BY <1>3, <2>2, <2>4, <2>5, <2>8 DEF Expiration, i
  <2> QED
    BY <1>1, <1>3, <2>2, <2>4, <2>5, <2>6, <2>7, <2>8 DEF new
<1> QED
  BY <1>2, <1>3

\* What a frame leaves is as sound as what it found, and has no less.
LEMMA WithFrameSound ==
  ASSUME NEW cs \in Seq(Contact), NEW tm \in [Peers -> {"on", "off"}], Sound(cs, tm),
         NEW fr \in ArchiveFrame, fr.uuid \/ fr.number
  PROVE  /\ WithFrame(cs, fr) \in Seq(Contact)
         /\ Sound(WithFrame(cs, fr), [tm EXCEPT ![fr.peer] = IF fr.timer = "none" THEN @ ELSE fr.timer])
         /\ Covers(WithFrame(cs, fr), cs) /\ fr.peer \in PeersOf(WithFrame(cs, fr))
<1> DEFINE mid == WithContact(cs, fr)
           new == WithFrame(cs, fr)
           tn == [tm EXCEPT ![fr.peer] = IF fr.timer = "none" THEN @ ELSE fr.timer]
<1>1. fr.peer \in Peers /\ fr.timer \in {"none", "on", "off"} /\ FrameForm(fr) \in Forms
      /\ (fr.uuid => FrameForm(fr) = "uuid")
  BY DEF ArchiveFrame, FrameForm, Forms
<1>2. /\ mid \in Seq(Contact) /\ PeersOf(mid) = PeersOf(cs) \cup {fr.peer} /\ (Identified(cs) => Identified(mid))
      /\ \A q : q # fr.peer => Expiration(mid, q) = Expiration(cs, q) /\ (Partial(mid, q) <=> Partial(cs, q))
      /\ ~fr.uuid => Partial(mid, fr.peer)
      /\ fr.uuid => /\ Entries(mid, fr.peer, "uuid") # {}
                    /\ Partial(cs, fr.peer) => Partial(mid, fr.peer)
                    /\ Expiration(mid, fr.peer) = Expiration(cs, fr.peer)
  BY WithContactIs
<1>3. new = WithTimer(mid, fr.peer, FrameForm(fr), fr.timer)
  BY DEF WithFrame
<1>4. /\ \A q \in Peers : q # fr.peer => tn[q] = tm[q]
      /\ tn[fr.peer] = IF fr.timer = "none" THEN tm[fr.peer] ELSE fr.timer
  BY <1>1
<1> HIDE DEF mid, new, tn
<1>5. /\ new \in Seq(Contact) /\ PeersOf(new) = PeersOf(mid) /\ (Identified(mid) => Identified(new))
      /\ \A q : Partial(new, q) <=> Partial(mid, q)
      /\ \A q : q # fr.peer => Expiration(new, q) = Expiration(mid, q)
      /\ fr.timer = "none" => new = mid
      /\ fr.uuid /\ fr.timer # "none" => Expiration(new, fr.peer) = fr.timer
  BY <1>1, <1>2, <1>3, WithTimerIs
<1>6. Honest(new, tn)
  <2> SUFFICES ASSUME NEW q \in Peers PROVE Partial(new, q) \/ Expiration(new, q) = tn[q]
    BY DEF Honest
  <2>1. Partial(cs, q) \/ Expiration(cs, q) = tm[q]
    BY DEF Sound, Honest
  <2>2. CASE q # fr.peer
    BY <1>2, <1>4, <1>5, <2>1, <2>2
  <2>3. CASE q = fr.peer
    BY <1>2, <1>4, <1>5, <2>1, <2>3
  <2> QED
    BY <2>2, <2>3
<1>7. Covers(new, cs)
  BY <1>2, <1>5 DEF Covers
<1> QED
  BY <1>2, <1>5, <1>6, <1>7 DEF Sound, new, tn

\* So does a message that is received, or sent by our phone.
LEMMA HeardSound ==
  ASSUME NEW cs \in Seq(Contact), NEW tm \in [Peers -> {"on", "off"}], Sound(cs, tm),
         NEW p \in Peers, NEW t \in {"none", "on", "off"}
  PROVE  /\ Heard(cs, p, t) \in Seq(Contact)
         /\ Sound(Heard(cs, p, t), [tm EXCEPT ![p] = IF t = "none" THEN @ ELSE t])
         /\ Covers(Heard(cs, p, t), cs)
<1> DEFINE new == Heard(cs, p, t)
           tn == [tm EXCEPT ![p] = IF t = "none" THEN @ ELSE t]
<1>1. /\ \A q \in Peers : q # p => tn[q] = tm[q]
      /\ tn[p] = IF t = "none" THEN tm[p] ELSE t
  OBVIOUS
<1>2. \A q \in Peers : Partial(cs, q) \/ Expiration(cs, q) = tm[q]
  BY DEF Sound, Honest
<1>3. CASE t # "none" /\ Entries(cs, p, "uuid") = {}
  <2> DEFINE x == Entry(p, TRUE, FALSE, t)
  <2>1. x \in Contact /\ x.peer = p /\ x.uuid /\ x.timer = t
    BY <1>3 DEF Entry, Contact
  <2>2. new = Append(cs, x)
    BY <1>3 DEF Heard
  <2> HIDE DEF x, new, tn
  <2>3. /\ new \in Seq(Contact) /\ Covers(new, cs) /\ (Identified(cs) => Identified(new))
        /\ \A q : q # p => Expiration(new, q) = Expiration(cs, q) /\ (Partial(new, q) <=> Partial(cs, q))
        /\ Expiration(new, p) = t
    BY <1>3, <2>1, <2>2, Appended
  <2>4. Honest(new, tn)
    BY <1>1, <1>2, <1>3, <2>3 DEF Honest
  <2> QED
    BY <2>3, <2>4 DEF Sound, new, tn
<1>4. CASE ~(t # "none" /\ Entries(cs, p, "uuid") = {})
  <2>1. new = WithTimer(cs, p, "uuid", t)
    BY <1>4 DEF Heard
  <2> HIDE DEF new, tn
  <2>2. /\ new \in Seq(Contact) /\ PeersOf(new) = PeersOf(cs) /\ (Identified(cs) => Identified(new))
        /\ \A q : Partial(new, q) <=> Partial(cs, q)
        /\ \A q : q # p => Expiration(new, q) = Expiration(cs, q)
        /\ t = "none" => new = cs
        /\ t # "none" => Expiration(new, p) = t
    BY <1>4, <2>1, WithTimerIs DEF Forms
  <2>3. Honest(new, tn)
    <3> SUFFICES ASSUME NEW q \in Peers PROVE Partial(new, q) \/ Expiration(new, q) = tn[q]
      BY DEF Honest
    <3>1. CASE q # p
      BY <1>1, <1>2, <2>2, <3>1
    <3>2. CASE q = p
      BY <1>1, <1>2, <2>2, <3>2
    <3> QED
      BY <3>1, <3>2
  <2> QED
    BY <2>2, <2>3 DEF Sound, Covers, new, tn
<1> QED
  BY <1>3, <1>4

\* And a recipient that was looked up by number.
LEMMA RecipientSound ==
  ASSUME NEW cs \in Seq(Contact), NEW tm \in [Peers -> {"on", "off"}], Sound(cs, tm), NEW p \in Peers
  PROVE  LET new == Append(cs, Entry(p, TRUE, TRUE, "off"))
         IN new \in Seq(Contact) /\ Sound(new, tm) /\ Covers(new, cs)
<1> DEFINE x == Entry(p, TRUE, TRUE, "off")
           new == Append(cs, x)
<1>1. x \in Contact /\ x.peer = p /\ x.uuid /\ x.timer = "off"
  BY DEF Entry, Contact
<1> HIDE DEF x
<1>2. /\ new \in Seq(Contact) /\ Covers(new, cs) /\ (Identified(cs) => Identified(new))
      /\ \A q : q # p => Expiration(new, q) = Expiration(cs, q) /\ (Partial(new, q) <=> Partial(cs, q))
      /\ Expiration(new, p) = IF Entries(cs, p, "uuid") = {} THEN "off" ELSE Expiration(cs, p)
  BY <1>1, Appended
<1> HIDE DEF new
<1>3. Expiration(new, p) = Expiration(cs, p)
  BY <1>2 DEF Expiration
<1>4. ASSUME NEW q \in Peers PROVE Partial(new, q) \/ Expiration(new, q) = tm[q]
  BY <1>2, <1>3 DEF Sound, Honest, Covers
<1> QED
  BY <1>2, <1>4 DEF Sound, Honest, new, x

\* The copy is the committed account, but for contacts that were added.
CopyFits ==
  /\ step = "pairing" => devices < MaxLinks
  /\ step \in {"import", "sending", "posting"} => copy = account
  /\ step \in {"frames", "addressed"} =>
       /\ copy = [account EXCEPT !.contacts = copy.contacts]
       /\ Covers(copy.contacts, account.contacts)
       /\ Sound(copy.contacts, IF step = "frames" THEN heard ELSE timers)
  /\ step \in {"linked", "retired"} => copy.device = devices /\ account.device < devices /\ copy.imported = "no"
  /\ step = "retired" => copy.contacts = account.contacts /\ account.device \in retired \cup {0}

\* The frames taken are in the transaction.
FramesKept ==
  /\ step # "frames" => done = 0
  /\ step = "frames" =>
       /\ copy.key = "held"
       /\ \A i \in 1 .. done : <<Archive[i].peer, "hist">> \in rows /\ Archive[i].peer \in Known(copy)

ImportedWhole ==
  account.imported = "yes" =>
    /\ HistoryText \subseteq texts
    /\ \A i \in DOMAIN Archive : Archive[i].peer \in Known(account)

AccountInv ==
  /\ AccountTypeOK /\ Sound(account.contacts, timers)
  /\ CopyFits /\ FramesKept /\ ImportedWhole /\ TimersHonoured

\* The peers known are those with an entry.
LEMMA KnownIs == \A acc : Known(acc) = PeersOf(acc.contacts)
  BY DEF Known, PeersOf

\* What disappears is kept for a peer with an entry without a uuid only.
LEMMA HonouredIs ==
  TimersHonoured <=> \A p \in Peers : <<p, "sent-timed">> \in texts => Partial(account.contacts, p)
  BY DEF TimersHonoured, Partial

\* An account with another list of contacts.
LEMMA Relisted ==
  ASSUME NEW acc \in Accounts, NEW cs \in Seq(Contact)
  PROVE  LET new == [acc EXCEPT !.contacts = cs]
         IN /\ new \in Accounts /\ new.contacts = cs /\ new.device = acc.device /\ new.key = acc.key
            /\ new.archive = acc.archive /\ new.imported = acc.imported
  BY DEF Accounts

\* A pairing's, with the archive not located, the list of contacts empty.
LEMMA NewAccount ==
  ASSUME NEW d \in 0 .. MaxLinks, NEW k \in {"none", "held"}
  PROVE  /\ Account(d, k) \in Accounts /\ Account(d, k).device = d /\ Account(d, k).key = k
         /\ Account(d, k).imported = "no" /\ Account(d, k).contacts = <<>>
  BY DEF Account, Accounts

\* The account of a service never linked.
LEMMA NotLinked ==
  /\ NoAccount \in Accounts /\ NoAccount.device = 0
  /\ NoAccount.imported = "no" /\ NoAccount.contacts = <<>>
  BY AccountAssumption, NewAccount DEF NoAccount

\* The committed account, the texts and the timers are as they were.
Resting == UNCHANGED <<account, texts, timers>>

\* A step at rest leaves what is said of contacts and imports.
LEMMA RestingKeeps ==
  ASSUME AccountInv, Resting
  PROVE  Sound(account.contacts, timers)' /\ ImportedWhole' /\ TimersHonoured'
  BY DEF AccountInv, Resting, ImportedWhole, TimersHonoured, Known

\* A command that ends without a commit.
LEMMA EndKeeps ==
  ASSUME AccountInv, Done, UNCHANGED <<devices, account, retired, texts, timers>>
  PROVE  AccountInv'
<1>1. AccountTypeOK'
  <2>1. NoAccount \in Accounts
    BY NotLinked
  <2>2. 0 \in 0 .. Len(Archive) /\ AllOff \in [Peers -> {"on", "off"}]
    BY AccountAssumption DEF AllOff
  <2> QED
    BY <2>1, <2>2 DEF AccountInv, AccountTypeOK, Done, Forms
<1>2. (CopyFits /\ FramesKept)'
  BY DEF Done, CopyFits, FramesKept
<1> QED
  BY <1>1, <1>2, RestingKeeps DEF Resting, AccountInv, sendVars

\* The invariant holds of an account that has never been linked.
LEMMA AccountInitInv == AccountInit => AccountInv
<1> SUFFICES ASSUME AccountInit PROVE AccountInv
  OBVIOUS
<1>1. NoAccount \in Accounts /\ NoAccount.device = 0
      /\ NoAccount.imported = "no" /\ NoAccount.contacts = <<>>
  BY NotLinked
<1>2. AccountTypeOK
  <2>1. 0 \in 0 .. Len(Archive) /\ AllOff \in [Peers -> {"on", "off"}] /\ 0 \in 0 .. MaxLinks
    BY AccountAssumption DEF AllOff
  <2> QED
    BY <1>1, <2>1 DEF AccountInit, AccountTypeOK, Forms
<1>3. Sound(account.contacts, timers)
  <2>1. Identified(<<>>) /\ \A p \in Peers : Expiration(<<>>, p) = "off"
    BY DEF Identified, Expiration, Entries
  <2> QED
    BY <1>1, <2>1 DEF AccountInit, AllOff, Sound, Honest
<1> QED
  BY <1>1, <1>2, <1>3 DEF AccountInit, AccountInv, CopyFits, FramesKept, ImportedWhole, TimersHonoured

\* Linking keeps it.
LEMMA LinkInv == AccountInv /\ Link => AccountInv'
<1> SUFFICES ASSUME AccountInv, Link PROVE AccountInv'
  OBVIOUS
<1>1. CASE StartLink
  <2>1. AccountTypeOK' /\ CopyFits' /\ FramesKept' /\ Resting
    BY <1>1 DEF StartLink, Become, importVars, sendVars, AccountInv, AccountTypeOK, CopyFits, FramesKept, Resting
  <2> QED
    BY <2>1, RestingKeeps DEF AccountInv
<1>2. CASE LinkFails \/ LinkRefused
  BY <1>2, EndKeeps DEF LinkFails, LinkRefused, sendVars, AccountInv, AccountTypeOK
<1>3. ASSUME NEW key \in {"held", "none"}, ServiceLinks(key) PROVE AccountInv'
  <2>1. devices \in 0 .. MaxLinks /\ account.device \in Nat /\ account.device <= devices
    BY DEF AccountInv, AccountTypeOK, Accounts
  <2>2. devices + 1 \in 0 .. MaxLinks /\ account.device < devices + 1 /\ account.device <= devices + 1
    BY <1>3, <2>1, AccountAssumption DEF ServiceLinks, AccountInv, CopyFits
  <2>3. /\ copy' \in Accounts /\ copy'.device = devices + 1 /\ copy'.imported = "no"
        /\ devices' = devices + 1 /\ step' = "linked" /\ step = "pairing"
        /\ UNCHANGED <<account, retired, texts, importVars, sendVars, timers>>
    BY <1>3, <2>2, NewAccount DEF ServiceLinks, Become
  <2>4. AccountTypeOK'
    BY <2>2, <2>3 DEF AccountInv, AccountTypeOK, importVars, sendVars
  <2>5. (CopyFits /\ FramesKept)'
    BY <2>2, <2>3 DEF AccountInv, CopyFits, FramesKept, importVars
  <2> QED
    BY <2>3, <2>4, <2>5, RestingKeeps DEF Resting, AccountInv
<1>4. CASE Retire
  <2>2. Resting
    BY <1>4 DEF Retire, Resting
  <2>5. FramesKept'
    BY <1>4 DEF Retire, Become, importVars, AccountInv, FramesKept
  <2>1. copy' = [copy EXCEPT !.contacts = account.contacts] /\ copy \in Accounts /\ account.contacts \in Seq(Contact)
    BY <1>4 DEF Retire, CarriedOver, AccountInv, AccountTypeOK, Accounts
  <2>3. copy' \in Accounts /\ copy'.contacts = account.contacts /\ copy'.device = copy.device /\ copy'.imported = copy.imported
    BY <2>1, Relisted
  <2>4. AccountTypeOK'
    <3>1. account.device # 0 => account.device \in 1 .. devices
      BY DEF AccountInv, AccountTypeOK, Accounts
    <3>2. retired' \subseteq 1 .. devices
      BY <1>4, <3>1 DEF Retire, Retired, AccountInv, AccountTypeOK
    <3> QED
      BY <1>4, <2>3, <3>2 DEF Retire, Become, importVars, sendVars, AccountInv, AccountTypeOK
  <2>6. CopyFits'
    BY <1>4, <2>3 DEF Retire, Retired, Become, AccountInv, CopyFits
  <2> QED
    BY <2>2, <2>4, <2>5, <2>6, RestingKeeps DEF AccountInv
<1>5. CASE PersistLink
  <2>1. /\ account' = copy /\ copy.contacts = account.contacts /\ copy.device = devices /\ copy.imported = "no"
        /\ UNCHANGED <<devices, retired, texts, timers>> /\ done = 0
    BY <1>5 DEF PersistLink, SaveAccount, AccountInv, CopyFits, FramesKept
  <2>2. (Sound(account.contacts, timers) /\ ImportedWhole /\ TimersHonoured)'
    BY <2>1 DEF AccountInv, ImportedWhole, TimersHonoured
  <2>3. CASE copy.key = "held"
    <3>1. step' = "import" /\ step = "retired" /\ copy' = copy /\ UNCHANGED <<importVars, sendVars>>
      BY <1>5, <2>3 DEF PersistLink, Become
    <3>2. AccountTypeOK'
      BY <2>1, <3>1 DEF AccountInv, AccountTypeOK, sendVars, importVars, Accounts
    <3>3. (CopyFits /\ FramesKept)'
      BY <2>1, <3>1 DEF CopyFits, FramesKept, importVars
    <3> QED
      BY <2>2, <3>2, <3>3 DEF AccountInv
  <2>4. CASE copy.key # "held"
    <3>1. Done
      BY <1>5, <2>4 DEF PersistLink
    <3>2. (CopyFits /\ FramesKept)'
      BY <3>1 DEF Done, CopyFits, FramesKept
    <3>3. AccountTypeOK'
      <4>1. NoAccount \in Accounts
        BY NotLinked
      <4>2. 0 \in 0 .. Len(Archive) /\ AllOff \in [Peers -> {"on", "off"}]
        BY AccountAssumption DEF AllOff
      <4>3. copy.device <= devices
        BY <2>1 DEF AccountInv, AccountTypeOK
      <4> QED
        BY <2>1, <3>1, <4>1, <4>2, <4>3 DEF AccountInv, AccountTypeOK, Done, Forms
    <3> QED
      BY <2>2, <3>2, <3>3 DEF AccountInv
  <2> QED
    BY <2>3, <2>4
<1> QED
  BY <1>1, <1>2, <1>3, <1>4, <1>5 DEF Link

\* Importing history keeps it.
LEMMA HistoryInv == AccountInv /\ History => AccountInv'
<1> SUFFICES ASSUME AccountInv, History PROVE AccountInv'
  OBVIOUS
<1>1. CASE StartImport
  <2>1. AccountTypeOK' /\ CopyFits' /\ FramesKept' /\ Resting
    BY <1>1 DEF StartImport, Become, importVars, sendVars, AccountInv, AccountTypeOK, CopyFits, FramesKept, Resting
  <2> QED
    BY <2>1, RestingKeeps DEF AccountInv
<1>2. CASE NothingToImport \/ ImportFails
  BY <1>2, EndKeeps DEF NothingToImport, ImportFails, sendVars, AccountInv, AccountTypeOK
<1>3. ASSUME NEW where \in {"good", "bad"}, Locate(where) PROVE AccountInv'
  <2>1. /\ step = "import" /\ copy = account /\ copy' = Located(copy, where) /\ account' = copy'
        /\ UNCHANGED <<devices, retired, texts, step, importVars, sendVars, timers>>
    BY <1>3 DEF Locate, SaveAccount, AccountInv, CopyFits
  <2>2. /\ copy' \in Accounts /\ copy'.contacts = copy.contacts /\ copy'.device = copy.device
        /\ copy'.imported = copy.imported
    BY <2>1 DEF Located, AccountInv, AccountTypeOK, Accounts
  <2>3. AccountTypeOK'
    BY <2>1, <2>2 DEF AccountInv, AccountTypeOK, importVars, sendVars
  <2>4. (CopyFits /\ FramesKept)'
    BY <2>1 DEF AccountInv, CopyFits, FramesKept, importVars
  <2>5. (Sound(account.contacts, timers) /\ ImportedWhole /\ TimersHonoured)'
    BY <2>1, <2>2 DEF AccountInv, ImportedWhole, TimersHonoured, Known
  <2> QED
    BY <2>3, <2>4, <2>5 DEF AccountInv
<1>4. CASE BeginImport
  <2>1. /\ step = "import" /\ step' = "frames" /\ copy = account /\ copy.key = "held" /\ heard' = timers /\ done = 0
        /\ UNCHANGED <<devices, account, retired, texts, copy, done, rows, sendVars, timers>>
    BY <1>4 DEF BeginImport, Become, AccountInv, CopyFits, FramesKept
  <2>2. AccountTypeOK'
    BY <2>1 DEF AccountInv, AccountTypeOK, sendVars
  <2>3. FramesKept'
    BY <2>1 DEF FramesKept
  <2>4. CopyFits'
    <3>1. copy = [account EXCEPT !.contacts = copy.contacts]
      BY <2>1 DEF AccountInv, AccountTypeOK, Accounts
    <3>2. Covers(copy.contacts, account.contacts) /\ Sound(copy.contacts, heard')
      BY <2>1 DEF AccountInv, Covers
    <3> QED
      BY <2>1, <3>1, <3>2 DEF CopyFits
  <2> QED
    BY <2>1, <2>2, <2>3, <2>4, RestingKeeps DEF Resting, AccountInv
<1>5. CASE ImportFrame
  <2> DEFINE fr == Archive[done + 1]
             cs == WithFrame(copy.contacts, fr)
  <2>1. /\ step = "frames" /\ done \in Nat /\ done + 1 \in DOMAIN Archive /\ done + 1 \in 0 .. Len(Archive)
        /\ fr \in ArchiveFrame /\ (fr.uuid \/ fr.number) /\ fr.peer \in Peers
    <3>1. step = "frames" /\ done < Len(Archive) /\ done \in 0 .. Len(Archive)
      BY <1>5 DEF ImportFrame, AccountInv, AccountTypeOK
    <3>2. done + 1 \in DOMAIN Archive /\ done + 1 \in 0 .. Len(Archive)
      BY <3>1, AccountAssumption
    <3>3. fr \in ArchiveFrame /\ (fr.uuid \/ fr.number)
      BY <3>2, AccountAssumption
    <3> QED
      BY <3>1, <3>2, <3>3 DEF ArchiveFrame
  <2>2. /\ copy \in Accounts /\ copy.contacts \in Seq(Contact) /\ heard \in [Peers -> {"on", "off"}]
        /\ Sound(copy.contacts, heard) /\ Covers(copy.contacts, account.contacts)
        /\ copy = [account EXCEPT !.contacts = copy.contacts] /\ copy.key = "held"
    BY <2>1 DEF AccountInv, AccountTypeOK, CopyFits, FramesKept, Accounts
  <2>3. /\ done' = done + 1 /\ copy' = [copy EXCEPT !.contacts = cs]
        /\ rows' = rows \cup {<<fr.peer, "hist">>}
        /\ heard' = [heard EXCEPT ![fr.peer] = IF fr.timer = "none" THEN @ ELSE fr.timer]
        /\ UNCHANGED <<devices, account, retired, texts, step, sendVars, timers>>
    BY <1>5 DEF ImportFrame
  <2>4. /\ cs \in Seq(Contact) /\ Covers(cs, copy.contacts) /\ fr.peer \in PeersOf(cs)
        /\ Sound(cs, heard')
    <3> HIDE DEF fr
    <3> QED
      BY <2>1, <2>2, <2>3, WithFrameSound
  <2> HIDE DEF cs, fr
  <2>5. /\ copy' \in Accounts /\ copy'.contacts = cs /\ copy'.device = copy.device /\ copy'.key = copy.key
    BY <2>2, <2>3, <2>4, Relisted
  <2>6. AccountTypeOK'
    <3>1. heard' \in [Peers -> {"on", "off"}]
      BY <2>1, <2>2, <2>3 DEF ArchiveFrame
    <3>2. rows' \subseteq Peers \X {"hist"}
      BY <2>1, <2>3 DEF AccountInv, AccountTypeOK
    <3> QED
      BY <2>1, <2>3, <2>5, <3>1, <3>2 DEF AccountInv, AccountTypeOK, sendVars
  <2>7. CopyFits'
    <3>1. copy' = [account EXCEPT !.contacts = cs]
      BY <2>2, <2>3 DEF AccountInv, AccountTypeOK, Accounts
    <3>2. Covers(cs, account.contacts)
      BY <2>2, <2>4 DEF Covers
    <3> QED
      BY <2>1, <2>3, <2>4, <2>5, <3>1, <3>2 DEF CopyFits
  <2>8. FramesKept'
    <3>1. ASSUME NEW i \in 1 .. done'
          PROVE  <<Archive[i].peer, "hist">> \in rows' /\ Archive[i].peer \in Known(copy')
      <4>1. CASE i = done + 1
        BY <2>3, <2>4, <2>5, <4>1, KnownIs DEF fr
      <4>2. CASE i # done + 1
        <5>1. i \in 1 .. done
          BY <2>1, <2>3, <4>2
        <5>2. <<Archive[i].peer, "hist">> \in rows /\ Archive[i].peer \in Known(copy)
          BY <2>1, <5>1 DEF AccountInv, FramesKept
        <5> QED
          BY <2>3, <2>4, <2>5, <5>2, KnownIs DEF Covers
      <4> QED
        BY <4>1, <4>2
    <3> QED
      BY <2>1, <2>2, <2>3, <2>5, <3>1 DEF FramesKept
  <2> QED
    BY <2>3, <2>6, <2>7, <2>8, RestingKeeps DEF Resting, AccountInv
<1>6. CASE CommitImport
  <2>1. /\ step = "frames" /\ done = Len(Archive) /\ account' = Spent(copy) /\ texts' = texts \cup rows
        /\ timers' = heard /\ Done /\ UNCHANGED <<devices, retired>>
    BY <1>6 DEF CommitImport, AllTaken, SaveAccount
  <2>2. /\ copy \in Accounts /\ copy.device = account.device
        /\ Sound(copy.contacts, heard) /\ Covers(copy.contacts, account.contacts)
    BY <2>1 DEF AccountInv, AccountTypeOK, CopyFits
  <2>3. account' \in Accounts /\ account'.contacts = copy.contacts /\ account'.device = copy.device
    BY <2>1, <2>2 DEF Spent, Accounts
  <2>4. AccountTypeOK'
    <3>1. NoAccount \in Accounts
      BY NotLinked
    <3>2. 0 \in 0 .. Len(Archive) /\ AllOff \in [Peers -> {"on", "off"}]
      BY AccountAssumption DEF AllOff
    <3>3. texts' \subseteq Peers \X {"hist", "got", "sent", "sent-timed"} /\ timers' \in [Peers -> {"on", "off"}]
      BY <2>1 DEF AccountInv, AccountTypeOK
    <3> QED
      BY <2>1, <2>2, <2>3, <3>1, <3>2, <3>3 DEF AccountInv, AccountTypeOK, Done, Forms
  <2>5. (CopyFits /\ FramesKept)'
    BY <2>1 DEF Done, CopyFits, FramesKept
  <2>6. ImportedWhole'
    <3>1. DOMAIN Archive = 1 .. Len(Archive)
      BY AccountAssumption
    <3>2. \A i \in DOMAIN Archive : <<Archive[i].peer, "hist">> \in rows /\ Archive[i].peer \in PeersOf(copy.contacts)
      BY <2>1, <3>1, KnownIs DEF AccountInv, FramesKept
    <3> QED
      BY <2>1, <2>3, <3>2, KnownIs DEF ImportedWhole, HistoryText
  <2>7. TimersHonoured'
    <3> SUFFICES ASSUME NEW p \in Peers, <<p, "sent-timed">> \in texts'
                 PROVE  Partial(account'.contacts, p)
      BY DEF TimersHonoured, Partial
    <3>1. <<p, "sent-timed">> \in texts
      BY <2>1 DEF AccountInv, AccountTypeOK
    <3> QED
      BY <2>2, <2>3, <3>1, HonouredIs DEF AccountInv, Covers
  <2> QED
    BY <2>1, <2>2, <2>3, <2>4, <2>5, <2>6, <2>7 DEF AccountInv
<1> QED
  BY <1>1, <1>2, <1>3, <1>4, <1>5, <1>6 DEF History

\* Taking and sending messages keeps it.
LEMMA MessagesInv == AccountInv /\ Messages => AccountInv'
<1> SUFFICES ASSUME AccountInv, Messages PROVE AccountInv'
  OBVIOUS
<1>1. ASSUME NEW p \in Peers, NEW t \in {"none", "on", "off"}, Receive(p, t) PROVE AccountInv'
  <2> DEFINE cs == Heard(account.contacts, p, t)
  <2>1. /\ step = "idle" /\ account' = [account EXCEPT !.contacts = cs]
        /\ texts' = IF t # "on" THEN texts \cup {<<p, "got">>} ELSE texts
        /\ timers' = [timers EXCEPT ![p] = IF t = "none" THEN @ ELSE t]
        /\ UNCHANGED <<devices, retired, step, copy, importVars, sendVars>>
    BY <1>1 DEF Receive, SaveAccount
  <2>2. /\ account \in Accounts /\ account.contacts \in Seq(Contact) /\ timers \in [Peers -> {"on", "off"}]
        /\ Sound(account.contacts, timers)
    BY DEF AccountInv, AccountTypeOK, Accounts
  <2>3. cs \in Seq(Contact) /\ Covers(cs, account.contacts) /\ Sound(cs, timers')
    BY <1>1, <2>1, <2>2, HeardSound
  <2> HIDE DEF cs
  <2>4. /\ account' \in Accounts /\ account'.contacts = cs /\ account'.device = account.device
        /\ account'.imported = account.imported
    BY <2>1, <2>2, <2>3, Relisted
  <2>5. AccountTypeOK'
    <3>1. texts' \subseteq Peers \X {"hist", "got", "sent", "sent-timed"}
      BY <2>1 DEF AccountInv, AccountTypeOK
    <3>2. timers' \in [Peers -> {"on", "off"}]
      BY <1>1, <2>1, <2>2
    <3> QED
      BY <2>1, <2>4, <3>1, <3>2 DEF AccountInv, AccountTypeOK, importVars, sendVars
  <2>6. (CopyFits /\ FramesKept)'
    BY <2>1 DEF AccountInv, CopyFits, FramesKept, importVars
  <2>7. texts \subseteq texts' /\ \A q \in Peers : <<q, "sent-timed">> \in texts' => <<q, "sent-timed">> \in texts
    BY <2>1
  <2>8. ImportedWhole'
    BY <2>3, <2>4, <2>7, KnownIs DEF AccountInv, ImportedWhole, Covers, HistoryText
  <2>9. TimersHonoured'
    <3> SUFFICES ASSUME NEW q \in Peers, <<q, "sent-timed">> \in texts'
                 PROVE  Partial(account'.contacts, q)
      BY DEF TimersHonoured, Partial
    <3> QED
      BY <2>3, <2>4, <2>7, HonouredIs DEF AccountInv, Covers
  <2> QED
    BY <2>3, <2>4, <2>5, <2>6, <2>8, <2>9 DEF AccountInv
<1>2. ASSUME NEW p \in Peers, NEW f \in Forms, StartSend(p, f) PROVE AccountInv'
  <2>1. /\ step = "idle" /\ step' = "sending" /\ copy' = account /\ who' = p /\ to' \in Forms
        /\ UNCHANGED <<devices, account, retired, texts, importVars, timers>>
    BY <1>2 DEF StartSend, Become, Resolved, Forms
  <2>2. AccountTypeOK'
    BY <2>1 DEF AccountInv, AccountTypeOK, importVars
  <2>3. (CopyFits /\ FramesKept)'
    BY <2>1 DEF AccountInv, CopyFits, FramesKept, importVars
  <2> QED
    BY <2>1, <2>2, <2>3, RestingKeeps DEF Resting, AccountInv
<1>3. CASE Recipient
  <2> DEFINE cs == Append(copy.contacts, Entry(who, TRUE, TRUE, "off"))
  <2>1. /\ step = "sending" /\ step' = "addressed" /\ copy = account
        /\ copy' = copy \/ copy' = [copy EXCEPT !.contacts = cs]
        /\ UNCHANGED <<devices, account, retired, texts, importVars, sendVars, timers>>
    BY <1>3 DEF Recipient, Become, AccountInv, CopyFits
  <2>2. /\ copy \in Accounts /\ copy.contacts \in Seq(Contact) /\ timers \in [Peers -> {"on", "off"}]
        /\ Sound(copy.contacts, timers) /\ who \in Peers
    BY <2>1 DEF AccountInv, AccountTypeOK, Accounts
  <2>3. cs \in Seq(Contact) /\ Covers(cs, copy.contacts) /\ Sound(cs, timers)
    BY <2>2, RecipientSound
  <2>4. Covers(copy.contacts, copy.contacts) /\ copy = [copy EXCEPT !.contacts = copy.contacts]
    BY <2>2 DEF Covers, Accounts
  <2> HIDE DEF cs
  <2>5. PICK new \in Seq(Contact) : /\ copy' = [copy EXCEPT !.contacts = new]
                                    /\ Covers(new, copy.contacts) /\ Sound(new, timers)
    BY <2>1, <2>2, <2>3, <2>4
  <2>6. copy' \in Accounts /\ copy'.contacts = new /\ copy'.device = copy.device
    BY <2>2, <2>5, Relisted
  <2>7. AccountTypeOK'
    BY <2>1, <2>6 DEF AccountInv, AccountTypeOK, importVars, sendVars
  <2>8. (CopyFits /\ FramesKept)'
    BY <2>1, <2>5, <2>6 DEF AccountInv, CopyFits, FramesKept, importVars
  <2> QED
    BY <2>1, <2>7, <2>8, RestingKeeps DEF Resting, AccountInv
<1>4. CASE SendFails
  BY <1>4, EndKeeps DEF SendFails, AccountInv, AccountTypeOK
<1>5. CASE PersistSend
  <2>1. /\ step = "addressed" /\ step' = "posting" /\ account' = copy /\ copy' = copy
        /\ UNCHANGED <<devices, retired, texts, copy, importVars, sendVars, timers>>
    BY <1>5 DEF PersistSend, SaveAccount, Become
  <2>2. /\ copy \in Accounts /\ account \in Accounts /\ Covers(copy.contacts, account.contacts)
        /\ Sound(copy.contacts, timers) /\ copy.device = account.device
        /\ copy = [account EXCEPT !.contacts = copy.contacts] /\ copy.contacts \in Seq(Contact)
    BY <2>1 DEF AccountInv, AccountTypeOK, CopyFits, Accounts
  <2>3. copy.imported = account.imported
    BY <2>2 DEF Accounts
  <2>4. AccountTypeOK'
    BY <2>1, <2>2 DEF AccountInv, AccountTypeOK, importVars, sendVars
  <2>5. (CopyFits /\ FramesKept)'
    BY <2>1 DEF AccountInv, CopyFits, FramesKept, importVars
  <2>6. ImportedWhole'
    BY <2>1, <2>2, <2>3, KnownIs DEF AccountInv, ImportedWhole, Covers, HistoryText
  <2>7. TimersHonoured'
    BY <2>1, <2>2, HonouredIs DEF AccountInv, TimersHonoured, Covers, Partial
  <2> QED
    BY <2>1, <2>2, <2>4, <2>5, <2>6, <2>7 DEF AccountInv
<1>6. CASE Transcribe
  <2>1. /\ step = "posting" /\ copy = account /\ Done
        /\ texts' = IF Expiration(account.contacts, who) = "off"
                    THEN texts \cup {<<who, IF timers[who] = "on" THEN "sent-timed" ELSE "sent">>}
                    ELSE texts
        /\ UNCHANGED <<devices, account, retired, timers>>
    BY <1>6 DEF Transcribe, AccountInv, CopyFits
  <2>2. AccountTypeOK'
    <3>1. NoAccount \in Accounts
      BY NotLinked
    <3>2. 0 \in 0 .. Len(Archive) /\ AllOff \in [Peers -> {"on", "off"}]
      BY AccountAssumption DEF AllOff
    <3>3. texts' \subseteq Peers \X {"hist", "got", "sent", "sent-timed"}
      BY <2>1 DEF AccountInv, AccountTypeOK
    <3> QED
      BY <2>1, <3>1, <3>2, <3>3 DEF AccountInv, AccountTypeOK, Done, Forms
  <2>3. (CopyFits /\ FramesKept)'
    BY <2>1 DEF Done, CopyFits, FramesKept
  <2>4. ImportedWhole'
    BY <2>1 DEF AccountInv, ImportedWhole, Known
  <2>5. TimersHonoured'
    <3> SUFFICES ASSUME NEW q \in Peers, <<q, "sent-timed">> \in texts'
                 PROVE  Partial(account.contacts, q)
      BY <2>1 DEF TimersHonoured, Partial
    <3>1. CASE <<q, "sent-timed">> \in texts
      BY <3>1, HonouredIs DEF AccountInv
    <3>2. CASE <<q, "sent-timed">> \notin texts
      <4>1. q = who /\ timers[who] = "on" /\ Expiration(account.contacts, who) = "off"
        BY <2>1, <3>2
      <4> QED
        BY <4>1 DEF AccountInv, Sound, Honest
    <3> QED
      BY <3>1, <3>2
  <2> QED
    BY <2>1, <2>2, <2>3, <2>4, <2>5 DEF AccountInv
<1> QED
  BY <1>1, <1>2, <1>3, <1>4, <1>5, <1>6 DEF Messages

\* Every step keeps it.
LEMMA AccountNextInv == AccountInv /\ [AccountNext]_accountVars => AccountInv'
<1> SUFFICES ASSUME AccountInv, [AccountNext]_accountVars PROVE AccountInv'
  OBVIOUS
<1>1. CASE Die
  BY <1>1, EndKeeps DEF Die
<1>2. CASE UNCHANGED accountVars
  <2>1. AccountTypeOK'
    BY <1>2 DEF AccountInv, AccountTypeOK, accountVars, importVars, sendVars
  <2>2. (CopyFits /\ FramesKept)'
    BY <1>2 DEF AccountInv, CopyFits, FramesKept, accountVars, importVars
  <2> QED
    BY <1>2, <2>1, <2>2, RestingKeeps DEF Resting, AccountInv, accountVars
<1> QED
  BY <1>1, <1>2, LinkInv, HistoryInv, MessagesInv DEF AccountNext

\* What a step does to the committed account, the texts and the retired devices.
LEMMA CommitsOnly ==
  ASSUME AccountInv, AccountNext
  PROVE  /\ account'.device # account.device => account.device \in retired' \cup {0}
         /\ Known(account) \subseteq Known(account')
         /\ texts \subseteq texts'
         /\ Retire \/ PersistLink \/ (retired' = retired /\ account'.device = account.device)
         /\ (account.key = "held" /\ account'.key = "none" /\ account'.device = account.device)
              => account'.imported = "yes"
<1> DEFINE Goal == /\ account'.device # account.device => account.device \in retired' \cup {0}
                   /\ Known(account) \subseteq Known(account')
                   /\ texts \subseteq texts'
                   /\ Retire \/ PersistLink \/ (retired' = retired /\ account'.device = account.device)
                   /\ (account.key = "held" /\ account'.key = "none" /\ account'.device = account.device)
                        => account'.imported = "yes"
<1>0. /\ account \in Accounts /\ copy \in Accounts /\ account.contacts \in Seq(Contact)
      /\ copy.contacts \in Seq(Contact) /\ timers \in [Peers -> {"on", "off"}]
  BY DEF AccountInv, AccountTypeOK, Accounts
<1>1. CASE UNCHANGED account /\ texts \subseteq texts' /\ (retired' = retired \/ Retire)
  BY <1>1
<1>2. CASE PersistLink
  <2>1. /\ account' = copy /\ copy.contacts = account.contacts /\ copy.device = devices /\ account.device < devices
        /\ account.device \in retired \cup {0} /\ UNCHANGED <<texts, retired>>
    BY <1>2 DEF PersistLink, SaveAccount, AccountInv, CopyFits
  <2>2. account.device \in Nat
    BY <1>0 DEF Accounts
  <2> QED
    BY <1>2, <2>1, <2>2 DEF Known
<1>3. ASSUME NEW where \in {"good", "bad"}, Locate(where) PROVE Goal
  <2>1. account' = Located(account, where) /\ UNCHANGED <<texts, retired>>
    BY <1>3 DEF Locate, SaveAccount, AccountInv, CopyFits
  <2>2. account'.contacts = account.contacts /\ account'.device = account.device /\ account'.key = account.key
    BY <1>0, <2>1 DEF Located, Accounts
  <2> QED
    BY <2>1, <2>2 DEF Known
<1>4. CASE CommitImport
  <2>1. /\ account' = Spent(copy) /\ texts' = texts \cup rows /\ UNCHANGED retired
        /\ Covers(copy.contacts, account.contacts) /\ copy.device = account.device
    BY <1>4 DEF CommitImport, SaveAccount, AccountInv, AccountTypeOK, CopyFits
  <2>2. account'.contacts = copy.contacts /\ account'.device = account.device /\ account'.imported = "yes"
    BY <1>0, <2>1 DEF Spent, Accounts
  <2> QED
    BY <2>1, <2>2, KnownIs DEF Covers
<1>5. ASSUME NEW p \in Peers, NEW t \in {"none", "on", "off"}, Receive(p, t) PROVE Goal
  <2> DEFINE cs == Heard(account.contacts, p, t)
  <2>1. account' = [account EXCEPT !.contacts = cs] /\ texts \subseteq texts' /\ UNCHANGED retired
    BY <1>5 DEF Receive, SaveAccount
  <2>2. cs \in Seq(Contact) /\ Covers(cs, account.contacts)
    BY <1>0, <1>5, HeardSound DEF AccountInv
  <2> HIDE DEF cs
  <2>3. account'.contacts = cs /\ account'.device = account.device /\ account'.key = account.key
    BY <1>0, <2>1, <2>2, Relisted
  <2> QED
    BY <2>1, <2>2, <2>3, KnownIs DEF Covers
<1>6. CASE PersistSend
  <2>1. /\ account' = copy /\ UNCHANGED <<texts, retired>> /\ Covers(copy.contacts, account.contacts)
        /\ copy = [account EXCEPT !.contacts = copy.contacts]
    BY <1>6 DEF PersistSend, SaveAccount, AccountInv, CopyFits
  <2>2. copy.device = account.device /\ copy.key = account.key
    BY <1>0, <2>1 DEF Accounts
  <2> QED
    BY <2>1, <2>2, KnownIs DEF Covers
<1>7. CASE Link
  <2>1. CASE StartLink \/ LinkFails \/ LinkRefused \/ Retire \/ \E key \in {"held", "none"} : ServiceLinks(key)
    BY <1>1, <2>1 DEF StartLink, LinkFails, LinkRefused, Retire, ServiceLinks
  <2> QED
    BY <1>2, <1>7, <2>1 DEF Link
<1>8. CASE History
  <2>1. CASE StartImport \/ NothingToImport \/ ImportFails \/ BeginImport \/ ImportFrame
    BY <1>1, <2>1 DEF StartImport, NothingToImport, ImportFails, BeginImport, ImportFrame
  <2> QED
    BY <1>3, <1>4, <1>8, <2>1 DEF History
<1>9. CASE Messages
  <2>1. CASE (\E p \in Peers, f \in Forms : StartSend(p, f)) \/ Recipient \/ SendFails \/ Transcribe
    BY <1>1, <2>1 DEF StartSend, Recipient, SendFails, Transcribe
  <2> QED
    BY <1>5, <1>6, <1>9, <2>1 DEF Messages
<1>10. CASE Die
  BY <1>1, <1>10 DEF Die
<1> QED
  BY <1>7, <1>8, <1>9, <1>10 DEF AccountNext

\* What is retained is not younger than the account's device.
RetiredEarlier == \A d \in retired : d <= account.device

LEMMA RetiredEarlierStays ==
  ASSUME AccountInv, RetiredEarlier, [AccountNext]_accountVars PROVE RetiredEarlier'
<1>0. account.device \in Nat /\ retired \subseteq Nat
  BY DEF AccountInv, AccountTypeOK, Accounts
<1>1. CASE Retire
  <2>1. retired' \subseteq retired \cup {account.device} /\ account' = account
    BY <1>1 DEF Retire, Retired
  <2> QED
    BY <1>0, <2>1 DEF RetiredEarlier
<1>2. CASE PersistLink
  <2>1. retired' = retired /\ account'.device = devices /\ account.device < devices /\ devices \in Nat
    BY <1>2 DEF PersistLink, SaveAccount, AccountInv, CopyFits, AccountTypeOK
  <2> QED
    BY <1>0, <2>1 DEF RetiredEarlier
<1>3. CASE retired' = retired /\ account'.device = account.device
  BY <1>3 DEF RetiredEarlier
<1>4. CASE UNCHANGED accountVars
  BY <1>4 DEF accountVars, RetiredEarlier
<1> QED
  BY <1>1, <1>2, <1>3, <1>4, CommitsOnly

\* Only a later device of the same number takes a retained one's place.
LEMMA Replacing ==
  ASSUME AccountInv, RetiredEarlier, AccountNext
  PROVE  \A d \in retired \ retired' : \E e \in retired' : d < e /\ Number[e] = Number[d]
<1> SUFFICES ASSUME NEW d \in retired \ retired'
             PROVE  \E e \in retired' : d < e /\ Number[e] = Number[d]
  OBVIOUS
<1>1. Retire
  BY CommitsOnly DEF PersistLink
<1>2. account.device \in retired' /\ Number[account.device] = Number[d] /\ d # account.device
  BY <1>1 DEF Retire, Retired
<1>3. d <= account.device /\ d \in Nat /\ account.device \in Nat
  BY DEF RetiredEarlier, AccountInv, AccountTypeOK, Accounts
<1> QED
  BY <1>2, <1>3

\* AccountInv and RetiredEarlier are invariants.
LEMMA AccountInvariance == AccountSpec => []AccountInv
  BY AccountInitInv, AccountNextInv, PTL DEF AccountSpec

LEMMA RetiredInvariance == AccountSpec => []RetiredEarlier
<1>1. AccountInit => RetiredEarlier
  BY DEF AccountInit, RetiredEarlier
<1> QED
  BY <1>1, RetiredEarlierStays, AccountInvariance, PTL DEF AccountSpec

\* link.mjs, history.mjs, receive.mjs, send.mjs: every variable keeps its type.
THEOREM AccountTypeCorrect == AccountSpec => []AccountTypeOK
  BY AccountInvariance, PTL DEF AccountInv

\* send.mjs, with the edits of history.mjs and receive.mjs: a message of ours
\* that disappears for the others is kept only where the peer has an entry
\* without a uuid, for every archive and any number of peers.
THEOREM TimersAreHonoured == AccountSpec => []TimersHonoured
  BY AccountInvariance, PTL DEF AccountInv

\* link.mjs: a device leaves the account only when it is among the retired ones,
\* a retired one gives way only to a later device of the same number, and no
\* conversation or text goes with it.
THEOREM PairingForgetsNothing == AccountSpec => PairingRetains
<1>1. AccountInv /\ RetiredEarlier /\ [AccountNext]_accountVars =>
        [/\ account'.device # account.device => account.device \in {0} \cup retired'
         /\ \A d \in retired \ retired' : \E e \in retired' : d < e /\ Number[e] = Number[d]
         /\ Known(account) \subseteq Known(account')
         /\ texts \subseteq texts']_accountVars
  BY CommitsOnly, Replacing
<1> QED
  BY <1>1, AccountInvariance, RetiredInvariance, PTL DEF AccountSpec, PairingRetains

\* history.mjs: an account marked as imported has all of the archive, and the
\* one-time key goes only with the texts it opens or for the next pairing's.
THEOREM ImportsAreWhole == AccountSpec => ImportIsWhole
<1>1. AccountInv /\ AccountInv' /\ [AccountNext]_accountVars =>
        [/\ account'.imported = "yes" =>
              /\ HistoryText \subseteq texts'
              /\ \A i \in DOMAIN Archive : Archive[i].peer \in Known(account')
         /\ (account.key = "held" /\ account'.key = "none" /\ account'.device = account.device)
              => account'.imported = "yes"]_accountVars
  BY CommitsOnly DEF AccountInv, ImportedWhole
<1> QED
  BY <1>1, AccountInvariance, PTL DEF AccountSpec, ImportIsWhole
=============================================================================
