--------------------------- MODULE SignalReceive ---------------------------
(***************************************************************************)
(* The durable receive path of the native Signal client: the service       *)
(* mailbox, the connection callback of network.mjs that commits an         *)
(* encrypted copy before acknowledging, and the drain loop of receive.mjs  *)
(* that decrypts queued rows one transaction at a time.  One process runs  *)
(* at a time (signal_cli.py serialises them: module SignalStore); it may   *)
(* crash between any two steps.                                            *)
(*                                                                         *)
(* An account's ratchet state is abstracted to the set of envelopes whose  *)
(* plaintext it has consumed: decrypting e needs the session or sender     *)
(* key that Needs[e] establishes, and a consumed e cannot be decrypted     *)
(* again.                                                                  *)
(***************************************************************************)
EXTENDS Naturals, FiniteSets

CONSTANTS
  Envelopes,    \* encrypted envelopes the service may hold for this device
  HasGuid,      \* those carrying serverGuid or serverGuidBinary
  Kind,         \* what each envelope turns out to be
  Needs,        \* envelopes that must be decrypted first (session, sender key)
  Target,       \* for a delete: the text envelopes it names
  MaxCopies,    \* bound: rows a GUID-less envelope may be stored under
  MaxFaults     \* bound: crashes and transactions that find the database busy

\* text: body kept.  silent: decrypts, nothing for the inbox (expiring,
\* view-once, key distribution, no body).  delete: removes its targets.
\* receipt: types 5 and 8, never decrypted.  rejected: decrypts and is then
\* refused (certificate mismatch, sync from another account).
Kinds == {"text", "silent", "delete", "receipt", "rejected"}

ASSUME EnvelopeAssumption ==
  /\ IsFiniteSet(Envelopes) /\ HasGuid \subseteq Envelopes
  /\ Kind \in [Envelopes -> Kinds]
  /\ Needs \in [Envelopes -> SUBSET Envelopes]
  /\ Target \in [Envelopes -> SUBSET {e \in Envelopes : Kind[e] = "text"}]
  /\ \A e \in Envelopes : Kind[e] # "delete" => Target[e] = {}
  /\ \A e \in Envelopes : Kind[e] = "receipt" => Needs[e] = {}
  /\ MaxCopies \in Nat \ {0}
  /\ MaxFaults \in Nat

Texts    == {e \in Envelopes : Kind[e] = "text"}
Receipts == {e \in Envelopes : Kind[e] = "receipt"}

\* Row identifiers: the server GUID, or a random UUID for each delivery.
Ids == {id \in Envelopes \X (0 .. MaxCopies) : (id[2] = 0) <=> (id[1] \in HasGuid)}
EnvOf(id) == id[1]
RowidBound == Cardinality(Ids) + 1

VARIABLES
  server,     \* envelopes the service still retains
  sent,       \* envelopes already handed to the current connection
  acks,       \* acknowledgements on their way to the service
  rowid,      \* native_queue: 0 when the row is absent, else its rowid
  seen,       \* native_seen
  disk,       \* native_state: envelopes consumed by the committed ratchets
  inbox,      \* messages: text envelopes on display
  pc,         \* "down", "listening", "draining", "decrypted"
  mem,        \* the process's account object
  snapshot,   \* structuredClone(account) taken for the row in hand
  batch,      \* rows the drain's SELECT returned and has not reached
  cur,        \* the row in hand
  failures,   \* rows of this drain that stay queued
  error,      \* received.error is set
  exit,       \* how the last command ended
  faults,     \* faults so far
  commits,    \* history: transactions that consumed each envelope
  everFailed  \* history: rows some drain has failed on

serviceVars == <<server, sent, acks>>
tableVars   == <<rowid, seen, disk, inbox>>
processVars == <<pc, mem, snapshot, batch, cur, failures, error, exit>>
historyVars == <<commits, everFailed>>
vars == <<serviceVars, tableVars, processVars, faults, historyVars>>

NoRow  == <<>>
Queued == {id \in Ids : rowid[id] # 0}

Init ==
  /\ server = Envelopes /\ sent = {} /\ acks = {}
  /\ rowid = [id \in Ids |-> 0] /\ seen = {} /\ disk = {} /\ inbox = {}
  /\ pc = "down" /\ mem = {} /\ snapshot = {} /\ batch = {} /\ cur = NoRow
  /\ failures = {} /\ error = FALSE /\ exit = "none"
  /\ faults = 0
  /\ commits = [e \in Envelopes |-> 0] /\ everFailed = {}

Fault == faults < MaxFaults /\ faults' = faults + 1

(***************************************************************************)
(* The connection (network.mjs).                                           *)
(***************************************************************************)

\* execute() selects the account from the database, then connects.
StartPull ==
  /\ pc = "down"
  /\ pc' = "listening" /\ mem' = disk
  /\ failures' = {} /\ error' = FALSE
  /\ UNCHANGED <<serviceVars, tableVars, snapshot, batch, cur, exit, faults, historyVars>>

RowFor(e) == {id \in Ids : EnvOf(id) = e /\ (e \in HasGuid \/ id \notin seen \cup Queued)}

\* The least rowid above every row present, as SQLite assigns it.
IsNextRowid(n) ==
  /\ \A id \in Ids : rowid[id] < n
  /\ \A m \in 1 .. (n - 1) : \E id \in Ids : rowid[id] >= m

\* Mutant: native_seen is not consulted.
StoreRowAgain(id) ==
  IF id \in Queued THEN UNCHANGED rowid
  ELSE \E n \in 1 .. RowidBound : IsNextRowid(n) /\ rowid' = [rowid EXCEPT ![id] = n]

StoreRow(id) ==
  IF id \in seen \cup Queued THEN UNCHANGED rowid
  ELSE \E n \in 1 .. RowidBound : IsNextRowid(n) /\ rowid' = [rowid EXCEPT ![id] = n]

\* onIncomingMessage: the callback is synchronous, so it runs whole between
\* two steps of the drain.  The row is committed, then the ack is sent.
Incoming(e) ==
  /\ pc # "down" /\ e \in server \ sent
  /\ sent' = sent \cup {e}
  /\ \E id \in RowFor(e) : StoreRow(id)
  /\ acks' = acks \cup {e}
  /\ UNCHANGED <<server, seen, disk, inbox, processVars, faults, historyVars>>

\* Mutant: the acknowledgement is sent whether or not the insert succeeded.
IncomingFailsAcked(e) ==
  /\ pc # "down" /\ e \in server \ sent /\ Fault
  /\ sent' = sent \cup {e} /\ acks' = acks \cup {e}
  /\ error' = TRUE
  /\ UNCHANGED <<server, tableVars, pc, mem, snapshot, batch, cur, failures, exit, historyVars>>

\* The insert throws (database busy): no row, no ack, received.error is set.
IncomingFails(e) ==
  /\ pc # "down" /\ e \in server \ sent /\ Fault
  /\ sent' = sent \cup {e}
  /\ error' = TRUE
  /\ UNCHANGED <<server, acks, tableVars, pc, mem, snapshot, batch, cur, failures, exit, historyVars>>

\* The service forgets an envelope once its acknowledgement arrives.
ServerAck(e) ==
  /\ e \in acks
  /\ server' = server \ {e} /\ acks' = acks \ {e}
  /\ UNCHANGED <<sent, tableVars, processVars, faults, historyVars>>

\* Acknowledgements still on the wire are lost with the connection.
Disconnect == acks' = {} /\ sent' = {} /\ UNCHANGED server

(***************************************************************************)
(* The drain (receive.mjs).                                                *)
(***************************************************************************)

\* The delay of --timeout seconds is over: SELECT ... ORDER BY rowid.
DrainBegin ==
  /\ pc = "listening"
  /\ pc' = "draining" /\ batch' = Queued
  /\ UNCHANGED <<serviceVars, tableVars, mem, snapshot, cur, failures, error, exit, faults, commits, everFailed>>

\* Mutant: no ORDER BY.
AnyRow(id) == id \in batch

NextRow(id) == id \in batch /\ \A other \in batch : rowid[id] <= rowid[other]

\* What the ratchet needs to yield a plaintext.
Decryptable(e, ratchet) == e \notin ratchet /\ Needs[e] \subseteq ratchet

\* The account after decryptEnvelope, whether it then returns or throws.
AfterDecrypt(e, ratchet) ==
  IF Kind[e] # "receipt" /\ Decryptable(e, ratchet) THEN ratchet \cup {e} ELSE ratchet

DecryptRow(id) ==
  /\ pc = "draining" /\ NextRow(id)
  /\ pc' = "decrypted" /\ cur' = id /\ batch' = batch \ {id}
  /\ snapshot' = mem
  /\ mem' = AfterDecrypt(EnvOf(id), mem)
  /\ UNCHANGED <<serviceVars, tableVars, failures, error, exit, faults, historyVars>>

Decoded(e) == Kind[e] = "receipt" \/ (Kind[e] # "rejected" /\ Decryptable(e, snapshot))

\* Mutant: the text is dropped by the transaction that consumes it.
InboxDropped(e) == inbox \ Target[e]

InboxAfter(e) == (inbox \ Target[e]) \cup ({e} \cap Texts)

\* The row in hand is finished with.
RowDoneKeepingCursor == pc' = "draining" /\ cur' = cur   \* mutant
RowDone == pc' = "draining" /\ cur' = NoRow

PersistNothing == disk' = disk   \* mutant: the transaction forgets native_state
Persist == disk' = mem

\* BEGIN IMMEDIATE; ingest; persist; native_seen; DELETE the row; COMMIT.
CommitRow ==
  /\ pc = "decrypted" /\ Decoded(EnvOf(cur))
  /\ inbox' = InboxAfter(EnvOf(cur))
  /\ Persist
  /\ seen' = seen \cup {cur}
  /\ rowid' = [rowid EXCEPT ![cur] = 0]
  /\ commits' = [commits EXCEPT ![EnvOf(cur)] = @ + (IF Kind[EnvOf(cur)] = "receipt" THEN 0 ELSE 1)]
  /\ RowDone
  /\ UNCHANGED <<serviceVars, mem, snapshot, batch, failures, error, exit, faults, everFailed>>

\* Object.assign(account, snapshot).
AccountKept == mem' = mem   \* mutant: the failed row's ratchet step stays
AccountRestored == mem' = snapshot

\* The catch block: ROLLBACK if needed, restore the account, keep the row.
Restore ==
  /\ AccountRestored /\ RowDone
  /\ failures' = failures \cup {cur} /\ everFailed' = everFailed \cup {cur}
  /\ UNCHANGED <<serviceVars, tableVars, snapshot, batch, error, exit, commits>>

FailRow == pc = "decrypted" /\ ~Decoded(EnvOf(cur)) /\ Restore /\ UNCHANGED faults

\* The transaction itself fails, for instance SQLITE_BUSY at COMMIT.
CommitFails == pc = "decrypted" /\ Decoded(EnvOf(cur)) /\ Fault /\ Restore

Outcome == IF error \/ failures # {} THEN "error" ELSE "ok"

\* Every row has been tried: report, disconnect, close the database.
Finish ==
  /\ pc = "draining" /\ batch = {}
  /\ pc' = "down" /\ mem' = {} /\ snapshot' = {}
  /\ exit' = Outcome
  /\ Disconnect
  /\ UNCHANGED <<tableVars, batch, cur, failures, error, faults, historyVars>>

\* The process dies (or its wrapper's timeout kills it) at any step.
Crash ==
  /\ pc # "down" /\ Fault
  /\ pc' = "down" /\ mem' = {} /\ snapshot' = {} /\ batch' = {} /\ cur' = NoRow
  /\ exit' = "killed"
  /\ Disconnect
  /\ UNCHANGED <<tableVars, failures, error, historyVars>>

Next ==
  \/ StartPull \/ DrainBegin \/ CommitRow \/ FailRow \/ CommitFails \/ Finish \/ Crash
  \/ \E e \in Envelopes : Incoming(e) \/ IncomingFails(e) \/ ServerAck(e)
  \/ \E id \in Ids : DecryptRow(id)

Spec == Init /\ [][Next]_vars

(***************************************************************************)
(* Fairness: the user keeps pulling, the event loop keeps running, and a   *)
(* service that is offered connections for ever delivers what it retains.  *)
(***************************************************************************)
Fairness ==
  /\ WF_vars(StartPull) /\ WF_vars(DrainBegin) /\ WF_vars(Finish)
  /\ WF_vars(CommitRow) /\ WF_vars(FailRow)
  /\ WF_vars(\E id \in Ids : DecryptRow(id))
  /\ \A e \in Envelopes : SF_vars(Incoming(e))

FairSpec == Spec /\ Fairness

(***************************************************************************)
(* Properties.                                                             *)
(***************************************************************************)
TypeOK ==
  /\ server \subseteq Envelopes /\ sent \subseteq Envelopes /\ acks \subseteq Envelopes
  /\ rowid \in [Ids -> Nat] /\ seen \subseteq Ids
  /\ disk \subseteq Envelopes /\ inbox \subseteq Envelopes
  /\ pc \in {"down", "listening", "draining", "decrypted"}
  /\ mem \subseteq Envelopes /\ snapshot \subseteq Envelopes
  /\ batch \subseteq Ids /\ failures \subseteq Ids
  /\ IF pc = "decrypted" THEN cur \in Ids ELSE cur = NoRow
  /\ error \in BOOLEAN /\ exit \in {"none", "ok", "error", "killed"}
  /\ faults \in 0 .. MaxFaults
  /\ commits \in [Envelopes -> Nat] /\ everFailed \subseteq Ids

\* "Acknowledgement follows a committed encrypted copy, so decrypt failures
\* remain retryable": whatever the service has forgotten, or is about to, is
\* queued here or already consumed, across crashes and lost acks.
AcknowledgedIsStored ==
  \A e \in Envelopes : (e \notin server \/ e \in acks) =>
    \E id \in Queued \cup seen : EnvOf(id) = e

\* No envelope is consumed twice, however often it is redelivered, and even
\* when without a GUID each delivery is stored under a fresh identifier.
ConsumedAtMostOnce ==
  /\ \A e \in Envelopes : commits[e] = IF e \in disk THEN 1 ELSE 0
  /\ \A id \in seen : id \notin Queued /\ EnvOf(id) \in disk \cup Receipts

\* The inbox and the ratchet move together: text on display was consumed by
\* the committed ratchet, and consumed text is missing only if a deletion of
\* it was consumed too.
InboxMatchesRatchet ==
  /\ inbox \subseteq Texts \cap disk
  /\ \A e \in (Texts \cap disk) \ inbox : \E d \in disk : e \in Target[d]

\* Between rows the account in memory is the committed one, also after a row
\* whose decryption changed it and was then refused.
MemoryIsCommitted == pc \in {"listening", "draining"} => mem = disk

\* Rows are consumed in arrival order; one overtakes another only after the
\* other has failed at least once (which is how a deletion can run before
\* the text it names).
FifoUnlessFailed ==
  [][\A a, b \in Queued : rowid[a] < rowid[b] /\ b \notin Queued' /\ a \in Queued'
       => a \in everFailed]_vars

\* All of the above in one picture: the client implements a mailbox that
\* never loses an envelope, in which a crash is no step at all.
Stored == {EnvOf(id) : id \in Queued}
Consumed == disk \cup (Receipts \cap {EnvOf(id) : id \in seen})
Mailbox == INSTANCE DurableMailbox
             WITH held <- server, stored <- Stored, consumed <- Consumed, shown <- inbox
ImplementsMailbox == Mailbox!Spec

\* Envelopes that can be decrypted once everything they need has been.
Reachable[n \in Nat] ==
  IF n = 0 THEN {}
  ELSE {e \in Envelopes : Kind[e] \notin {"receipt", "rejected"} /\ Needs[e] \subseteq Reachable[n - 1]}

Good == Reachable[Cardinality(Envelopes)]

\* Every envelope that can be decrypted is, in whatever order it and what it
\* needs arrive, despite crashes and busy databases.
EventuallyConsumed == \A e \in Good : <>(e \in disk)
=============================================================================
