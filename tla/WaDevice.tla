------------------------------ MODULE WaDevice ------------------------------
(***************************************************************************)
(* device.json under several `wa` processes: pairing, the one-time prekey  *)
(* upload and the first messages of peers that used those prekeys.         *)
(*                                                                         *)
(* Every command reads (or creates) the device BEFORE it takes the         *)
(* connection lock, so what it works on can be older than the file.  A     *)
(* process keeps its own copy (mem) and saves all of it.  `wa listen` runs *)
(* until it is interrupted or its connection is lost: what follows a lost  *)
(* connection (cli.py:1259, 1263) names a logger that is not there, so the *)
(* process ends instead of connecting again.                               *)
(*                                                                         *)
(* Identities and prekey batches are numbers in order of generation; a     *)
(* batch stands for its 30 private halves.  All batches of one identity    *)
(* that were not saved carry the same ids, so the newest replaces the      *)
(* others on the server.                                                   *)
(***************************************************************************)
EXTENDS Naturals, FiniteSets

CONSTANTS
  Processes,
  Nobody,
  MaxIds,    \* bound: identities generated
  MaxStarts, \* bound: commands started
  MaxMail,   \* bound: pkmsgs of peers
  MaxFaults  \* bound: crashes and lost connections

ASSUME DeviceAssumption ==
  /\ Nobody \notin Processes
  /\ {MaxIds, MaxStarts, MaxMail, MaxFaults} \subseteq Nat

\* send stands for every command that connects without uploading prekeys; pull
\* is what a login is once it is paired.
Commands == {"login", "reset", "listen", "send"}

VARIABLES
  device,    \* device.json
  lock,      \* the process that holds connection_lock
  cmd, pc,   \* per process: its command and step
  mem,       \* per process: its Device object
  read,      \* history: per process, the identity device.json had when it was read
  known,     \* one-time prekeys in the connection's libsignal store
  batch,     \* the batch generated on this connection (0: none)
  reply,     \* the answer to its upload: none, result or error
  wire,      \* uploads on their way: <<identity, batch>>
  linked,    \* identities the server has linked
  bundle,    \* the batch from which the server serves each identity
  mail,      \* pkmsgs the server holds: <<identity, batch>>
  ids, batches, starts, faults,
  opened, dropped, \* history: pkmsgs decrypted / acknowledged undecrypted
  causes,          \* history: why private halves were missing: <<batch, cause>>
  orphans          \* history: linked identities given up in a known way

connVars    == <<known, batch, reply>>
serverVars  == <<wire, linked, bundle, mail>>
historyVars == <<opened, dropped, causes, orphans>>
vars == <<device, lock, cmd, pc, mem, read, connVars, serverVars, ids, batches, starts, faults, historyVars>>

\* Device.new; identity 0 is a missing device.json.
New(id) == [id |-> id, paired |-> "no", uploaded |-> "no", keys |-> {}]

\* Mutant: the flag is set and the private halves forgotten.
FlagOnly(dev, b) == [dev EXCEPT !.uploaded = "yes"]
Paired(dev)      == [dev EXCEPT !.paired = "yes"]
Extended(dev, b) == [dev EXCEPT !.uploaded = "yes", !.keys = @ \cup {b}]

Init ==
  /\ device = New(0) /\ lock = Nobody
  /\ cmd = [p \in Processes |-> "none"] /\ pc = [p \in Processes |-> "idle"]
  /\ mem = [p \in Processes |-> New(0)] /\ read = [p \in Processes |-> 0]
  /\ known = {} /\ batch = 0 /\ reply = "none"
  /\ wire = {} /\ linked = {} /\ bundle = [i \in 1 .. MaxIds |-> 0] /\ mail = {}
  /\ ids = 0 /\ batches = 0 /\ starts = 0 /\ faults = 0
  /\ opened = {} /\ dropped = {} /\ causes = {} /\ orphans = {}

Goto(p, label) == pc' = [pc EXCEPT ![p] = label]
Blame(bs, why) == causes' = causes \cup {<<b, why>> : b \in bs}
Fault == faults < MaxFaults /\ faults' = faults + 1

\* p was told to discard the device, or has not seen the one that is there.
MayDiscard(p) == cmd[p] = "reset" \/ read[p] # device.id

\* Device.save: keys that only the file held are gone, and so is a pairing that
\* dev does not have.
Undone(dev) == device.paired = "yes" /\ (dev.id # device.id \/ dev.paired = "no")
Save(p, dev, why) ==
  /\ device' = dev /\ Blame(device.keys \ dev.keys, why)
  /\ orphans' = IF Undone(dev) /\ MayDiscard(p) THEN orphans \cup {device.id} ELSE orphans

(***************************************************************************)
(* Commands start: the device is read, or made, outside the lock.          *)
(***************************************************************************)

Begin(p, c, dev) ==
  /\ pc[p] = "idle" /\ starts < MaxStarts
  /\ starts' = starts + 1
  /\ cmd' = [cmd EXCEPT ![p] = c] /\ mem' = [mem EXCEPT ![p] = dev]
  /\ read' = [read EXCEPT ![p] = device.id]
  /\ UNCHANGED <<device, lock, connVars, serverVars, batches, faults, historyVars>>

\* wa login and wa link, with --reset or without a device.
\* Mutant: login makes new keys until everything is set up.
NewUntilReady(c) == c = "reset" \/ device.uploaded = "no"
NeedsNew(c) == c = "reset" \/ device.id = 0
BeginFresh(p, c) ==
  /\ NeedsNew(c)
  /\ ids < MaxIds /\ ids' = ids + 1
  /\ Begin(p, c, New(ids + 1))
  /\ Goto(p, "making")

\* The new device is saved whatever the file has become meanwhile.
SaveFresh(p) ==
  /\ pc[p] = "making"
  /\ Save(p, mem[p], "discarded")
  /\ Goto(p, "blocked")
  /\ UNCHANGED <<lock, cmd, mem, read, connVars, serverVars, ids, batches, starts, faults, opened, dropped>>

BeginLogin(p) ==
  /\ ~NeedsNew("login")
  /\ Begin(p, "login", device) /\ Goto(p, "blocked")
  /\ UNCHANGED ids

BeginConnected(p, c) ==
  /\ device.id # 0 /\ device.paired = "yes"
  /\ Begin(p, c, device) /\ Goto(p, "blocked")
  /\ UNCHANGED ids

TakeLock(p) ==
  /\ pc[p] = "blocked" /\ lock = Nobody
  /\ lock' = p
  /\ Goto(p, IF mem[p].paired = "yes" THEN "joining" ELSE "pairing")
  /\ UNCHANGED <<device, cmd, mem, read, connVars, serverVars, ids, batches, starts, faults, historyVars>>

\* The end of a command: the flock goes with the process.
Release(p) == lock' = Nobody /\ Goto(p, "idle")
Hangup == known' = {} /\ batch' = 0 /\ reply' = "none"

End(p) ==
  /\ Release(p) /\ Hangup
  /\ cmd' = [cmd EXCEPT ![p] = "none"] /\ mem' = [mem EXCEPT ![p] = New(0)]
  /\ read' = [read EXCEPT ![p] = 0]
  /\ UNCHANGED <<device, serverVars, ids, batches, starts, opened, dropped>>

(***************************************************************************)
(* Pairing (_login_async).                                                 *)
(***************************************************************************)

\* The scan: handle_pair_success fills mem and the reply links us.
Pair(p) ==
  /\ pc[p] = "pairing"
  /\ mem' = [mem EXCEPT ![p] = Paired(@)] /\ linked' = linked \cup {mem[p].id}
  /\ Goto(p, "unsaved")
  /\ UNCHANGED <<device, lock, cmd, read, connVars, wire, bundle, mail, ids, batches, starts, faults, historyVars>>

SavePaired(p) ==
  /\ pc[p] = "unsaved"
  /\ Save(p, mem[p], "overwritten")
  /\ Goto(p, "joining")
  /\ UNCHANGED <<lock, cmd, mem, read, connVars, serverVars, ids, batches, starts, faults, opened, dropped>>

NoScan(p) == pc[p] = "pairing" /\ End(p) /\ UNCHANGED <<faults, causes, orphans>>

(***************************************************************************)
(* A connection: login handshake, upload, drain.                           *)
(***************************************************************************)

\* Mutant: prekeys are not put back into the libsignal store.
NotRestored(dev) == {}
Restored(dev) == dev.keys

NeedsUpload(p) == mem[p].uploaded = "no" /\ cmd[p] # "send"

\* <success/>: SignalSession takes its prekeys from the Device object; the
\* upload, if any, is the next thing sent.
Join(p) ==
  /\ pc[p] = "joining"
  /\ known' = Restored(mem[p]) /\ reply' = "none"
  /\ Blame(IF device.id = mem[p].id THEN device.keys \ mem[p].keys ELSE {}, "stale")
  /\ UNCHANGED <<device, lock, cmd, mem, read, linked, bundle, mail, ids, starts, faults, opened, dropped, orphans>>

JoinReady(p) ==
  /\ Join(p) /\ ~NeedsUpload(p)
  /\ batch' = 0
  /\ Goto(p, "draining")
  /\ UNCHANGED <<batches, wire>>

NewBatch == batches' = batches + 1 /\ batch' = batches'
UploadRequest(p) == wire' = wire \cup {<<mem[p].id, batch'>>}

JoinAndUpload(p) ==
  /\ Join(p) /\ NeedsUpload(p)
  /\ NewBatch /\ UploadRequest(p)
  /\ Goto(p, "uploading")

JoinFails(p) == pc[p] = "joining" /\ Fault /\ End(p) /\ UNCHANGED <<causes, orphans>>

Uploaded(p) ==
  /\ pc[p] = "uploading" /\ reply = "result"
  /\ mem' = [mem EXCEPT ![p] = Extended(@, batch)]
  /\ Save(p, Extended(mem[p], batch), "overwritten")
  /\ Goto(p, "draining")
  /\ UNCHANGED <<lock, cmd, read, connVars, serverVars, ids, batches, starts, faults, opened, dropped>>

Refused(p) ==
  /\ pc[p] = "uploading" /\ reply = "error"
  /\ Goto(p, "draining")
  /\ UNCHANGED <<device, lock, cmd, mem, read, connVars, serverVars, ids, batches, starts, faults, historyVars>>

\* request_iq gives up after 10 s; the server may have taken the batch.
OutOfTime(p) == pc[p] = "uploading"
UploadTimeout(p) ==
  /\ OutOfTime(p)
  /\ Blame({batch}, "unconfirmed")
  /\ Goto(p, "draining")
  /\ UNCHANGED <<device, lock, cmd, mem, read, connVars, serverVars, ids, batches, starts, faults, opened, dropped, orphans>>

Online(p) == pc[p] \in {"uploading", "draining"}

\* A pkmsg is acknowledged whether or not its prekey is at hand.
Receive(p, m) ==
  /\ Online(p) /\ m \in mail /\ m[1] = mem[p].id
  /\ mail' = mail \ {m}
  /\ IF m[2] \in known
     THEN opened' = opened \cup {m} /\ UNCHANGED <<dropped, causes>>
     ELSE /\ dropped' = dropped \cup {m} /\ opened' = opened
          /\ Blame({batch} \cap {m[2]}, "young")
  /\ UNCHANGED <<device, lock, cmd, pc, mem, read, connVars, wire, linked, bundle, ids, batches, starts, faults, orphans>>

Leave(p) == pc[p] = "draining" /\ End(p) /\ UNCHANGED <<faults, causes, orphans>>

\* The drain has its time or silence; that of `wa listen` has neither.
Exit(p) == cmd[p] # "listen" /\ Leave(p)

\* The user interrupts `wa listen`, or its connection is lost.
ListenEnds(p) == cmd[p] = "listen" /\ Leave(p)

\* Between the reply that links the device and the save the pairing is lost.
Crash(p) ==
  /\ lock = p /\ Fault
  /\ End(p)
  /\ Blame(IF pc[p] = "uploading" THEN {batch} ELSE {}, "unconfirmed")
  /\ orphans' = IF pc[p] = "unsaved" THEN orphans \cup {mem[p].id} ELSE orphans

(***************************************************************************)
(* The server and the peers.                                               *)
(***************************************************************************)

Waits(u) == \E p \in Processes : pc[p] = "uploading" /\ batch = u[2] /\ reply = "none"
Answer(u, r) == reply' = IF Waits(u) THEN r ELSE reply

Accept(u) ==
  /\ u \in wire /\ wire' = wire \ {u}
  /\ bundle' = [bundle EXCEPT ![u[1]] = u[2]]
  /\ Answer(u, "result")
  /\ UNCHANGED <<device, lock, cmd, pc, mem, read, known, batch, linked, mail, ids, batches, starts, faults, historyVars>>

Reject(u) ==
  /\ u \in wire /\ wire' = wire \ {u}
  /\ Answer(u, "error")
  /\ UNCHANGED <<device, lock, cmd, pc, mem, read, known, batch, linked, bundle, mail, ids, batches, starts, faults, historyVars>>

\* A peer takes a key of the bundle and writes to us; one per batch, to an
\* identity somebody still has, is enough.
PeerWrites(i) ==
  /\ i \in linked /\ bundle[i] # 0 /\ i \in {device.id} \cup {mem[p].id : p \in Processes}
  /\ <<i, bundle[i]>> \notin mail \cup opened \cup dropped
  /\ Cardinality(mail \cup opened \cup dropped) < MaxMail
  /\ mail' = mail \cup {<<i, bundle[i]>>}
  /\ UNCHANGED <<device, lock, cmd, pc, mem, read, connVars, wire, linked, bundle, ids, batches, starts, faults, historyVars>>

Start(p) ==
  \/ \E c \in {"login", "reset"} : BeginFresh(p, c)
  \/ BeginLogin(p)
  \/ \E c \in {"listen", "send"} : BeginConnected(p, c)

Work(p) ==
  \/ SaveFresh(p) \/ TakeLock(p) \/ SavePaired(p) \/ NoScan(p) \/ JoinReady(p)
  \/ JoinAndUpload(p) \/ Uploaded(p) \/ Refused(p) \/ UploadTimeout(p) \/ Exit(p)

Server ==
  \/ \E u \in wire : Accept(u) \/ Reject(u)
  \/ \E i \in DOMAIN bundle : PeerWrites(i)

Next ==
  \/ \E p \in Processes : \/ Start(p) \/ Work(p) \/ Pair(p)
                          \/ JoinFails(p) \/ ListenEnds(p) \/ Crash(p)
                          \/ \E m \in mail : Receive(p, m)
  \/ Server

Spec == Init /\ [][Next]_vars

\* A command runs on: what it awaits of the network has a timeout, the drain of
\* a command other than `wa listen` an end, and flock is granted when it is free.
\* Nothing is assumed of a listener's end, the server or the peers.
FairSpec == Spec /\ \A p \in Processes : WF_vars(Work(p))

(***************************************************************************)
(* Properties.                                                             *)
(***************************************************************************)

Devices == [id : 0 .. MaxIds, paired : {"yes", "no"}, uploaded : {"yes", "no"}, keys : SUBSET (1 .. batches)]
Holding == {"pairing", "unsaved", "joining", "uploading", "draining"}
Pkmsgs  == (1 .. MaxIds) \X (1 .. batches)

\* Types; only the holder of connection_lock is past its wait (connection_lock
\* wraps every command that opens a FrameSocket).
TypeOK ==
  /\ device \in Devices /\ mem \in [Processes -> Devices] /\ read \in [Processes -> 0 .. MaxIds]
  /\ lock \in Processes \cup {Nobody} /\ cmd \in [Processes -> Commands \cup {"none"}]
  /\ pc \in [Processes -> {"idle", "making", "blocked"} \cup Holding]
  /\ \A p \in Processes : pc[p] \in Holding <=> lock = p
  /\ known \subseteq 1 .. batches /\ batch \in 0 .. batches /\ reply \in {"none", "result", "error"}
  /\ wire \subseteq Pkmsgs /\ linked \subseteq 1 .. MaxIds /\ bundle \in [1 .. MaxIds -> 0 .. batches]
  /\ mail \cup opened \cup dropped \subseteq Pkmsgs
  /\ ids \in 0 .. MaxIds /\ starts \in 0 .. MaxStarts /\ faults \in 0 .. MaxFaults
  /\ batches \in 0 .. starts /\ orphans \subseteq 1 .. MaxIds
  /\ causes \subseteq (1 .. batches) \X {"unconfirmed", "overwritten", "discarded", "stale", "young"}

Lost == {b \in 1 .. batches : \E why \in {"unconfirmed", "overwritten", "discarded"} : <<b, why>> \in causes}

\* The batch from which the server serves the identity of device.json is one
\* whose private halves the file holds or the uploader is about to save,
\* unless its upload was never confirmed, a reset discarded it, or a process
\* that had read the file before another saved it has overwritten it
\* (_upload_prekeys, Device.save).
KeysKept ==
  \A i \in {device.id} \ {0} :
    bundle[i] \in {0} \cup device.keys \cup Lost
                  \cup {batch : p \in {q \in Processes : pc[q] = "uploading" /\ mem[q].id = i}}

\* A first message that is acknowledged undecrypted was written with a prekey
\* that this very connection uploaded, or that the process could not know of
\* because it read device.json too early, or whose private half was lost in an
\* unconfirmed upload or an overwritten file; there is no other way to lose one.
LossesHaveACause == \A m \in dropped : \E c \in causes : c[1] = m[2]

\* An identity that the server has linked is paired in device.json or in the
\* process about to save it, unless that process died in between (cli.py:2513),
\* --reset discarded it, or a command replaced it that had read device.json
\* before the identity was there, such as a login that found none: no other
\* process undoes a pairing with what it read before it.
PairingStands ==
  \A i \in linked :
    \/ device.id = i /\ device.paired = "yes"
    \/ \E p \in Processes : pc[p] = "unsaved" /\ mem[p].id = i
    \/ i \in orphans

Listening == \E p \in Processes : cmd[p] = "listen" /\ pc[p] = "draining"


\* cli.py:3224: messages that arrive during those IQs are decrypted and
\* acknowledged by the session, not dropped.
NothingDropped == dropped = {}
=============================================================================
