--------------------------- MODULE WaDeviceProofs ---------------------------
(***************************************************************************)
(* Theorems about WaDevice for any processes and any number of identities, *)
(* commands, first messages and faults: what device.json may forget, and   *)
(* how a first message may be lost.                                        *)
(***************************************************************************)
EXTENDS WaDevice, TLAPS, FiniteSetTheorems

\* Each batch belongs to a command that was started: those that may still make
\* one are counted.
Preparing == {"making", "blocked", "pairing", "unsaved", "joining"}
Ahead     == {p \in Processes : pc[p] \in Preparing}
Counted   == IsFiniteSet(Ahead) /\ batches + Cardinality(Ahead) <= starts

\* A command works on an identity, and past the scan on a paired one.
Identified ==
  /\ device.id = 0 => device.paired = "no"
  /\ \A p \in Processes : /\ pc[p] # "idle" => mem[p].id # 0
                          /\ pc[p] \in Holding \ {"pairing"} => mem[p].paired = "yes"
                          /\ pc[p] = "uploading" => batch # 0

\* Batch b of identity i: somebody has it, or it is on its way.
UploadOf(i, b) == b = batch /\ \E q \in Processes : pc[q] = "uploading" /\ mem[q].id = i
Owns(i, b) ==
  \/ device.id = i /\ b \in device.keys
  \/ \E p \in Processes : mem[p].id = i /\ b \in mem[p].keys
  \/ <<i, b>> \in wire \cup mail
  \/ i \in 1 .. MaxIds /\ b # 0 /\ bundle[i] = b
  \/ UploadOf(i, b)
OneOwner == \A i, j, b : Owns(i, b) /\ Owns(j, b) => i = j

\* What peers may be using is kept, about to be saved, or known to be lost.
Kept(i, b) == b \in device.keys \/ b \in Lost \/ UploadOf(i, b)
BundlesKept == \A i \in 1 .. MaxIds : bundle[i] # 0 => Kept(i, bundle[i])
MailKept    == \A m \in mail : Kept(m[1], m[2])
WireKept    == \A u \in wire : u[2] \in Lost \/ UploadOf(u[1], u[2])

\* An upload that is not confirmed serves nobody, and one that is answered is
\* no longer on its way.
AnswerFits ==
  \A p \in Processes : pc[p] = "uploading" =>
    /\ reply # "result" => (\A i \in 1 .. MaxIds : bundle[i] # batch) /\ \A m \in mail : m[2] # batch
    /\ reply # "none" => \A u \in wire : u[2] # batch

\* A connection knows the keys in use, but for its own upload's and those whose
\* loss has a cause.
Caused == {c[1] : c \in causes}
Served(i, b) == <<i, b>> \in mail \/ (i \in 1 .. MaxIds /\ b # 0 /\ bundle[i] = b)
OnlineKnows ==
  \A p \in Processes : Online(p) => \A b : Served(mem[p].id, b) => b \in known \cup {batch} \cup Caused

Safe == BundlesKept /\ MailKept /\ WireKept /\ AnswerFits

\* What a process has read is what it works on, unless it found no device or
\* was told to discard it.
ReadsFit ==
  \A p \in Processes : /\ pc[p] # "idle" => cmd[p] = "reset" \/ read[p] \in {0, mem[p].id}
                       /\ pc[p] = "making" => cmd[p] = "reset" \/ read[p] = 0
Standing == read \in [Processes -> 0 .. MaxIds] /\ orphans \subseteq 1 .. MaxIds /\ ReadsFit /\ PairingStands

IInv == TypeOK /\ Counted /\ Identified /\ OneOwner /\ Safe /\ OnlineKnows /\ LossesHaveACause /\ Standing

\* TypeOK in three parts.
DevicesOf(n) == [id : 0 .. MaxIds, paired : {"yes", "no"}, uploaded : {"yes", "no"}, keys : SUBSET (1 .. n)]
Causes       == {"unconfirmed", "overwritten", "discarded", "stale", "young"}
FilesOK ==
  /\ device \in DevicesOf(batches) /\ mem \in [Processes -> DevicesOf(batches)] /\ ids \in 0 .. MaxIds
  /\ batches \in Nat /\ batch \in 0 .. batches /\ causes \subseteq (1 .. batches) \X Causes
StepsOK ==
  /\ lock \in Processes \cup {Nobody} /\ cmd \in [Processes -> Commands \cup {"none"}]
  /\ pc \in [Processes -> {"idle", "making", "blocked"} \cup Holding]
  /\ \A p \in Processes : pc[p] \in Holding <=> lock = p
  /\ starts \in 0 .. MaxStarts /\ faults \in 0 .. MaxFaults
ReadsOK == read \in [Processes -> 0 .. MaxIds] /\ orphans \subseteq 1 .. MaxIds
WiresOK ==
  /\ known \subseteq 1 .. batches /\ reply \in {"none", "result", "error"}
  /\ wire \subseteq Pkmsgs /\ linked \subseteq 1 .. MaxIds /\ bundle \in [1 .. MaxIds -> 0 .. batches]
  /\ mail \cup opened \cup dropped \subseteq Pkmsgs

\* Device objects: a new one, a paired one, one with another batch, and one
\* that has lived while batches were made.
LEMMA DeviceFacts ==
  ASSUME NEW n \in Nat, NEW dev \in DevicesOf(n)
  PROVE  /\ \A id \in 0 .. MaxIds : New(id) \in DevicesOf(n)
         /\ Paired(dev) \in DevicesOf(n)
         /\ \A b \in 1 .. n : Extended(dev, b) \in DevicesOf(n)
         /\ dev \in DevicesOf(n + 1)
<1>1. 1 .. n \subseteq 1 .. n + 1
  OBVIOUS
<1> QED
  BY <1>1 DEF DevicesOf, New, Paired, Extended

\* A cause is given to batches that were made.
LEMMA BlameIs ==
  ASSUME FilesOK, NEW bs \in SUBSET (1 .. batches), NEW why \in Causes, Blame(bs, why)
  PROVE  causes' \subseteq (1 .. batches) \X Causes
  BY DEF Blame, FilesOK

\* What device.json and the processes hold are batches that were made.
LEMMA KeysMade ==
  ASSUME FilesOK
  PROVE  /\ device.keys \subseteq 1 .. batches
         /\ \A p \in Processes : mem[p] \in DevicesOf(batches) /\ mem[p].keys \subseteq 1 .. batches
  BY DEF FilesOK, DevicesOf


\* Every command works on an identity.
LEMMA IdentifiedStep == TypeOK /\ Identified /\ [Next]_vars => Identified'
<1> SUFFICES ASSUME TypeOK, Identified, [Next]_vars PROVE Identified'
  OBVIOUS
<1> USE DeviceAssumption DEF TypeOK, vars, connVars, serverVars, historyVars
<1>1. ASSUME NEW p \in Processes, NEW c \in Commands, BeginFresh(p, c) PROVE Identified'
  BY <1>1 DEF BeginFresh, Begin, Goto, Save, New, Identified, New, Holding
<1>2. ASSUME NEW p \in Processes, BeginLogin(p) PROVE Identified'
  BY <1>2 DEF BeginLogin, Begin, Goto, NeedsNew, Identified, Holding
<1>3. ASSUME NEW p \in Processes, NEW c \in Commands, BeginConnected(p, c) PROVE Identified'
  BY <1>3 DEF BeginConnected, Begin, Goto, Identified, New, Holding, Devices
<1>4. ASSUME NEW p \in Processes, TakeLock(p) PROVE Identified'
  BY <1>4 DEF TakeLock, Goto, Identified, New, Holding, Devices
<1>5. ASSUME NEW p \in Processes, Pair(p) PROVE Identified'
  BY <1>5 DEF Pair, Goto, Paired, Identified, New, Holding, Devices
<1>6. ASSUME NEW p \in Processes, SavePaired(p) PROVE Identified'
  BY <1>6 DEF SavePaired, Goto, Save, Identified
<1>7. ASSUME NEW p \in Processes, NoScan(p) PROVE Identified'
  BY <1>7 DEF NoScan, End, Release, Goto, Identified, Holding
<1>8. ASSUME NEW p \in Processes, JoinReady(p) PROVE Identified'
  BY <1>8 DEF JoinReady, Join, Goto, Identified
<1>9. ASSUME NEW p \in Processes, JoinAndUpload(p) PROVE Identified'
  BY <1>9 DEF JoinAndUpload, Join, Goto, NewBatch, Identified, Holding
<1>10. ASSUME NEW p \in Processes, JoinFails(p) PROVE Identified'
  BY <1>10 DEF JoinFails, End, Release, Goto, Identified, Holding
<1>11. ASSUME NEW p \in Processes, Uploaded(p) PROVE Identified'
  BY <1>11 DEF Uploaded, Goto, Save, Extended, Identified
<1>12. ASSUME NEW p \in Processes, Refused(p) PROVE Identified'
  BY <1>12 DEF Refused, Goto, Identified, New, Holding, Devices
<1>13. ASSUME NEW p \in Processes, UploadTimeout(p) PROVE Identified'
  BY <1>13 DEF UploadTimeout, OutOfTime, Goto, Identified
<1>14. ASSUME NEW p \in Processes, NEW m \in mail, Receive(p, m) PROVE Identified'
  BY <1>14 DEF Receive, Blame, Identified, New, Holding, Devices
<1>15. ASSUME NEW p \in Processes, Leave(p) PROVE Identified'
  BY <1>15 DEF Leave, End, Release, Goto, Identified, Holding
<1>16. ASSUME NEW p \in Processes, SaveFresh(p) PROVE Identified'
  BY <1>16 DEF SaveFresh, Goto, Save, Identified, Holding
<1>17. ASSUME NEW p \in Processes, Crash(p) PROVE Identified'
  BY <1>17 DEF Crash, End, Release, Goto, Identified, Holding
<1>18. ASSUME NEW u \in wire, Accept(u) PROVE Identified'
  BY <1>18 DEF Accept, Answer, Waits, Identified, New, Holding, Devices
<1>19. ASSUME NEW u \in wire, Reject(u) PROVE Identified'
  BY <1>19 DEF Reject, Answer, Waits, Identified, New, Holding, Devices
<1>20. ASSUME NEW i \in DOMAIN bundle, PeerWrites(i) PROVE Identified'
  BY <1>20 DEF PeerWrites, Identified, New, Holding, Devices
<1>21. CASE UNCHANGED vars
  BY <1>21 DEF Identified, New, Holding, Devices
<1> HIDE DEF TypeOK
<1> QED
  BY <1>1, <1>2, <1>3, <1>4, <1>5, <1>6, <1>7, <1>8, <1>9, <1>10, <1>11, <1>12, <1>13, <1>14,
     <1>15, <1>16,
    <1>17, <1>18, <1>19, <1>20, <1>21 DEF Next, Start, Work, Server, Exit, ListenEnds, Commands

\* The parts make the whole.
LEMMA TypeParts == DeviceAssumption => (TypeOK <=> FilesOK /\ StepsOK /\ WiresOK /\ batches \in 0 .. starts /\ ReadsOK)
<1> SUFFICES ASSUME DeviceAssumption PROVE TypeOK <=> FilesOK /\ StepsOK /\ WiresOK /\ batches \in 0 .. starts /\ ReadsOK
  OBVIOUS
<1>1. Devices = DevicesOf(batches)
  BY DEF Devices, DevicesOf
<1>2. MaxStarts \in Nat /\ MaxFaults \in Nat
  BY DEF DeviceAssumption
<1>3. StepsOK => (batches \in 0 .. starts => batches \in Nat)
  BY <1>2 DEF StepsOK
<1> QED
  BY <1>1, <1>3 DEF TypeOK, FilesOK, StepsOK, WiresOK, ReadsOK, Causes

\* Every step keeps the lock with the one process past its wait.
LEMMA StepsStep == StepsOK /\ [Next]_vars => StepsOK'
<1> SUFFICES ASSUME StepsOK, [Next]_vars PROVE StepsOK'
  OBVIOUS
<1> USE DeviceAssumption DEF vars, connVars, serverVars, historyVars
<1>1. ASSUME NEW p \in Processes, NEW c \in Commands, BeginFresh(p, c) PROVE StepsOK'
  BY <1>1 DEF BeginFresh, Begin, Goto, Save, Blame, Holding, StepsOK
<1>2. ASSUME NEW p \in Processes, BeginLogin(p) PROVE StepsOK'
  BY <1>2 DEF BeginLogin, Begin, Goto, NeedsNew, Commands, Holding, StepsOK
<1>3. ASSUME NEW p \in Processes, NEW c \in Commands, BeginConnected(p, c) PROVE StepsOK'
  BY <1>3 DEF BeginConnected, Begin, Goto, Holding, StepsOK
<1>4. ASSUME NEW p \in Processes, TakeLock(p) PROVE StepsOK'
  BY <1>4 DEF TakeLock, Goto, Holding, StepsOK
<1>5. ASSUME NEW p \in Processes, Pair(p) PROVE StepsOK'
  BY <1>5 DEF Pair, Goto, Holding, StepsOK
<1>6. ASSUME NEW p \in Processes, SavePaired(p) PROVE StepsOK'
  BY <1>6 DEF SavePaired, Goto, Save, Blame, Holding, StepsOK
<1>7. ASSUME NEW p \in Processes, NoScan(p) PROVE StepsOK'
  BY <1>7 DEF NoScan, End, Release, Hangup, Goto, Holding, StepsOK
<1>8. ASSUME NEW p \in Processes, JoinReady(p) PROVE StepsOK'
  BY <1>8 DEF JoinReady, Join, Goto, Holding, StepsOK
<1>9. ASSUME NEW p \in Processes, JoinAndUpload(p) PROVE StepsOK'
  BY <1>9 DEF JoinAndUpload, Join, Goto, Holding, StepsOK
<1>10. ASSUME NEW p \in Processes, JoinFails(p) PROVE StepsOK'
  BY <1>10 DEF JoinFails, End, Release, Goto, Fault, Holding, StepsOK
<1>11. ASSUME NEW p \in Processes, Uploaded(p) PROVE StepsOK'
  BY <1>11 DEF Uploaded, Goto, Save, Blame, Holding, StepsOK
<1>12. ASSUME NEW p \in Processes, Refused(p) PROVE StepsOK'
  BY <1>12 DEF Refused, Goto, Holding, StepsOK
<1>13. ASSUME NEW p \in Processes, UploadTimeout(p) PROVE StepsOK'
  BY <1>13 DEF UploadTimeout, OutOfTime, Goto, Blame, Holding, StepsOK
<1>14. ASSUME NEW p \in Processes, NEW m \in mail, Receive(p, m) PROVE StepsOK'
  BY <1>14 DEF Receive, Blame, Holding, StepsOK
<1>15. ASSUME NEW p \in Processes, Leave(p) PROVE StepsOK'
  BY <1>15 DEF Leave, End, Release, Hangup, Goto, Holding, StepsOK
<1>16. ASSUME NEW p \in Processes, SaveFresh(p) PROVE StepsOK'
  BY <1>16 DEF SaveFresh, Goto, Save, Blame, Holding, StepsOK
<1>17. ASSUME NEW p \in Processes, Crash(p) PROVE StepsOK'
  BY <1>17 DEF Crash, End, Release, Goto, Fault, Holding, StepsOK
<1>18. ASSUME NEW u \in wire, Accept(u) PROVE StepsOK'
  BY <1>18 DEF Accept, Answer, Waits, Holding, StepsOK
<1>19. ASSUME NEW u \in wire, Reject(u) PROVE StepsOK'
  BY <1>19 DEF Reject, Answer, Waits, Holding, StepsOK
<1>20. ASSUME NEW i \in DOMAIN bundle, PeerWrites(i) PROVE StepsOK'
  BY <1>20 DEF PeerWrites, Holding, StepsOK
<1>21. CASE UNCHANGED vars
  BY <1>21 DEF Holding, StepsOK
<1> QED
  BY <1>1, <1>2, <1>3, <1>4, <1>5, <1>6, <1>7, <1>8, <1>9, <1>10, <1>11, <1>12, <1>13, <1>14,
     <1>15, <1>16,
    <1>17, <1>18, <1>19, <1>20, <1>21 DEF Next, Start, Work, Server, Exit, ListenEnds, Commands

\* Every step keeps the types of the file and its copies.
LEMMA FilesStep == FilesOK /\ StepsOK /\ Identified /\ [Next]_vars => FilesOK'
<1> SUFFICES ASSUME FilesOK, StepsOK, Identified, [Next]_vars PROVE FilesOK'
  OBVIOUS
<1> USE DeviceAssumption DEF vars, connVars, serverVars, historyVars
<1>1. ASSUME NEW p \in Processes, NEW c \in Commands, BeginFresh(p, c) PROVE FilesOK'
  <2>1. /\ ids' = ids + 1 /\ ids < MaxIds /\ mem' = [mem EXCEPT ![p] = New(ids + 1)]
        /\ UNCHANGED <<device, batches, batch, causes>>
    BY <1>1 DEF BeginFresh, Begin
  <2>2. ids + 1 \in 0 .. MaxIds
    BY <2>1 DEF FilesOK
  <2>3. New(ids + 1) \in DevicesOf(batches)
    BY <2>2, DeviceFacts DEF FilesOK
  <2> QED
    BY <2>1, <2>2, <2>3 DEF FilesOK
<1>2. ASSUME NEW p \in Processes, BeginLogin(p) PROVE FilesOK'
  BY <1>2 DEF BeginLogin, Begin, FilesOK
<1>3. ASSUME NEW p \in Processes, NEW c \in Commands, BeginConnected(p, c) PROVE FilesOK'
  BY <1>3 DEF BeginConnected, Begin, Goto, FilesOK, StepsOK, Causes
<1>4. ASSUME NEW p \in Processes, TakeLock(p) PROVE FilesOK'
  BY <1>4 DEF TakeLock, Goto, FilesOK, StepsOK, Causes
<1>5. ASSUME NEW p \in Processes, Pair(p) PROVE FilesOK'
  <2>1. mem' = [mem EXCEPT ![p] = Paired(mem[p])] /\ UNCHANGED <<device, ids, batches, batch, causes>>
    BY <1>5 DEF Pair
  <2>2. Paired(mem[p]) \in DevicesOf(batches)
    BY KeysMade, DeviceFacts DEF FilesOK
  <2> QED
    BY <2>1, <2>2 DEF FilesOK
<1>6. ASSUME NEW p \in Processes, SavePaired(p) PROVE FilesOK'
  <2>1. /\ device' = mem[p] /\ Blame(device.keys \ mem[p].keys, "overwritten")
        /\ UNCHANGED <<mem, ids, batches, batch>>
    BY <1>6 DEF SavePaired, Save
  <2>2. causes' \subseteq (1 .. batches) \X Causes
    BY <2>1, BlameIs, KeysMade DEF Causes
  <2> QED
    BY <2>1, <2>2 DEF FilesOK
<1>7. ASSUME NEW p \in Processes, NoScan(p) PROVE FilesOK'
  <2>1. /\ UNCHANGED <<device, ids, batches>> /\ batch' = 0 /\ mem' = [mem EXCEPT ![p] = New(0)]
        /\ New(0) \in DevicesOf(batches)
    BY <1>7, DeviceFacts DEF NoScan, End, Release, Hangup, Goto, FilesOK
  <2>2. causes' \subseteq (1 .. batches) \X Causes
    BY <1>7 DEF NoScan, End, Release, Hangup, Goto, FilesOK
  <2> QED
    BY <2>1, <2>2 DEF FilesOK
<1>8. ASSUME NEW p \in Processes, JoinReady(p) PROVE FilesOK'
  <2>1. UNCHANGED <<device, mem, ids, batches>> /\ batch' = 0
    BY <1>8 DEF JoinReady, Join
  <2>2. causes' \subseteq (1 .. batches) \X Causes
    <3>1. PICK bs \in SUBSET (1 .. batches) : Blame(bs, "stale")
      BY <1>8, KeysMade DEF JoinReady, Join
    <3> QED
      BY <3>1, BlameIs DEF Causes
  <2> QED
    BY <2>1, <2>2 DEF FilesOK
<1>9. ASSUME NEW p \in Processes, JoinAndUpload(p) PROVE FilesOK'
  <2>1. UNCHANGED <<device, mem, ids>> /\ batches' = batches + 1 /\ batch' = batches + 1
    BY <1>9 DEF JoinAndUpload, Join, NewBatch
  <2>2. causes' \subseteq (1 .. batches) \X Causes
    <3>1. PICK bs \in SUBSET (1 .. batches) : Blame(bs, "stale")
      BY <1>9, KeysMade DEF JoinAndUpload, Join
    <3> QED
      BY <3>1, BlameIs DEF Causes
  <2>3. device \in DevicesOf(batches + 1) /\ \A o \in Processes : mem[o] \in DevicesOf(batches + 1)
    BY DeviceFacts DEF FilesOK
  <2>4. (1 .. batches) \X Causes \subseteq (1 .. batches + 1) \X Causes
    BY DEF FilesOK
  <2> QED
    BY <2>1, <2>2, <2>3, <2>4 DEF FilesOK
<1>10. ASSUME NEW p \in Processes, JoinFails(p) PROVE FilesOK'
  <2>1. /\ UNCHANGED <<device, ids, batches>> /\ batch' = 0 /\ mem' = [mem EXCEPT ![p] = New(0)]
        /\ New(0) \in DevicesOf(batches)
    <3>1. New(0) \in DevicesOf(batches)
      BY DeviceFacts DEF FilesOK
    <3> QED
      BY <1>10, <3>1 DEF JoinFails, End, Hangup
  <2>2. causes' \subseteq (1 .. batches) \X Causes
    BY <1>10 DEF JoinFails, End, Release, Hangup, Goto, Fault, FilesOK
  <2> QED
    BY <2>1, <2>2 DEF FilesOK
<1>11. ASSUME NEW p \in Processes, Uploaded(p) PROVE FilesOK'
  <2>1. /\ device' = Extended(mem[p], batch) /\ mem' = [mem EXCEPT ![p] = Extended(mem[p], batch)]
        /\ Blame(device.keys \ Extended(mem[p], batch).keys, "overwritten")
        /\ UNCHANGED <<ids, batches, batch>> /\ pc[p] = "uploading"
    BY <1>11 DEF Uploaded, Save
  <2>2. causes' \subseteq (1 .. batches) \X Causes
    BY <2>1, BlameIs, KeysMade DEF Causes
  <2>3. batch \in 1 .. batches
    BY <2>1 DEF Identified, FilesOK
  <2>4. Extended(mem[p], batch) \in DevicesOf(batches)
    BY <2>3, KeysMade, DeviceFacts DEF FilesOK
  <2> QED
    BY <2>1, <2>2, <2>4 DEF FilesOK
<1>12. ASSUME NEW p \in Processes, Refused(p) PROVE FilesOK'
  BY <1>12 DEF Refused, Goto, FilesOK, StepsOK, Causes
<1>13. ASSUME NEW p \in Processes, UploadTimeout(p) PROVE FilesOK'
  <2>1. pc[p] = "uploading" /\ UNCHANGED <<device, mem, ids, batches, batch>> /\ Blame({batch}, "unconfirmed")
    BY <1>13 DEF UploadTimeout, OutOfTime
  <2>2. {batch} \in SUBSET (1 .. batches)
    BY <2>1 DEF Identified, FilesOK
  <2>3. causes' \subseteq (1 .. batches) \X Causes
    BY <2>1, <2>2, BlameIs DEF Causes
  <2> QED
    BY <2>1, <2>3 DEF FilesOK
<1>14. ASSUME NEW p \in Processes, NEW m \in mail, Receive(p, m) PROVE FilesOK'
  BY <1>14 DEF Receive, Blame, FilesOK, StepsOK, Causes
<1>15. ASSUME NEW p \in Processes, Leave(p) PROVE FilesOK'
  <2>1. /\ UNCHANGED <<device, ids, batches>> /\ batch' = 0 /\ mem' = [mem EXCEPT ![p] = New(0)]
        /\ New(0) \in DevicesOf(batches)
    BY <1>15, DeviceFacts DEF Leave, End, Release, Hangup, Goto, FilesOK
  <2>2. causes' \subseteq (1 .. batches) \X Causes
    BY <1>15 DEF Leave, End, Release, Hangup, Goto, FilesOK
  <2> QED
    BY <2>1, <2>2 DEF FilesOK
<1>16. ASSUME NEW p \in Processes, SaveFresh(p) PROVE FilesOK'
  <2>1. /\ device' = mem[p] /\ Blame(device.keys \ mem[p].keys, "discarded")
        /\ UNCHANGED <<mem, ids, batches, batch>>
    BY <1>16 DEF SaveFresh, Save
  <2>2. causes' \subseteq (1 .. batches) \X Causes
    BY <2>1, BlameIs, KeysMade DEF Causes
  <2> QED
    BY <2>1, <2>2 DEF FilesOK
<1>17. ASSUME NEW p \in Processes, Crash(p) PROVE FilesOK'
  <2>1. /\ UNCHANGED <<device, ids, batches>> /\ batch' = 0 /\ mem' = [mem EXCEPT ![p] = New(0)]
        /\ New(0) \in DevicesOf(batches)
    BY <1>17, DeviceFacts DEF Crash, End, Hangup, Blame, FilesOK
  <2>2. causes' \subseteq (1 .. batches) \X Causes
    <3>1. PICK bs \in SUBSET (1 .. batches) : Blame(bs, "unconfirmed")
      <4>1. pc[p] = "uploading" => batch \in 1 .. batches
        BY DEF Identified, FilesOK
      <4> QED
        BY <1>17, <4>1 DEF Crash
    <3> QED
      BY <3>1, BlameIs DEF Causes
  <2> QED
    BY <2>1, <2>2 DEF FilesOK
<1>18. ASSUME NEW u \in wire, Accept(u) PROVE FilesOK'
  BY <1>18 DEF Accept, Answer, Waits, FilesOK, StepsOK, Causes
<1>19. ASSUME NEW u \in wire, Reject(u) PROVE FilesOK'
  BY <1>19 DEF Reject, Answer, Waits, FilesOK, StepsOK, Causes
<1>20. ASSUME NEW i \in DOMAIN bundle, PeerWrites(i) PROVE FilesOK'
  BY <1>20 DEF PeerWrites, FilesOK, StepsOK, Causes
<1>21. CASE UNCHANGED vars
  BY <1>21 DEF FilesOK, StepsOK, Causes
<1> QED
  BY <1>1, <1>2, <1>3, <1>4, <1>5, <1>6, <1>7, <1>8, <1>9, <1>10, <1>11, <1>12, <1>13, <1>14,
     <1>15, <1>16,
    <1>17, <1>18, <1>19, <1>20, <1>21 DEF Next, Start, Work, Server, Exit, ListenEnds, Commands

\* Every step keeps the types of the connection and the server.
LEMMA WiresStep == FilesOK /\ StepsOK /\ Identified /\ WiresOK /\ [Next]_vars => WiresOK'
<1> SUFFICES ASSUME FilesOK, StepsOK, Identified, WiresOK, [Next]_vars PROVE WiresOK'
  OBVIOUS
<1> USE DeviceAssumption DEF vars, connVars, serverVars, historyVars
<1>1. ASSUME NEW p \in Processes, NEW c \in Commands, BeginFresh(p, c) PROVE WiresOK'
  BY <1>1 DEF BeginFresh, Begin, WiresOK, Pkmsgs
<1>2. ASSUME NEW p \in Processes, BeginLogin(p) PROVE WiresOK'
  BY <1>2 DEF BeginLogin, Begin, WiresOK, Pkmsgs
<1>3. ASSUME NEW p \in Processes, NEW c \in Commands, BeginConnected(p, c) PROVE WiresOK'
  BY <1>3 DEF BeginConnected, Begin, WiresOK, Pkmsgs
<1>4. ASSUME NEW p \in Processes, TakeLock(p) PROVE WiresOK'
  BY <1>4 DEF TakeLock, Goto, FilesOK, WiresOK, Pkmsgs, DevicesOf, Identified
<1>5. ASSUME NEW p \in Processes, Pair(p) PROVE WiresOK'
  <2>1. mem[p].id \in 1 .. MaxIds
    BY <1>5, KeysMade DEF Pair, Identified, DevicesOf
  <2>2. linked' = linked \cup {mem[p].id} /\ UNCHANGED <<known, reply, wire, bundle, mail, opened, dropped, batches>>
    BY <1>5 DEF Pair
  <2> QED
    BY <2>1, <2>2 DEF WiresOK, Pkmsgs
<1>6. ASSUME NEW p \in Processes, SavePaired(p) PROVE WiresOK'
  BY <1>6 DEF SavePaired, WiresOK, Pkmsgs
<1>7. ASSUME NEW p \in Processes, NoScan(p) PROVE WiresOK'
  BY <1>7 DEF NoScan, End, Hangup, WiresOK, Pkmsgs
<1>8. ASSUME NEW p \in Processes, JoinReady(p) PROVE WiresOK'
  BY <1>8 DEF JoinReady, Join, Restored, FilesOK, WiresOK, Pkmsgs, DevicesOf
<1>9. ASSUME NEW p \in Processes, JoinAndUpload(p) PROVE WiresOK'
  <2>1. mem[p].id \in 1 .. MaxIds /\ mem[p].keys \subseteq 1 .. batches
    BY <1>9, KeysMade DEF JoinAndUpload, Join, Identified, DevicesOf
  <2>2. /\ known' \subseteq mem[p].keys /\ reply' = "none" /\ batches' = batches + 1
        /\ wire' = wire \cup {<<mem[p].id, batches + 1>>}
        /\ UNCHANGED <<linked, bundle, mail, opened, dropped>>
    BY <1>9 DEF JoinAndUpload, Join, Restored, NewBatch, UploadRequest
  <2>3. 1 .. batches \subseteq 1 .. batches' /\ 0 .. batches \subseteq 0 .. batches' /\ batches + 1 \in 1 .. batches'
    BY <2>2 DEF FilesOK
  <2>4. Pkmsgs \subseteq Pkmsgs' /\ <<mem[p].id, batches + 1>> \in Pkmsgs'
    BY <2>1, <2>3 DEF Pkmsgs
  <2> QED
    BY <2>1, <2>2, <2>3, <2>4 DEF WiresOK
<1>10. ASSUME NEW p \in Processes, JoinFails(p) PROVE WiresOK'
  BY <1>10 DEF JoinFails, End, Hangup, WiresOK, Pkmsgs
<1>11. ASSUME NEW p \in Processes, Uploaded(p) PROVE WiresOK'
  BY <1>11 DEF Uploaded, WiresOK, Pkmsgs
<1>12. ASSUME NEW p \in Processes, Refused(p) PROVE WiresOK'
  BY <1>12 DEF Refused, Goto, FilesOK, WiresOK, Pkmsgs, DevicesOf, Identified
<1>13. ASSUME NEW p \in Processes, UploadTimeout(p) PROVE WiresOK'
  BY <1>13 DEF UploadTimeout, WiresOK, Pkmsgs
<1>14. ASSUME NEW p \in Processes, NEW m \in mail, Receive(p, m) PROVE WiresOK'
  <2>1. /\ mail' = mail \ {m} /\ opened' \subseteq opened \cup {m} /\ dropped' \subseteq dropped \cup {m} /\ m \in mail
        /\ UNCHANGED <<known, reply, wire, linked, bundle, batches>>
    BY <1>14 DEF Receive
  <2> QED
    BY <2>1 DEF WiresOK, Pkmsgs
<1>15. ASSUME NEW p \in Processes, Leave(p) PROVE WiresOK'
  BY <1>15 DEF Leave, End, Hangup, WiresOK, Pkmsgs
<1>16. ASSUME NEW p \in Processes, SaveFresh(p) PROVE WiresOK'
  BY <1>16 DEF SaveFresh, WiresOK, Pkmsgs
<1>17. ASSUME NEW p \in Processes, Crash(p) PROVE WiresOK'
  BY <1>17 DEF Crash, End, Hangup, WiresOK, Pkmsgs
<1>18. ASSUME NEW u \in wire, Accept(u) PROVE WiresOK'
  BY <1>18 DEF Accept, Answer, Waits, WiresOK, Pkmsgs
<1>19. ASSUME NEW u \in wire, Reject(u) PROVE WiresOK'
  BY <1>19 DEF Reject, Answer, WiresOK, Pkmsgs
<1>20. ASSUME NEW i \in DOMAIN bundle, PeerWrites(i) PROVE WiresOK'
  BY <1>20 DEF PeerWrites, FilesOK, WiresOK, Pkmsgs, DevicesOf, Identified
<1>21. CASE UNCHANGED vars
  BY <1>21 DEF FilesOK, WiresOK, Pkmsgs, DevicesOf, Identified
<1> QED
  BY <1>1, <1>2, <1>3, <1>4, <1>5, <1>6, <1>7, <1>8, <1>9, <1>10, <1>11, <1>12, <1>13, <1>14,
     <1>15, <1>16,
    <1>17, <1>18, <1>19, <1>20, <1>21 DEF Next, Start, Work, Server, Exit, ListenEnds, Commands

\* Every count of the processes that may still upload is a number.
LEMMA Counting ==
  ASSUME Counted, NEW p
  PROVE  /\ Cardinality(Ahead) \in Nat
         /\ IsFiniteSet(Ahead \cup {p}) /\ Cardinality(Ahead \cup {p}) <= Cardinality(Ahead) + 1
         /\ IsFiniteSet(Ahead \ {p}) /\ Cardinality(Ahead \ {p}) <= Cardinality(Ahead)
         /\ p \in Ahead => Cardinality(Ahead \ {p}) = Cardinality(Ahead) - 1
<1>1. IsFiniteSet(Ahead) /\ Cardinality(Ahead) \in Nat
  BY FS_CardinalityType DEF Counted
<1>2. /\ IsFiniteSet(Ahead \cup {p})
      /\ Cardinality(Ahead \cup {p}) = IF p \in Ahead THEN Cardinality(Ahead) ELSE Cardinality(Ahead) + 1
  BY <1>1, FS_AddElement
<1>3. /\ IsFiniteSet(Ahead \ {p})
      /\ Cardinality(Ahead \ {p}) = IF p \in Ahead THEN Cardinality(Ahead) - 1 ELSE Cardinality(Ahead)
  BY <1>1, FS_RemoveElement
<1> QED
  BY <1>1, <1>2, <1>3

\* Every step counts the batches that were and may still be made.
LEMMA CountedStep == FilesOK /\ StepsOK /\ Counted /\ [Next]_vars => Counted'
<1> SUFFICES ASSUME FilesOK, StepsOK, Counted, [Next]_vars PROVE Counted'
  OBVIOUS
<1> USE DeviceAssumption DEF vars, connVars, serverVars, historyVars
<1>1. ASSUME NEW p \in Processes, NEW c \in Commands, BeginFresh(p, c) PROVE Counted'
  <2>a. batches \in Nat /\ starts \in Nat /\ faults \in Nat
    BY DEF FilesOK, StepsOK
  <2>1. Ahead' = Ahead \cup {p} /\ starts' = starts + 1 /\ UNCHANGED <<batches, faults>>
    BY <1>1 DEF BeginFresh, Begin, Goto, Ahead, Preparing, StepsOK
  <2>2. /\ Cardinality(Ahead) \in Nat /\ Cardinality(Ahead \cup {p}) \in Nat /\ IsFiniteSet(Ahead \cup {p})
        /\ Cardinality(Ahead \cup {p}) <= Cardinality(Ahead) + 1
    BY <2>1, Counting, FS_CardinalityType
  <2>3. batches + Cardinality(Ahead) <= starts
    BY DEF Counted
  <2> QED
    BY <2>1, <2>a, <2>2, <2>3 DEF Counted
<1>2. ASSUME NEW p \in Processes, BeginLogin(p) PROVE Counted'
  <2>a. batches \in Nat /\ starts \in Nat /\ faults \in Nat
    BY DEF FilesOK, StepsOK
  <2>1. Ahead' = Ahead \cup {p} /\ starts' = starts + 1 /\ UNCHANGED <<batches, faults>>
    BY <1>2 DEF BeginLogin, Begin, Goto, Ahead, Preparing, StepsOK
  <2>2. /\ Cardinality(Ahead) \in Nat /\ Cardinality(Ahead \cup {p}) \in Nat /\ IsFiniteSet(Ahead \cup {p})
        /\ Cardinality(Ahead \cup {p}) <= Cardinality(Ahead) + 1
    BY <2>1, Counting, FS_CardinalityType
  <2>3. batches + Cardinality(Ahead) <= starts
    BY DEF Counted
  <2> QED
    BY <2>1, <2>a, <2>2, <2>3 DEF Counted
<1>3. ASSUME NEW p \in Processes, NEW c \in Commands, BeginConnected(p, c) PROVE Counted'
  <2>a. batches \in Nat /\ starts \in Nat /\ faults \in Nat
    BY DEF FilesOK, StepsOK
  <2>1. Ahead' = Ahead \cup {p} /\ starts' = starts + 1 /\ UNCHANGED <<batches, faults>>
    BY <1>3 DEF BeginConnected, Begin, Goto, Ahead, Preparing, StepsOK, Holding
  <2>2. /\ Cardinality(Ahead) \in Nat /\ Cardinality(Ahead \cup {p}) \in Nat /\ IsFiniteSet(Ahead \cup {p})
        /\ Cardinality(Ahead \cup {p}) <= Cardinality(Ahead) + 1
    BY <2>1, Counting, FS_CardinalityType
  <2>3. batches + Cardinality(Ahead) <= starts
    BY DEF Counted
  <2> QED
    BY <2>1, <2>a, <2>2, <2>3 DEF Counted
<1>4. ASSUME NEW p \in Processes, TakeLock(p) PROVE Counted'
  <2>1. Ahead' = Ahead /\ UNCHANGED <<batches, starts, faults>>
    BY <1>4 DEF TakeLock, Goto, Ahead, Preparing, StepsOK, Holding
  <2> QED
    BY <2>1 DEF Counted
<1>5. ASSUME NEW p \in Processes, Pair(p) PROVE Counted'
  <2>1. Ahead' = Ahead /\ UNCHANGED <<batches, starts, faults>>
    BY <1>5 DEF Pair, Goto, Ahead, Preparing, StepsOK, Holding
  <2> QED
    BY <2>1 DEF Counted
<1>6. ASSUME NEW p \in Processes, SavePaired(p) PROVE Counted'
  <2>1. Ahead' = Ahead /\ UNCHANGED <<batches, starts, faults>>
    BY <1>6 DEF SavePaired, Goto, Ahead, Preparing
  <2> QED
    BY <2>1 DEF Counted
<1>7. ASSUME NEW p \in Processes, NoScan(p) PROVE Counted'
  <2>a. batches \in Nat /\ starts \in Nat /\ faults \in Nat
    BY DEF FilesOK, StepsOK
  <2>1. Ahead' = Ahead \ {p} /\ UNCHANGED <<batches, starts, faults>>
    BY <1>7 DEF NoScan, End, Release, Goto, Ahead, Preparing, StepsOK
  <2>2. /\ Cardinality(Ahead) \in Nat /\ Cardinality(Ahead \ {p}) \in Nat /\ IsFiniteSet(Ahead \ {p})
        /\ Cardinality(Ahead \ {p}) <= Cardinality(Ahead)
    BY <2>1, Counting, FS_CardinalityType
  <2>3. batches + Cardinality(Ahead) <= starts
    BY DEF Counted
  <2> QED
    BY <2>1, <2>a, <2>2, <2>3 DEF Counted
<1>8. ASSUME NEW p \in Processes, JoinReady(p) PROVE Counted'
  <2>a. batches \in Nat /\ starts \in Nat /\ faults \in Nat
    BY DEF FilesOK, StepsOK
  <2>1. Ahead' = Ahead \ {p} /\ UNCHANGED <<batches, starts, faults>>
    BY <1>8 DEF JoinReady, Join, Goto, Ahead, Preparing, StepsOK
  <2>2. /\ Cardinality(Ahead) \in Nat /\ Cardinality(Ahead \ {p}) \in Nat /\ IsFiniteSet(Ahead \ {p})
        /\ Cardinality(Ahead \ {p}) <= Cardinality(Ahead)
    BY <2>1, Counting, FS_CardinalityType
  <2>3. batches + Cardinality(Ahead) <= starts
    BY DEF Counted
  <2> QED
    BY <2>1, <2>a, <2>2, <2>3 DEF Counted
<1>9. ASSUME NEW p \in Processes, JoinAndUpload(p) PROVE Counted'
  <2>a. batches \in Nat /\ starts \in Nat /\ faults \in Nat
    BY DEF FilesOK, StepsOK
  <2>1. Ahead' = Ahead \ {p} /\ p \in Ahead /\ batches' = batches + 1 /\ UNCHANGED <<faults, starts>>
    BY <1>9 DEF JoinAndUpload, Join, Goto, NewBatch, Ahead, Preparing, StepsOK
  <2>2. /\ Cardinality(Ahead) \in Nat /\ Cardinality(Ahead \ {p}) \in Nat /\ IsFiniteSet(Ahead \ {p})
        /\ Cardinality(Ahead \ {p}) <= Cardinality(Ahead) - 1
    <3>1. p \in Ahead /\ Ahead' = Ahead \ {p}
      BY <2>1
    <3>2. /\ Cardinality(Ahead) \in Nat /\ IsFiniteSet(Ahead \ {p})
          /\ p \in Ahead => Cardinality(Ahead \ {p}) = Cardinality(Ahead) - 1
      BY Counting
    <3> QED
      BY <3>1, <3>2, FS_CardinalityType
  <2>3. batches + Cardinality(Ahead) <= starts
    BY DEF Counted
  <2> QED
    BY <2>1, <2>a, <2>2, <2>3 DEF Counted
<1>10. ASSUME NEW p \in Processes, JoinFails(p) PROVE Counted'
  <2>a. batches \in Nat /\ starts \in Nat /\ faults \in Nat
    BY DEF FilesOK, StepsOK
  <2>1. Ahead' = Ahead \ {p} /\ faults' = faults + 1 /\ UNCHANGED <<batches, starts>>
    BY <1>10 DEF JoinFails, End, Release, Goto, Fault, Ahead, Preparing, StepsOK
  <2>2. /\ Cardinality(Ahead) \in Nat /\ Cardinality(Ahead \ {p}) \in Nat /\ IsFiniteSet(Ahead \ {p})
        /\ Cardinality(Ahead \ {p}) <= Cardinality(Ahead)
    BY <2>1, Counting, FS_CardinalityType
  <2>3. batches + Cardinality(Ahead) <= starts
    BY DEF Counted
  <2> QED
    BY <2>1, <2>a, <2>2, <2>3 DEF Counted
<1>11. ASSUME NEW p \in Processes, Uploaded(p) PROVE Counted'
  <2>1. Ahead' = Ahead /\ UNCHANGED <<batches, starts, faults>>
    BY <1>11 DEF Uploaded, Goto, Ahead, Preparing
  <2> QED
    BY <2>1 DEF Counted
<1>12. ASSUME NEW p \in Processes, Refused(p) PROVE Counted'
  <2>1. Ahead' = Ahead /\ UNCHANGED <<batches, starts, faults>>
    BY <1>12 DEF Refused, Goto, Ahead, Preparing, StepsOK, Holding
  <2> QED
    BY <2>1 DEF Counted
<1>13. ASSUME NEW p \in Processes, UploadTimeout(p) PROVE Counted'
  <2>1. Ahead' = Ahead /\ UNCHANGED <<batches, starts, faults>>
    BY <1>13 DEF UploadTimeout, OutOfTime, Goto, Ahead, Preparing
  <2> QED
    BY <2>1 DEF Counted
<1>14. ASSUME NEW p \in Processes, NEW m \in mail, Receive(p, m) PROVE Counted'
  <2>1. Ahead' = Ahead /\ UNCHANGED <<batches, starts, faults>>
    BY <1>14 DEF Receive, Blame, Ahead, Preparing, StepsOK, Holding
  <2> QED
    BY <2>1 DEF Counted
<1>15. ASSUME NEW p \in Processes, Leave(p) PROVE Counted'
  <2>1. Ahead' = Ahead /\ UNCHANGED <<batches, starts, faults>>
    BY <1>15 DEF Leave, End, Release, Goto, Ahead, Preparing
  <2> QED
    BY <2>1 DEF Counted
<1>16. ASSUME NEW p \in Processes, SaveFresh(p) PROVE Counted'
  <2>1. Ahead' = Ahead /\ UNCHANGED <<batches, starts>>
    BY <1>16 DEF SaveFresh, Goto, Ahead, Preparing
  <2> QED
    BY <2>1 DEF Counted
<1>17. ASSUME NEW p \in Processes, Crash(p) PROVE Counted'
  <2>a. batches \in Nat /\ starts \in Nat /\ faults \in Nat
    BY DEF FilesOK, StepsOK
  <2>1. Ahead' = Ahead \ {p} /\ faults' = faults + 1 /\ UNCHANGED <<batches, starts>>
    BY <1>17 DEF Crash, End, Release, Goto, Fault, Ahead, Preparing, StepsOK
  <2>2. /\ Cardinality(Ahead) \in Nat /\ Cardinality(Ahead \ {p}) \in Nat /\ IsFiniteSet(Ahead \ {p})
        /\ Cardinality(Ahead \ {p}) <= Cardinality(Ahead)
    BY <2>1, Counting, FS_CardinalityType
  <2>3. batches + Cardinality(Ahead) <= starts
    BY DEF Counted
  <2> QED
    BY <2>1, <2>a, <2>2, <2>3 DEF Counted
<1>18. ASSUME NEW u \in wire, Accept(u) PROVE Counted'
  <2>1. Ahead' = Ahead /\ UNCHANGED <<batches, starts, faults>>
    BY <1>18 DEF Accept, Answer, Waits, Ahead, Preparing, StepsOK, Holding
  <2> QED
    BY <2>1 DEF Counted
<1>19. ASSUME NEW u \in wire, Reject(u) PROVE Counted'
  <2>1. Ahead' = Ahead /\ UNCHANGED <<batches, starts, faults>>
    BY <1>19 DEF Reject, Answer, Waits, Ahead, Preparing, StepsOK, Holding
  <2> QED
    BY <2>1 DEF Counted
<1>20. ASSUME NEW i \in DOMAIN bundle, PeerWrites(i) PROVE Counted'
  <2>1. Ahead' = Ahead /\ UNCHANGED <<batches, starts, faults>>
    BY <1>20 DEF PeerWrites, Ahead, Preparing, StepsOK, Holding
  <2> QED
    BY <2>1 DEF Counted
<1>21. CASE UNCHANGED vars
  BY <1>21 DEF Counted, Ahead
<1> QED
  BY <1>1, <1>2, <1>3, <1>4, <1>5, <1>6, <1>7, <1>8, <1>9, <1>10, <1>11, <1>12, <1>13, <1>14,
     <1>15, <1>16,
    <1>17, <1>18, <1>19, <1>20, <1>21 DEF Next, Start, Work, Server, Exit, ListenEnds, Commands

\* Every step leaves a batch with the identity that made it.
LEMMA OneOwnerStep == FilesOK /\ StepsOK /\ WiresOK /\ OneOwner /\ [Next]_vars => OneOwner'
<1> SUFFICES ASSUME FilesOK, StepsOK, WiresOK, OneOwner, [Next]_vars PROVE OneOwner'
  OBVIOUS
<1> USE DeviceAssumption DEF vars, connVars, serverVars, historyVars
<1>1. ASSUME NEW p \in Processes, NEW c \in Commands, BeginFresh(p, c) PROVE OneOwner'
  <2>1. \A i, b : Owns(i, b)' => Owns(i, b)
    BY <1>1 DEF BeginFresh, Begin, Goto, Save, New, Owns, UploadOf
  <2> QED
    BY <2>1 DEF OneOwner
<1>2. ASSUME NEW p \in Processes, BeginLogin(p) PROVE OneOwner'
  <2>1. \A i, b : Owns(i, b)' => Owns(i, b)
    BY <1>2 DEF BeginLogin, Begin, Goto, Owns, UploadOf
  <2> QED
    BY <2>1 DEF OneOwner
<1>3. ASSUME NEW p \in Processes, NEW c \in Commands, BeginConnected(p, c) PROVE OneOwner'
  <2>1. \A i, b : Owns(i, b)' => Owns(i, b)
    BY <1>3 DEF BeginConnected, Begin, Goto, Owns, UploadOf
  <2> QED
    BY <2>1 DEF OneOwner
<1>4. ASSUME NEW p \in Processes, TakeLock(p) PROVE OneOwner'
  <2>1. \A i, b : Owns(i, b)' => Owns(i, b)
    BY <1>4 DEF TakeLock, Goto, Owns, UploadOf
  <2> QED
    BY <2>1 DEF OneOwner
<1>5. ASSUME NEW p \in Processes, Pair(p) PROVE OneOwner'
  <2>1. \A i, b : Owns(i, b)' => Owns(i, b)
    BY <1>5 DEF Pair, Goto, Paired, Owns, UploadOf
  <2> QED
    BY <2>1 DEF OneOwner
<1>6. ASSUME NEW p \in Processes, SavePaired(p) PROVE OneOwner'
  <2>1. \A i, b : Owns(i, b)' => Owns(i, b)
    BY <1>6 DEF SavePaired, Goto, Save, Owns, UploadOf
  <2> QED
    BY <2>1 DEF OneOwner
<1>7. ASSUME NEW p \in Processes, NoScan(p) PROVE OneOwner'
  <2>1. \A i, b : Owns(i, b)' => Owns(i, b)
    BY <1>7 DEF NoScan, End, Release, Goto, New, Owns, UploadOf, StepsOK
  <2> QED
    BY <2>1 DEF OneOwner
<1>8. ASSUME NEW p \in Processes, JoinReady(p) PROVE OneOwner'
  <2>1. \A i, b : Owns(i, b)' => Owns(i, b)
    BY <1>8 DEF JoinReady, Join, Goto, Owns, UploadOf, StepsOK
  <2> QED
    BY <2>1 DEF OneOwner
<1>9. ASSUME NEW p \in Processes, JoinAndUpload(p) PROVE OneOwner'
  <2>1. \A j, b : Owns(j, b)' => Owns(j, b) \/ (b = batches + 1 /\ j = mem[p].id)
    BY <1>9 DEF JoinAndUpload, Join, Goto, NewBatch, UploadRequest, Owns, UploadOf, StepsOK
  <2>2. \A j, b : Owns(j, b) => b # batches + 1
    BY KeysMade DEF Owns, UploadOf, FilesOK, WiresOK, Pkmsgs
  <2> QED
    BY <2>1, <2>2 DEF OneOwner
<1>10. ASSUME NEW p \in Processes, JoinFails(p) PROVE OneOwner'
  <2>1. \A i, b : Owns(i, b)' => Owns(i, b)
    BY <1>10 DEF JoinFails, End, Release, Goto, New, Owns, UploadOf, StepsOK
  <2> QED
    BY <2>1 DEF OneOwner
<1>11. ASSUME NEW p \in Processes, Uploaded(p) PROVE OneOwner'
  <2>1. \A i, b : Owns(i, b)' => Owns(i, b)
    BY <1>11 DEF Uploaded, Goto, Save, Extended, Owns, UploadOf
  <2> QED
    BY <2>1 DEF OneOwner
<1>12. ASSUME NEW p \in Processes, Refused(p) PROVE OneOwner'
  <2>1. \A i, b : Owns(i, b)' => Owns(i, b)
    BY <1>12 DEF Refused, Goto, Owns, UploadOf
  <2> QED
    BY <2>1 DEF OneOwner
<1>13. ASSUME NEW p \in Processes, UploadTimeout(p) PROVE OneOwner'
  <2>1. \A i, b : Owns(i, b)' => Owns(i, b)
    BY <1>13 DEF UploadTimeout, Goto, Owns, UploadOf
  <2> QED
    BY <2>1 DEF OneOwner
<1>14. ASSUME NEW p \in Processes, NEW m \in mail, Receive(p, m) PROVE OneOwner'
  <2>1. \A i, b : Owns(i, b)' => Owns(i, b)
    BY <1>14 DEF Receive, Owns, UploadOf
  <2> QED
    BY <2>1 DEF OneOwner
<1>15. ASSUME NEW p \in Processes, Leave(p) PROVE OneOwner'
  <2>1. \A i, b : Owns(i, b)' => Owns(i, b)
    BY <1>15 DEF Leave, End, Release, Goto, New, Owns, UploadOf, StepsOK
  <2> QED
    BY <2>1 DEF OneOwner
<1>16. ASSUME NEW p \in Processes, SaveFresh(p) PROVE OneOwner'
  <2>1. \A i, b : Owns(i, b)' => Owns(i, b)
    BY <1>16 DEF SaveFresh, Goto, Save, Owns, UploadOf
  <2> QED
    BY <2>1 DEF OneOwner
<1>17. ASSUME NEW p \in Processes, Crash(p) PROVE OneOwner'
  <2>1. \A i, b : Owns(i, b)' => Owns(i, b)
    BY <1>17 DEF Crash, End, Release, Goto, New, Owns, UploadOf, StepsOK
  <2> QED
    BY <2>1 DEF OneOwner
<1>18. ASSUME NEW u \in wire, Accept(u) PROVE OneOwner'
  <2>0. u = <<u[1], u[2]>>
    BY DEF WiresOK, Pkmsgs
  <2>1. <<u[1], u[2]>> \in wire /\ wire' \subseteq wire /\ bundle' = [bundle EXCEPT ![u[1]] = u[2]]
        /\ UNCHANGED <<device, mem, mail, pc, batch>>
    BY <1>18, <2>0 DEF Accept
  <2>2. \A j, b : Owns(j, b)' => Owns(j, b)
    BY <2>1 DEF Owns, UploadOf, WiresOK
  <2> QED
    BY <2>2 DEF OneOwner
<1>19. ASSUME NEW u \in wire, Reject(u) PROVE OneOwner'
  <2>1. \A i, b : Owns(i, b)' => Owns(i, b)
    BY <1>19 DEF Reject, Owns, UploadOf
  <2> QED
    BY <2>1 DEF OneOwner
<1>20. ASSUME NEW i \in DOMAIN bundle, PeerWrites(i) PROVE OneOwner'
  <2>1. \A j, b : Owns(j, b)' => Owns(j, b)
    BY <1>20 DEF PeerWrites, Owns, UploadOf, FilesOK, StepsOK, WiresOK, Holding
  <2> QED
    BY <2>1 DEF OneOwner
<1>21. CASE UNCHANGED vars
  BY <1>21 DEF OneOwner, Owns, UploadOf
<1> QED
  BY <1>1, <1>2, <1>3, <1>4, <1>5, <1>6, <1>7, <1>8, <1>9, <1>10, <1>11, <1>12, <1>13, <1>14,
     <1>15, <1>16,
    <1>17, <1>18, <1>19, <1>20, <1>21 DEF Next, Start, Work, Server, Exit, ListenEnds, Commands

\* No batch is on its way twice.
LEMMA OneUpload ==
  ASSUME WiresOK, OneOwner, NEW u \in wire, NEW w \in wire, u[2] = w[2]
  PROVE  u = w
<1>1. u = <<u[1], u[2]>> /\ w = <<w[1], w[2]>>
  BY DEF WiresOK, Pkmsgs
<1>2. Owns(u[1], u[2]) /\ Owns(w[1], u[2])
  BY <1>1 DEF Owns
<1> QED
  BY <1>1, <1>2 DEF OneOwner

\* Every step keeps, or records as lost, the private halves that peers may be using.
LEMMA SafeStep == FilesOK /\ StepsOK /\ WiresOK /\ Identified /\ OneOwner /\ Safe /\ [Next]_vars => Safe'
<1> SUFFICES ASSUME FilesOK, StepsOK, WiresOK, Identified, OneOwner, Safe, [Next]_vars PROVE Safe'
  OBVIOUS
<1> USE DeviceAssumption DEF vars, connVars, serverVars, historyVars
<1>1. ASSUME NEW p \in Processes, NEW c \in Commands, BeginFresh(p, c) PROVE Safe'
  <2>a. \A i, b : Kept(i, b) => Kept(i, b)'
    BY <1>1 DEF BeginFresh, Begin, Goto, Save, Blame, Kept, Lost, UploadOf, FilesOK, DevicesOf
  <2>1. BundlesKept'
    BY <1>1, <2>a DEF BeginFresh, Begin, BundlesKept, Safe
  <2>2. MailKept'
    BY <1>1, <2>a DEF BeginFresh, Begin, MailKept, Safe
  <2>3. WireKept'
    BY <1>1 DEF BeginFresh, Begin, Goto, Save, Blame, WireKept, Lost, UploadOf, StepsOK, FilesOK,
       Safe
  <2>4. AnswerFits'
    BY <1>1 DEF BeginFresh, Begin, Goto, AnswerFits, Safe
  <2> QED
    BY <2>1, <2>2, <2>3, <2>4 DEF Safe
<1>2. ASSUME NEW p \in Processes, BeginLogin(p) PROVE Safe'
  <2>a. \A i, b : Kept(i, b) => Kept(i, b)'
    BY <1>2 DEF BeginLogin, Begin, Goto, Kept, Lost, UploadOf
  <2>1. BundlesKept'
    BY <1>2, <2>a DEF BeginLogin, Begin, BundlesKept, Safe
  <2>2. MailKept'
    BY <1>2, <2>a DEF BeginLogin, Begin, MailKept, Safe
  <2>3. WireKept'
    BY <1>2 DEF BeginLogin, Begin, Goto, WireKept, Lost, UploadOf, StepsOK, FilesOK, Safe
  <2>4. AnswerFits'
    BY <1>2 DEF BeginLogin, Begin, Goto, AnswerFits, Safe
  <2> QED
    BY <2>1, <2>2, <2>3, <2>4 DEF Safe
<1>3. ASSUME NEW p \in Processes, NEW c \in Commands, BeginConnected(p, c) PROVE Safe'
  <2>a. \A i, b : Kept(i, b) => Kept(i, b)'
    BY <1>3 DEF BeginConnected, Begin, Goto, Kept, Lost, UploadOf
  <2>1. BundlesKept'
    BY <1>3, <2>a DEF BeginConnected, Begin, Goto, BundlesKept, Safe
  <2>2. MailKept'
    BY <1>3, <2>a DEF BeginConnected, Begin, Goto, MailKept, Safe
  <2>3. WireKept'
    BY <1>3 DEF BeginConnected, Begin, Goto, WireKept, Lost, UploadOf, StepsOK, FilesOK, Safe
  <2>4. AnswerFits'
    BY <1>3 DEF BeginConnected, Begin, Goto, AnswerFits, Safe
  <2> QED
    BY <2>1, <2>2, <2>3, <2>4 DEF Safe
<1>4. ASSUME NEW p \in Processes, TakeLock(p) PROVE Safe'
  <2>a. \A i, b : Kept(i, b) => Kept(i, b)'
    BY <1>4 DEF TakeLock, Kept, Lost, UploadOf, StepsOK
  <2>1. BundlesKept'
    BY <1>4, <2>a DEF TakeLock, Goto, BundlesKept, Safe
  <2>2. MailKept'
    BY <1>4, <2>a DEF TakeLock, Goto, MailKept, Safe
  <2>3. WireKept'
    BY <1>4 DEF TakeLock, Goto, WireKept, Lost, UploadOf, StepsOK, Safe
  <2>4. AnswerFits'
    BY <1>4 DEF TakeLock, Goto, AnswerFits, Safe
  <2> QED
    BY <2>1, <2>2, <2>3, <2>4 DEF Safe
<1>5. ASSUME NEW p \in Processes, Pair(p) PROVE Safe'
  <2>a. \A i, b : Kept(i, b) => Kept(i, b)'
    BY <1>5 DEF Pair, Kept, Lost, UploadOf, StepsOK
  <2>1. BundlesKept'
    BY <1>5, <2>a DEF Pair, Goto, BundlesKept, Safe
  <2>2. MailKept'
    BY <1>5, <2>a DEF Pair, Goto, MailKept, Safe
  <2>3. WireKept'
    BY <1>5 DEF Pair, WireKept, Lost, UploadOf, StepsOK, Safe
  <2>4. AnswerFits'
    BY <1>5 DEF Pair, Goto, AnswerFits, Safe
  <2> QED
    BY <2>1, <2>2, <2>3, <2>4 DEF Safe
<1>6. ASSUME NEW p \in Processes, SavePaired(p) PROVE Safe'
  <2>a. \A i, b : Kept(i, b) => Kept(i, b)'
    BY <1>6 DEF SavePaired, Save, Blame, Kept, Lost, UploadOf, StepsOK, FilesOK, DevicesOf
  <2>1. BundlesKept'
    BY <1>6, <2>a DEF SavePaired, Goto, Save, Blame, BundlesKept, Safe
  <2>2. MailKept'
    BY <1>6, <2>a DEF SavePaired, Goto, Save, Blame, MailKept, Safe
  <2>3. WireKept'
    BY <1>6 DEF SavePaired, Save, Blame, WireKept, Lost, UploadOf, StepsOK, Safe
  <2>4. AnswerFits'
    BY <1>6 DEF SavePaired, Goto, AnswerFits, Safe
  <2> QED
    BY <2>1, <2>2, <2>3, <2>4 DEF Safe
<1>7. ASSUME NEW p \in Processes, NoScan(p) PROVE Safe'
  <2>a. \A i, b : Kept(i, b) => Kept(i, b)'
    BY <1>7 DEF NoScan, End, Kept, Lost, UploadOf, StepsOK
  <2>1. BundlesKept'
    BY <1>7, <2>a DEF NoScan, End, BundlesKept, Safe
  <2>2. MailKept'
    BY <1>7, <2>a DEF NoScan, End, MailKept, Safe
  <2>3. WireKept'
    BY <1>7 DEF NoScan, End, WireKept, Lost, UploadOf, StepsOK, Safe
  <2>4. AnswerFits'
    BY <1>7 DEF NoScan, End, Release, Goto, AnswerFits, StepsOK
  <2> QED
    BY <2>1, <2>2, <2>3, <2>4 DEF Safe
<1>8. ASSUME NEW p \in Processes, JoinReady(p) PROVE Safe'
  <2>a. \A i, b : Kept(i, b) => Kept(i, b)'
    BY <1>8 DEF JoinReady, Join, Blame, Kept, Lost, UploadOf, StepsOK
  <2>1. BundlesKept'
    BY <1>8, <2>a DEF JoinReady, Join, BundlesKept, Safe
  <2>2. MailKept'
    BY <1>8, <2>a DEF JoinReady, Join, MailKept, Safe
  <2>3. WireKept'
    BY <1>8 DEF JoinReady, Join, Blame, WireKept, Lost, UploadOf, StepsOK, Safe
  <2>4. AnswerFits'
    BY <1>8 DEF JoinReady, Join, Goto, AnswerFits, StepsOK
  <2> QED
    BY <2>1, <2>2, <2>3, <2>4 DEF Safe
<1>9. ASSUME NEW p \in Processes, JoinAndUpload(p) PROVE Safe'
  <2>a. \A i, b : Kept(i, b) => Kept(i, b)'
    BY <1>9 DEF JoinAndUpload, Join, Blame, NewBatch, Kept, Lost, UploadOf, StepsOK, FilesOK
  <2>b. /\ \A q \in Processes : pc[q] # "uploading" /\ (pc'[q] = "uploading" => q = p)
        /\ pc'[p] = "uploading" /\ batch' = batches + 1 /\ reply' = "none" /\ wire' = wire \cup {<<mem[p].id, batch'>>}
        /\ UNCHANGED <<mem, bundle, mail>>
    BY <1>9 DEF JoinAndUpload, Join, Goto, NewBatch, UploadRequest, StepsOK
  <2>c. Lost \subseteq Lost'
    BY <1>9 DEF JoinAndUpload, Join, Blame, NewBatch, Lost, FilesOK
  <2>1. BundlesKept'
    BY <1>9, <2>a DEF JoinAndUpload, Join, BundlesKept, Safe
  <2>2. MailKept'
    BY <1>9, <2>a DEF JoinAndUpload, Join, MailKept, Safe
  <2>3. WireKept'
    BY <2>b, <2>c DEF WireKept, UploadOf, Safe
  <2>4. AnswerFits'
    <3>1. (\A j \in 1 .. MaxIds : bundle[j] # batch') /\ \A m \in mail : m[2] # batch'
      <4>1. batches \in Nat /\ batch' \in Nat /\ batch' > batches
        BY <2>b DEF FilesOK
      <4>2. \A j \in 1 .. MaxIds : bundle[j] \in Nat /\ bundle[j] <= batches
        BY <4>1 DEF WiresOK
      <4>3. \A m \in mail : m[2] \in Nat /\ m[2] <= batches
        BY <4>1 DEF WiresOK, Pkmsgs
      <4> QED
        BY <4>1, <4>2, <4>3
    <3> QED
      BY <2>b, <3>1 DEF AnswerFits
  <2> QED
    BY <2>1, <2>2, <2>3, <2>4 DEF Safe
<1>10. ASSUME NEW p \in Processes, JoinFails(p) PROVE Safe'
  <2>a. \A i, b : Kept(i, b) => Kept(i, b)'
    BY <1>10 DEF JoinFails, End, Kept, Lost, UploadOf, StepsOK
  <2>1. BundlesKept'
    BY <1>10, <2>a DEF JoinFails, End, BundlesKept, Safe
  <2>2. MailKept'
    BY <1>10, <2>a DEF JoinFails, End, MailKept, Safe
  <2>3. WireKept'
    BY <1>10 DEF JoinFails, End, WireKept, Lost, UploadOf, StepsOK, Safe
  <2>4. AnswerFits'
    BY <1>10 DEF JoinFails, End, Release, Goto, AnswerFits, StepsOK
  <2> QED
    BY <2>1, <2>2, <2>3, <2>4 DEF Safe
<1>11. ASSUME NEW p \in Processes, Uploaded(p) PROVE Safe'
  <2>a. \A i, b : Kept(i, b) => Kept(i, b)'
    BY <1>11 DEF Uploaded, Save, Blame, Extended, Kept, Lost, UploadOf, FilesOK, DevicesOf
  <2>b. /\ \A q \in Processes : pc[q] = "uploading" => q = p
        /\ pc[p] = "uploading" /\ UNCHANGED <<batch, batches, wire, bundle, mail>>
        /\ \A u \in wire : u[2] # batch
    BY <1>11 DEF Uploaded, StepsOK, Safe, AnswerFits
  <2>1. BundlesKept'
    BY <1>11, <2>a DEF Uploaded, Goto, Save, Blame, BundlesKept, Safe
  <2>2. MailKept'
    BY <1>11, <2>a DEF Uploaded, Goto, Save, Blame, MailKept, Safe
  <2>3. WireKept'
    <3>1. causes \subseteq causes'
      BY <1>11 DEF Uploaded, Goto, Save, Blame
    <3> QED
      BY <2>b, <3>1 DEF WireKept, Lost, UploadOf, Safe
  <2>4. AnswerFits'
    BY <1>11 DEF Uploaded, AnswerFits, Safe
  <2> QED
    BY <2>1, <2>2, <2>3, <2>4 DEF Safe
<1>12. ASSUME NEW p \in Processes, Refused(p) PROVE Safe'
  <2>b. /\ \A q \in Processes : pc[q] = "uploading" => q = p
        /\ pc[p] = "uploading" /\ UNCHANGED <<mem, batch, causes, batches, wire, bundle, mail>>
        /\ \A u \in wire : u[2] # batch
    BY <1>12 DEF Refused, Goto, StepsOK, Holding, Safe, AnswerFits
  <2>c. \A b : b \in Lost => b \in Lost'
    BY <2>b DEF Lost
  <2>d. /\ \A i \in 1 .. MaxIds : bundle[i] # batch
        /\ \A m \in mail : m[2] # batch
    BY <1>12 DEF Refused, Safe, AnswerFits
  <2>a. \A i, b : Kept(i, b) /\ b # batch => Kept(i, b)'
    BY <1>12, <2>c DEF Refused, Kept, UploadOf
  <2>1. BundlesKept'
    BY <2>a, <2>b, <2>d DEF BundlesKept, Safe
  <2>2. MailKept'
    BY <2>a, <2>b, <2>d DEF MailKept, Safe
  <2>3. WireKept'
    BY <2>b, <2>c DEF WireKept, UploadOf, Safe
  <2>4. AnswerFits'
    BY <1>12 DEF Refused, AnswerFits, Safe
  <2> QED
    BY <2>1, <2>2, <2>3, <2>4 DEF Safe
<1>13. ASSUME NEW p \in Processes, UploadTimeout(p) PROVE Safe'
  <2>0. /\ \A q \in Processes : pc[q] = "uploading" => q = p
        /\ pc[p] = "uploading" => batch \in 1 .. batches /\ <<batch, "unconfirmed">> \in causes'
        /\ UNCHANGED <<device, batches, wire, bundle, mail>> /\ causes \subseteq causes'
    BY <1>13 DEF UploadTimeout, OutOfTime, Blame, StepsOK, FilesOK, Identified
  <2>b. Lost \subseteq Lost' /\ \A i, b : UploadOf(i, b) => b \in Lost'
    BY <2>0 DEF Lost, UploadOf
  <2>a. \A i, b : Kept(i, b) => Kept(i, b)'
    BY <2>0, <2>b DEF Kept
  <2>1. BundlesKept'
    BY <1>13, <2>a DEF UploadTimeout, OutOfTime, Goto, Blame, BundlesKept, Safe
  <2>2. MailKept'
    BY <1>13, <2>a DEF UploadTimeout, OutOfTime, Goto, Blame, MailKept, Safe
  <2>3. WireKept'
    BY <2>0, <2>b DEF WireKept, Safe
  <2>4. AnswerFits'
    BY <1>13 DEF UploadTimeout, Goto, AnswerFits, Safe
  <2> QED
    BY <2>1, <2>2, <2>3, <2>4 DEF Safe
<1>14. ASSUME NEW p \in Processes, NEW m \in mail, Receive(p, m) PROVE Safe'
  <2>a. \A i, b : Kept(i, b) => Kept(i, b)'
    BY <1>14 DEF Receive, Blame, Kept, Lost, UploadOf
  <2>1. BundlesKept'
    BY <1>14, <2>a DEF Receive, Blame, BundlesKept, Safe
  <2>2. MailKept'
    BY <1>14, <2>a DEF Receive, Blame, MailKept, Safe
  <2>3. WireKept'
    BY <1>14 DEF Receive, Blame, WireKept, Lost, UploadOf, Safe
  <2>4. AnswerFits'
    BY <1>14 DEF Receive, AnswerFits, Safe
  <2> QED
    BY <2>1, <2>2, <2>3, <2>4 DEF Safe
<1>15. ASSUME NEW p \in Processes, Leave(p) PROVE Safe'
  <2>a. \A i, b : Kept(i, b) => Kept(i, b)'
    BY <1>15 DEF Leave, End, Kept, Lost, UploadOf, StepsOK
  <2>1. BundlesKept'
    BY <1>15, <2>a DEF Leave, End, BundlesKept, Safe
  <2>2. MailKept'
    BY <1>15, <2>a DEF Leave, End, MailKept, Safe
  <2>3. WireKept'
    BY <1>15 DEF Leave, End, WireKept, Lost, UploadOf, StepsOK, Safe
  <2>4. AnswerFits'
    BY <1>15 DEF Leave, End, Release, Goto, AnswerFits, StepsOK
  <2> QED
    BY <2>1, <2>2, <2>3, <2>4 DEF Safe
<1>16. ASSUME NEW p \in Processes, SaveFresh(p) PROVE Safe'
  <2>a. \A i, b : Kept(i, b) => Kept(i, b)'
    BY <1>16 DEF SaveFresh, Goto, Save, Blame, Kept, Lost, UploadOf, StepsOK, FilesOK, DevicesOf
  <2>1. BundlesKept'
    BY <1>16, <2>a DEF SaveFresh, Goto, Save, Blame, BundlesKept, Safe
  <2>2. MailKept'
    BY <1>16, <2>a DEF SaveFresh, Goto, Save, Blame, MailKept, Safe
  <2>3. WireKept'
    BY <1>16 DEF SaveFresh, Goto, Save, Blame, WireKept, Lost, UploadOf, StepsOK, Safe
  <2>4. AnswerFits'
    BY <1>16 DEF SaveFresh, Goto, AnswerFits, Safe
  <2> QED
    BY <2>1, <2>2, <2>3, <2>4 DEF Safe
<1>17. ASSUME NEW p \in Processes, Crash(p) PROVE Safe'
  <2>0. /\ \A q \in Processes : pc[q] = "uploading" => q = p
        /\ pc[p] = "uploading" => batch \in 1 .. batches /\ <<batch, "unconfirmed">> \in causes'
        /\ UNCHANGED <<device, batches, wire, bundle, mail>> /\ causes \subseteq causes'
    BY <1>17 DEF Crash, End, Blame, StepsOK, FilesOK, Identified
  <2>b. Lost \subseteq Lost' /\ \A i, b : UploadOf(i, b) => b \in Lost'
    BY <2>0 DEF Lost, UploadOf
  <2>a. \A i, b : Kept(i, b) => Kept(i, b)'
    BY <2>0, <2>b DEF Kept
  <2>1. BundlesKept'
    BY <1>17, <2>a DEF Crash, End, BundlesKept, Safe
  <2>2. MailKept'
    BY <1>17, <2>a DEF Crash, End, MailKept, Safe
  <2>3. WireKept'
    BY <2>0, <2>b DEF WireKept, Safe
  <2>4. AnswerFits'
    BY <1>17 DEF Crash, End, Release, Goto, AnswerFits, StepsOK
  <2> QED
    BY <2>1, <2>2, <2>3, <2>4 DEF Safe
<1>18. ASSUME NEW u \in wire, Accept(u) PROVE Safe'
  <2>a. \A i, b : Kept(i, b) => Kept(i, b)'
    BY <1>18 DEF Accept, Kept, Lost, UploadOf
  <2>1. BundlesKept'
    <3>1. u[1] \in 1 .. MaxIds /\ bundle' = [bundle EXCEPT ![u[1]] = u[2]] /\ bundle \in [1 .. MaxIds -> 0 .. batches]
      BY <1>18 DEF Accept, WiresOK, Pkmsgs
    <3>2. Kept(u[1], u[2])
      BY DEF WireKept, Safe, Kept
    <3> QED
      BY <2>a, <3>1, <3>2 DEF BundlesKept, Safe
  <2>2. MailKept'
    BY <1>18, <2>a DEF Accept, Answer, Waits, MailKept, Safe
  <2>3. WireKept'
    BY <1>18 DEF Accept, WireKept, Lost, UploadOf, Safe
  <2>4. AnswerFits'
    <3>1. ASSUME NEW q \in Processes, pc[q] = "uploading", batch = u[2] PROVE \A w \in wire \ {u} : w[2] # batch
      BY <3>1, OneUpload
    <3>2. u[1] \in 1 .. MaxIds /\ bundle \in [1 .. MaxIds -> 0 .. batches]
      BY DEF WiresOK, Pkmsgs
    <3> QED
      BY <1>18, <3>1, <3>2 DEF Accept, Answer, Waits, AnswerFits, Safe
  <2> QED
    BY <2>1, <2>2, <2>3, <2>4 DEF Safe
<1>19. ASSUME NEW u \in wire, Reject(u) PROVE Safe'
  <2>a. \A i, b : Kept(i, b) => Kept(i, b)'
    BY <1>19 DEF Reject, Kept, Lost, UploadOf
  <2>1. BundlesKept'
    BY <1>19, <2>a DEF Reject, Answer, Waits, BundlesKept, Safe
  <2>2. MailKept'
    BY <1>19, <2>a DEF Reject, Answer, Waits, MailKept, Safe
  <2>3. WireKept'
    BY <1>19 DEF Reject, WireKept, Lost, UploadOf, Safe
  <2>4. AnswerFits'
    <3>1. ASSUME NEW q \in Processes, pc[q] = "uploading", batch = u[2] PROVE \A w \in wire \ {u} : w[2] # batch
      BY <3>1, OneUpload
    <3>2. u[1] \in 1 .. MaxIds /\ bundle \in [1 .. MaxIds -> 0 .. batches]
      BY DEF WiresOK, Pkmsgs
    <3> QED
      BY <1>19, <3>1, <3>2 DEF Reject, Answer, Waits, AnswerFits, Safe
  <2> QED
    BY <2>1, <2>2, <2>3, <2>4 DEF Safe
<1>20. ASSUME NEW i \in DOMAIN bundle, PeerWrites(i) PROVE Safe'
  <2>a. \A j, b : Kept(j, b) => Kept(j, b)'
    BY <1>20 DEF PeerWrites, Kept, Lost, UploadOf
  <2>1. BundlesKept'
    BY <1>20, <2>a DEF PeerWrites, BundlesKept, Safe
  <2>2. MailKept'
    <3>1. i \in 1 .. MaxIds /\ bundle[i] # 0 /\ mail' = mail \cup {<<i, bundle[i]>>}
      BY <1>20 DEF PeerWrites, WiresOK
    <3>2. Kept(i, bundle[i])
      BY <3>1 DEF BundlesKept, Safe
    <3> QED
      BY <2>a, <3>1, <3>2 DEF MailKept, Safe
  <2>3. WireKept'
    BY <1>20 DEF PeerWrites, WireKept, Lost, UploadOf, Safe
  <2>4. AnswerFits'
    BY <1>20 DEF PeerWrites, AnswerFits, WiresOK, Safe
  <2> QED
    BY <2>1, <2>2, <2>3, <2>4 DEF Safe
<1>21. CASE UNCHANGED vars
  BY <1>21 DEF Safe, BundlesKept, MailKept, WireKept, AnswerFits, Kept, Lost, UploadOf
<1> QED
  BY <1>1, <1>2, <1>3, <1>4, <1>5, <1>6, <1>7, <1>8, <1>9, <1>10, <1>11, <1>12, <1>13, <1>14,
     <1>15, <1>16,
    <1>17, <1>18, <1>19, <1>20, <1>21 DEF Next, Start, Work, Server, Exit, ListenEnds, Commands

\* Every step keeps connections informed and losses explained.
LEMMA KnowsStep ==
  FilesOK /\ StepsOK /\ WiresOK /\ OneOwner /\ Safe /\ OnlineKnows /\ LossesHaveACause /\ [Next]_vars
    => (OnlineKnows /\ LossesHaveACause)'
<1> SUFFICES ASSUME FilesOK, StepsOK, WiresOK, OneOwner, Safe, OnlineKnows, LossesHaveACause, [Next]_vars
             PROVE  (OnlineKnows /\ LossesHaveACause)'
  OBVIOUS
<1> USE DeviceAssumption DEF vars, connVars, serverVars, historyVars
<1>1. ASSUME NEW p \in Processes, NEW c \in Commands, BeginFresh(p, c) PROVE (OnlineKnows /\ LossesHaveACause)'
  <2>1. OnlineKnows'
    BY <1>1 DEF BeginFresh, Begin, Goto, Save, Blame, OnlineKnows, Online, Served, Caused
  <2>2. LossesHaveACause'
    BY <1>1 DEF BeginFresh, Begin, Goto, Save, Blame, LossesHaveACause
  <2> QED
    BY <2>1, <2>2
<1>2. ASSUME NEW p \in Processes, BeginLogin(p) PROVE (OnlineKnows /\ LossesHaveACause)'
  <2>1. OnlineKnows'
    BY <1>2 DEF BeginLogin, Begin, Goto, OnlineKnows, Online, Served, Caused
  <2>2. LossesHaveACause'
    BY <1>2 DEF BeginLogin, Begin, Goto, NeedsNew, Commands, Commands, LossesHaveACause
  <2> QED
    BY <2>1, <2>2
<1>3. ASSUME NEW p \in Processes, NEW c \in Commands, BeginConnected(p, c) PROVE (OnlineKnows /\ LossesHaveACause)'
  <2>1. OnlineKnows'
    BY <1>3 DEF BeginConnected, Begin, Goto, OnlineKnows, Online, Served, Caused
  <2>2. LossesHaveACause'
    BY <1>3 DEF BeginConnected, Begin, Goto, LossesHaveACause
  <2> QED
    BY <2>1, <2>2
<1>4. ASSUME NEW p \in Processes, TakeLock(p) PROVE (OnlineKnows /\ LossesHaveACause)'
  <2>1. OnlineKnows'
    BY <1>4 DEF TakeLock, Goto, OnlineKnows, Online, StepsOK
  <2>2. LossesHaveACause'
    BY <1>4 DEF TakeLock, Goto, LossesHaveACause
  <2> QED
    BY <2>1, <2>2
<1>5. ASSUME NEW p \in Processes, Pair(p) PROVE (OnlineKnows /\ LossesHaveACause)'
  <2>1. OnlineKnows'
    BY <1>5 DEF Pair, Goto, OnlineKnows, Online, StepsOK
  <2>2. LossesHaveACause'
    BY <1>5 DEF Pair, Goto, LossesHaveACause
  <2> QED
    BY <2>1, <2>2
<1>6. ASSUME NEW p \in Processes, SavePaired(p) PROVE (OnlineKnows /\ LossesHaveACause)'
  <2>1. OnlineKnows'
    BY <1>6 DEF SavePaired, Goto, OnlineKnows, Online, StepsOK
  <2>2. LossesHaveACause'
    BY <1>6 DEF SavePaired, Goto, Save, Blame, LossesHaveACause
  <2> QED
    BY <2>1, <2>2
<1>7. ASSUME NEW p \in Processes, NoScan(p) PROVE (OnlineKnows /\ LossesHaveACause)'
  <2>1. OnlineKnows'
    BY <1>7 DEF NoScan, End, Release, Goto, OnlineKnows, Online, StepsOK
  <2>2. LossesHaveACause'
    BY <1>7 DEF NoScan, End, Release, Hangup, Goto, LossesHaveACause
  <2> QED
    BY <2>1, <2>2
<1>8. ASSUME NEW p \in Processes, JoinReady(p) PROVE (OnlineKnows /\ LossesHaveACause)'
  <2>1. OnlineKnows'
    <3>1. /\ pc[p] = "joining" /\ known' = mem[p].keys /\ causes \subseteq causes'
          /\ UNCHANGED <<device, mem, mail, bundle>>
          /\ device.id = mem[p].id => \A b \in device.keys \ mem[p].keys : <<b, "stale">> \in causes'
          /\ \A q \in Processes : Online(q)' => q = p
      BY <1>8 DEF JoinReady, Join, Goto, Blame, Restored, Online, StepsOK
    <3>2. ASSUME NEW b, Served(mem[p].id, b) PROVE b \in mem[p].keys \cup Caused'
      <4>1. Kept(mem[p].id, b)
        <5>1. CASE <<mem[p].id, b>> \in mail
          <6>1. <<mem[p].id, b>>[1] = mem[p].id /\ <<mem[p].id, b>>[2] = b
            OBVIOUS
          <6> QED
            BY <5>1, <6>1 DEF MailKept, Safe
        <5>2. CASE mem[p].id \in 1 .. MaxIds /\ b # 0 /\ bundle[mem[p].id] = b
          BY <5>2 DEF BundlesKept, Safe
        <5> QED
          BY <3>2, <5>1, <5>2 DEF Served
      <4>2. ~UploadOf(mem[p].id, b)
        BY <3>1 DEF UploadOf, StepsOK, Holding
      <4>3. CASE b \in Lost
        <5>1. PICK why : <<b, why>> \in causes
          BY <4>3 DEF Lost
        <5>2. <<b, why>> \in causes' /\ <<b, why>>[1] = b
          BY <3>1, <5>1
        <5> QED
          BY <5>2 DEF Caused
      <4>4. CASE b \in device.keys
        <5>1. Owns(device.id, b) /\ Owns(mem[p].id, b)
          BY <3>2, <4>4 DEF Owns, Served
        <5>2. device.id = mem[p].id
          BY <5>1 DEF OneOwner
        <5>3. b \in mem[p].keys \/ (<<b, "stale">> \in causes' /\ <<b, "stale">>[1] = b)
          BY <3>1, <4>4, <5>2
        <5> QED
          BY <5>3 DEF Caused
      <4> QED
        BY <4>1, <4>2, <4>3, <4>4 DEF Kept
    <3> QED
      BY <3>1, <3>2 DEF OnlineKnows, Served
  <2>2. LossesHaveACause'
    BY <1>8 DEF JoinReady, Join, Goto, Blame, Restored, NeedsUpload, LossesHaveACause
  <2> QED
    BY <2>1, <2>2
<1>9. ASSUME NEW p \in Processes, JoinAndUpload(p) PROVE (OnlineKnows /\ LossesHaveACause)'
  <2>1. OnlineKnows'
    <3>1. /\ pc[p] = "joining" /\ known' = mem[p].keys /\ causes \subseteq causes'
          /\ UNCHANGED <<device, mem, mail, bundle>>
          /\ device.id = mem[p].id => \A b \in device.keys \ mem[p].keys : <<b, "stale">> \in causes'
          /\ \A q \in Processes : Online(q)' => q = p
      BY <1>9 DEF JoinAndUpload, Join, Goto, Blame, Restored, Online, StepsOK
    <3>2. ASSUME NEW b, Served(mem[p].id, b) PROVE b \in mem[p].keys \cup Caused'
      <4>1. Kept(mem[p].id, b)
        <5>1. CASE <<mem[p].id, b>> \in mail
          <6>1. <<mem[p].id, b>>[1] = mem[p].id /\ <<mem[p].id, b>>[2] = b
            OBVIOUS
          <6> QED
            BY <5>1, <6>1 DEF MailKept, Safe
        <5>2. CASE mem[p].id \in 1 .. MaxIds /\ b # 0 /\ bundle[mem[p].id] = b
          BY <5>2 DEF BundlesKept, Safe
        <5> QED
          BY <3>2, <5>1, <5>2 DEF Served
      <4>2. ~UploadOf(mem[p].id, b)
        BY <3>1 DEF UploadOf, StepsOK, Holding
      <4>3. CASE b \in Lost
        <5>1. PICK why : <<b, why>> \in causes
          BY <4>3 DEF Lost
        <5>2. <<b, why>> \in causes' /\ <<b, why>>[1] = b
          BY <3>1, <5>1
        <5> QED
          BY <5>2 DEF Caused
      <4>4. CASE b \in device.keys
        <5>1. Owns(device.id, b) /\ Owns(mem[p].id, b)
          BY <3>2, <4>4 DEF Owns, Served
        <5>2. device.id = mem[p].id
          BY <5>1 DEF OneOwner
        <5>3. b \in mem[p].keys \/ (<<b, "stale">> \in causes' /\ <<b, "stale">>[1] = b)
          BY <3>1, <4>4, <5>2
        <5> QED
          BY <5>3 DEF Caused
      <4> QED
        BY <4>1, <4>2, <4>3, <4>4 DEF Kept
    <3> QED
      BY <3>1, <3>2 DEF OnlineKnows, Served
  <2>2. LossesHaveACause'
    BY <1>9 DEF JoinAndUpload, Join, Blame, LossesHaveACause
  <2> QED
    BY <2>1, <2>2
<1>10. ASSUME NEW p \in Processes, JoinFails(p) PROVE (OnlineKnows /\ LossesHaveACause)'
  <2>1. OnlineKnows'
    BY <1>10 DEF JoinFails, End, Release, Goto, OnlineKnows, Online, StepsOK
  <2>2. LossesHaveACause'
    BY <1>10 DEF JoinFails, End, Release, Hangup, Goto, Fault, LossesHaveACause
  <2> QED
    BY <2>1, <2>2
<1>11. ASSUME NEW p \in Processes, Uploaded(p) PROVE (OnlineKnows /\ LossesHaveACause)'
  <2>1. OnlineKnows'
    BY <1>11 DEF Uploaded, Goto, Save, Blame, Extended, OnlineKnows, Online, Served, Caused
  <2>2. LossesHaveACause'
    BY <1>11 DEF Uploaded, Goto, Save, Blame, LossesHaveACause
  <2> QED
    BY <2>1, <2>2
<1>12. ASSUME NEW p \in Processes, Refused(p) PROVE (OnlineKnows /\ LossesHaveACause)'
  <2>1. OnlineKnows'
    BY <1>12 DEF Refused, Goto, OnlineKnows, Online, Served, Caused
  <2>2. LossesHaveACause'
    BY <1>12 DEF Refused, Goto, LossesHaveACause
  <2> QED
    BY <2>1, <2>2
<1>13. ASSUME NEW p \in Processes, UploadTimeout(p) PROVE (OnlineKnows /\ LossesHaveACause)'
  <2>1. OnlineKnows'
    BY <1>13 DEF UploadTimeout, OutOfTime, Goto, Blame, OnlineKnows, Online, Served, Caused
  <2>2. LossesHaveACause'
    BY <1>13 DEF UploadTimeout, OutOfTime, Goto, Blame, LossesHaveACause
  <2> QED
    BY <2>1, <2>2
<1>14. ASSUME NEW p \in Processes, NEW m \in mail, Receive(p, m) PROVE (OnlineKnows /\ LossesHaveACause)'
  <2>1. OnlineKnows'
    BY <1>14 DEF Receive, Blame, OnlineKnows, Online, Served, Caused
  <2>2. LossesHaveACause'
    <3>1. m = <<m[1], m[2]>>
      BY DEF WiresOK, Pkmsgs
    <3>2. m[2] \in known \cup {batch} \cup Caused
      BY <1>14, <3>1 DEF Receive, OnlineKnows, Served
    <3>3. CASE m[2] \in known
      BY <1>14, <3>3 DEF Receive, LossesHaveACause
    <3>4. CASE m[2] \notin known
      <4>1. dropped' = dropped \cup {m} /\ causes' = causes \cup {<<b, "young">> : b \in {batch} \cap {m[2]}}
        BY <1>14, <3>4 DEF Receive, Blame
      <4>2. \E c \in causes' : c[1] = m[2]
        <5>1. CASE m[2] \in Caused
          BY <4>1, <5>1 DEF Caused
        <5>2. CASE m[2] = batch
          <6>1. <<batch, "young">> \in causes' /\ <<batch, "young">>[1] = batch
            BY <4>1, <5>2
          <6> QED
            BY <5>2, <6>1
        <5> QED
          BY <3>2, <3>4, <5>1, <5>2
      <4> QED
        BY <4>1, <4>2 DEF LossesHaveACause
    <3> QED
      BY <3>3, <3>4
  <2> QED
    BY <2>1, <2>2
<1>15. ASSUME NEW p \in Processes, Leave(p) PROVE (OnlineKnows /\ LossesHaveACause)'
  <2>1. OnlineKnows'
    BY <1>15 DEF Leave, End, Release, Goto, OnlineKnows, Online, StepsOK
  <2>2. LossesHaveACause'
    BY <1>15 DEF Leave, End, Release, Hangup, Goto, LossesHaveACause
  <2> QED
    BY <2>1, <2>2
<1>16. ASSUME NEW p \in Processes, SaveFresh(p) PROVE (OnlineKnows /\ LossesHaveACause)'
  <2>1. OnlineKnows'
    BY <1>16 DEF SaveFresh, Goto, Save, Blame, OnlineKnows, Online, Served, Caused
  <2>2. LossesHaveACause'
    BY <1>16 DEF SaveFresh, Goto, Save, Blame, LossesHaveACause
  <2> QED
    BY <2>1, <2>2
<1>17. ASSUME NEW p \in Processes, Crash(p) PROVE (OnlineKnows /\ LossesHaveACause)'
  <2>1. OnlineKnows'
    BY <1>17 DEF Crash, End, Release, Goto, OnlineKnows, Online, StepsOK
  <2>2. LossesHaveACause'
    BY <1>17 DEF Crash, End, Blame, LossesHaveACause
  <2> QED
    BY <2>1, <2>2
<1>18. ASSUME NEW u \in wire, Accept(u) PROVE (OnlineKnows /\ LossesHaveACause)'
  <2>1. OnlineKnows'
    <3>1. /\ u[2] \in Caused \/ u[2] = batch
          /\ \A j, b : Served(j, b)' => Served(j, b) \/ b = u[2]
      <4>1. u[2] \in Lost => u[2] \in Caused
        BY DEF Lost, Caused
      <4>2. \A j, b : Served(j, b)' => Served(j, b) \/ b = u[2]
        BY <1>18 DEF Accept, Served, WiresOK
      <4> QED
        BY <4>1, <4>2 DEF WireKept, UploadOf, Safe
    <3> QED
      BY <1>18, <3>1 DEF Accept, OnlineKnows, Online, Caused
  <2>2. LossesHaveACause'
    BY <1>18 DEF Accept, Answer, Waits, LossesHaveACause
  <2> QED
    BY <2>1, <2>2
<1>19. ASSUME NEW u \in wire, Reject(u) PROVE (OnlineKnows /\ LossesHaveACause)'
  <2>1. OnlineKnows'
    BY <1>19 DEF Reject, OnlineKnows, Online, Served, Caused
  <2>2. LossesHaveACause'
    BY <1>19 DEF Reject, Answer, Waits, LossesHaveACause
  <2> QED
    BY <2>1, <2>2
<1>20. ASSUME NEW i \in DOMAIN bundle, PeerWrites(i) PROVE (OnlineKnows /\ LossesHaveACause)'
  <2>1. OnlineKnows'
    <3>1. \A j, b : Served(j, b)' => Served(j, b)
      BY <1>20 DEF PeerWrites, Served, WiresOK
    <3> QED
      BY <1>20, <3>1 DEF PeerWrites, OnlineKnows, Online, Caused
  <2>2. LossesHaveACause'
    BY <1>20 DEF PeerWrites, LossesHaveACause
  <2> QED
    BY <2>1, <2>2
<1>21. CASE UNCHANGED vars
  BY <1>21 DEF OnlineKnows, LossesHaveACause, Online, Served, Caused
<1> QED
  BY <1>1, <1>2, <1>3, <1>4, <1>5, <1>6, <1>7, <1>8, <1>9, <1>10, <1>11, <1>12, <1>13, <1>14,
     <1>15, <1>16,
    <1>17, <1>18, <1>19, <1>20, <1>21 DEF Next, Start, Work, Server, Exit, ListenEnds, Commands

\* A save keeps the pairing of device.json, or is by one that may give it up.
LEMMA SaveStands ==
  ASSUME FilesOK, Identified, Standing, NEW p \in Processes, NEW dev \in DevicesOf(batches), NEW why,
         Save(p, dev, why), Undone(dev) => MayDiscard(p)
  PROVE  /\ device' = dev /\ orphans \subseteq orphans' /\ orphans' \subseteq 1 .. MaxIds
         /\ \A i \in linked : device.id = i /\ device.paired = "yes" =>
              (device'.id = i /\ device'.paired = "yes") \/ i \in orphans'
<1>1. device' = dev /\ orphans' = IF Undone(dev) THEN orphans \cup {device.id} ELSE orphans
  BY DEF Save
<1>2. CASE ~Undone(dev)
  <2>1. device.paired = "yes" => dev.id = device.id /\ dev.paired = "yes"
    BY <1>2 DEF Undone, DevicesOf
  <2> QED
    BY <1>1, <1>2, <2>1 DEF Standing
<1>3. CASE Undone(dev)
  <2>1. device.id \in 1 .. MaxIds
    BY <1>3, DeviceAssumption DEF Undone, Identified, FilesOK, DevicesOf
  <2> QED
    BY <1>1, <1>3, <2>1 DEF Standing
<1> QED
  BY <1>2, <1>3

\* A command's end gives up nothing that is linked but what it had not saved.
LEMMA EndStands ==
  ASSUME FilesOK, StepsOK, Standing, NEW p \in Processes, End(p), lock = p, orphans \subseteq orphans',
         orphans' \subseteq 1 .. MaxIds, pc[p] = "unsaved" => mem[p].id \in orphans'
  PROVE  Standing'
<1>1. /\ UNCHANGED <<device, linked>> /\ pc' = [pc EXCEPT ![p] = "idle"] /\ mem' = [mem EXCEPT ![p] = New(0)]
      /\ read' = [read EXCEPT ![p] = 0] /\ cmd' = [cmd EXCEPT ![p] = "none"]
  BY DEF End, Release, Goto, serverVars
<1>2. read' \in [Processes -> 0 .. MaxIds]
  BY <1>1, DeviceAssumption DEF Standing
<1>3. ReadsFit'
  BY <1>1 DEF Standing, ReadsFit, FilesOK, StepsOK
<1>4. \A i \in linked : \/ device.id = i /\ device.paired = "yes"
                        \/ pc[p] = "unsaved" /\ mem[p].id = i
                        \/ i \in orphans
  BY DEF Standing, PairingStands, StepsOK, Holding
<1>5. PairingStands'
  BY <1>1, <1>4 DEF PairingStands
<1> QED
  BY <1>2, <1>3, <1>5 DEF Standing

\* A step that moves on, with device.json, the links and what was read alone.
Aside(p) ==
  /\ UNCHANGED <<device, linked, orphans, read, cmd>>
  /\ \A q \in Processes \ {p} : pc'[q] = pc[q] /\ mem'[q].id = mem[q].id
  /\ pc[p] \notin {"idle", "unsaved"} /\ pc'[p] # "making" /\ mem'[p].id = mem[p].id
LEMMA AsideStands ==
  ASSUME Standing, NEW p \in Processes, Aside(p) PROVE Standing'
<1>1. ReadsFit'
  BY DEF Standing, ReadsFit, Aside
<1>2. PairingStands'
  BY DEF Standing, PairingStands, Aside
<1> QED
  BY <1>1, <1>2 DEF Standing, Aside

\* Every step keeps the linked identities accounted for.
LEMMA StandingStep == FilesOK /\ StepsOK /\ WiresOK /\ Identified /\ Standing /\ [Next]_vars => Standing'
<1> SUFFICES ASSUME FilesOK, StepsOK, WiresOK, Identified, Standing, [Next]_vars PROVE Standing'
  OBVIOUS
<1> USE DeviceAssumption DEF vars, connVars, serverVars, historyVars
<1>1. ASSUME NEW p \in Processes, NEW d \in Commands, NEW dev, NEW to \in {"making", "blocked"},
             Begin(p, d, dev), Goto(p, to), d = "reset" \/ device.id \in {0, dev.id},
             to = "making" => d = "reset" \/ device.id = 0
      PROVE  Standing'
  <2>2. /\ pc[p] = "idle" /\ cmd' = [cmd EXCEPT ![p] = d] /\ mem' = [mem EXCEPT ![p] = dev]
        /\ read' = [read EXCEPT ![p] = device.id] /\ UNCHANGED <<device, linked, orphans>>
        /\ pc' = [pc EXCEPT ![p] = to]
    BY <1>1 DEF Begin, Goto
  <2>4. read' \in [Processes -> 0 .. MaxIds]
    BY <2>2 DEF Standing, FilesOK, DevicesOf
  <2>5. ReadsFit'
    BY <1>1, <2>2 DEF Standing, ReadsFit, FilesOK, StepsOK
  <2>6. PairingStands'
    BY <2>2 DEF Standing, PairingStands, FilesOK, StepsOK
  <2> QED
    BY <2>2, <2>4, <2>5, <2>6 DEF Standing
<1>2. ASSUME NEW p \in Processes, SaveFresh(p) PROVE Standing'
  <2>1. /\ pc[p] = "making" /\ Save(p, mem[p], "discarded") /\ UNCHANGED <<cmd, mem, read, linked>>
        /\ pc' = [pc EXCEPT ![p] = "blocked"]
    BY <1>2 DEF SaveFresh, Goto
  <2>2. Undone(mem[p]) => MayDiscard(p)
    BY <2>1 DEF Undone, MayDiscard, Standing, ReadsFit, Identified
  <2>3. /\ orphans \subseteq orphans' /\ orphans' \subseteq 1 .. MaxIds
        /\ \A i \in linked : device.id = i /\ device.paired = "yes" =>
             (device'.id = i /\ device'.paired = "yes") \/ i \in orphans'
    BY <2>1, <2>2, SaveStands, KeysMade
  <2>4. ReadsFit'
    BY <2>1 DEF Standing, ReadsFit, StepsOK
  <2>5. PairingStands'
    BY <2>1, <2>3 DEF Standing, PairingStands, StepsOK
  <2> QED
    BY <2>1, <2>3, <2>4, <2>5 DEF Standing
<1>3. ASSUME NEW p \in Processes, Pair(p) PROVE Standing'
  <2>1. /\ pc[p] = "pairing" /\ mem' = [mem EXCEPT ![p] = Paired(mem[p])] /\ linked' = linked \cup {mem[p].id}
        /\ pc' = [pc EXCEPT ![p] = "unsaved"] /\ UNCHANGED <<device, cmd, read, orphans>>
    BY <1>3 DEF Pair, Goto
  <2>2. Paired(mem[p]).id = mem[p].id
    BY KeysMade DEF Paired, DevicesOf
  <2>3. ReadsFit'
    BY <2>1, <2>2 DEF Standing, ReadsFit, FilesOK, StepsOK
  <2>4. PairingStands'
    BY <2>1, <2>2 DEF Standing, PairingStands, FilesOK, StepsOK
  <2> QED
    BY <2>1, <2>3, <2>4 DEF Standing
<1>4. ASSUME NEW p \in Processes, NEW dev \in DevicesOf(batches), Save(p, dev, "overwritten"),
             dev.id = mem[p].id, dev.paired = "yes", mem' = [mem EXCEPT ![p] = dev],
             pc[p] \in {"unsaved", "uploading"}, \E to \in {"joining", "draining"} : Goto(p, to),
             UNCHANGED <<cmd, read, linked>>
      PROVE  Standing'
  <2>1. Undone(dev) => MayDiscard(p)
    BY <1>4 DEF Undone, MayDiscard, Standing, ReadsFit, Identified
  <2>2. /\ device' = dev /\ orphans \subseteq orphans' /\ orphans' \subseteq 1 .. MaxIds
        /\ \A i \in linked : device.id = i /\ device.paired = "yes" =>
             (device'.id = i /\ device'.paired = "yes") \/ i \in orphans'
    BY <1>4, <2>1, SaveStands
  <2>3. ReadsFit'
    BY <1>4 DEF Goto, Standing, ReadsFit, FilesOK, StepsOK
  <2>4. PairingStands'
    BY <1>4, <2>2 DEF Goto, Standing, PairingStands, FilesOK, StepsOK
  <2> QED
    BY <1>4, <2>2, <2>3, <2>4 DEF Standing
<1>5. ASSUME NEW p \in Processes, SavePaired(p) PROVE Standing'
  <2>1. /\ pc[p] = "unsaved" /\ Save(p, mem[p], "overwritten") /\ Goto(p, "joining")
        /\ UNCHANGED <<cmd, mem, read, linked>> /\ mem[p].paired = "yes"
    BY <1>5 DEF SavePaired, Identified, Holding
  <2>2. mem' = [mem EXCEPT ![p] = mem[p]] /\ mem[p] \in DevicesOf(batches)
    BY <2>1 DEF FilesOK
  <2> QED
    BY <1>4, <2>1, <2>2
<1>6. ASSUME NEW p \in Processes, Uploaded(p) PROVE Standing'
  <2> DEFINE dev == Extended(mem[p], batch)
  <2>1. /\ pc[p] = "uploading" /\ Save(p, dev, "overwritten") /\ Goto(p, "draining")
        /\ UNCHANGED <<cmd, read, linked>> /\ mem' = [mem EXCEPT ![p] = dev] /\ mem[p].paired = "yes"
    BY <1>6 DEF Uploaded, Identified, Holding
  <2>2. batch \in 1 .. batches
    BY <2>1 DEF Identified, FilesOK
  <2>3. dev \in DevicesOf(batches) /\ dev.id = mem[p].id /\ dev.paired = "yes"
    <3>1. mem[p] \in DevicesOf(batches) /\ batches \in Nat
      BY DEF FilesOK
    <3>2. dev \in DevicesOf(batches)
      BY <2>2, <3>1, DeviceFacts
    <3> QED
      BY <2>1, <3>1, <3>2 DEF Extended, DevicesOf
  <2> HIDE DEF dev
  <2> QED
    BY <1>4, <2>1, <2>3
<1>7. ASSUME NEW p \in Processes, NoScan(p) \/ JoinFails(p) \/ Leave(p) PROVE Standing'
  <2>1. End(p) /\ pc[p] \in Holding \ {"unsaved"} /\ orphans' = orphans
    BY <1>7 DEF NoScan, JoinFails, Leave, Holding
  <2>2. lock = p
    BY <2>1 DEF StepsOK
  <2> QED
    BY <2>1, <2>2, EndStands DEF Standing
<1>8. ASSUME NEW p \in Processes, Crash(p) PROVE Standing'
  <2>1. End(p) /\ lock = p /\ orphans' = IF pc[p] = "unsaved" THEN orphans \cup {mem[p].id} ELSE orphans
    BY <1>8 DEF Crash
  <2>2. pc[p] # "idle" => mem[p].id \in 1 .. MaxIds
    BY DEF Identified, FilesOK, DevicesOf
  <2>3. orphans' \subseteq 1 .. MaxIds
    BY <2>1, <2>2 DEF Standing
  <2> QED
    BY <2>1, <2>3, EndStands
<1>9. ASSUME NEW p \in Processes, TakeLock(p) PROVE Standing'
  <2>1. Aside(p)
    BY <1>9 DEF TakeLock, Goto, Aside, StepsOK
  <2> QED
    BY <2>1, AsideStands
<1>10. ASSUME NEW p \in Processes, Join(p), pc' = [pc EXCEPT ![p] = "draining"] \/ pc' = [pc EXCEPT ![p] = "uploading"]
       PROVE  Standing'
  <2>1. Aside(p)
    BY <1>10 DEF Join, Aside, StepsOK
  <2> QED
    BY <2>1, AsideStands
<1>11. ASSUME NEW p \in Processes, Refused(p) \/ UploadTimeout(p) PROVE Standing'
  <2>1. Aside(p)
    BY <1>11 DEF Refused, UploadTimeout, OutOfTime, Goto, Aside, StepsOK
  <2> QED
    BY <2>1, AsideStands
<1>12. CASE UNCHANGED <<device, linked, orphans, read, cmd, pc, mem>>
  BY <1>12 DEF Standing, ReadsFit, PairingStands
<1>13. ASSUME NEW p \in Processes, JoinReady(p) \/ JoinAndUpload(p) PROVE Standing'
  BY <1>10, <1>13 DEF JoinReady, JoinAndUpload, Goto
<1>14. ASSUME NEW p \in Processes, NEW m \in mail, Receive(p, m) PROVE Standing'
  BY <1>12, <1>14 DEF Receive
<1>15. CASE Server
  BY <1>12, <1>15 DEF Server, Accept, Reject, PeerWrites
<1>16. CASE UNCHANGED vars
  BY <1>12, <1>16
<1>17. ASSUME NEW p \in Processes, NEW c \in Commands, BeginFresh(p, c) PROVE Standing'
  <2>1. Begin(p, c, New(ids + 1)) /\ Goto(p, "making") /\ (c = "reset" \/ device.id = 0)
    BY <1>17 DEF BeginFresh, NeedsNew
  <2> QED
    BY <1>1, <2>1
<1>18. ASSUME NEW p \in Processes, BeginLogin(p) PROVE Standing'
  <2>1. Begin(p, "login", device) /\ Goto(p, "blocked") /\ "login" \in Commands
    BY <1>18 DEF BeginLogin, Commands
  <2> QED
    BY <1>1, <2>1
<1>19. ASSUME NEW p \in Processes, NEW c \in Commands, BeginConnected(p, c) PROVE Standing'
  <2>1. Begin(p, c, device) /\ Goto(p, "blocked")
    BY <1>19 DEF BeginConnected
  <2> QED
    BY <1>1, <2>1
<1> QED
  BY <1>2, <1>3, <1>5, <1>6, <1>7, <1>8, <1>9, <1>11, <1>13, <1>14, <1>15, <1>16, <1>17, <1>18, <1>19
     DEF Next, Start, Work, Exit, ListenEnds, Commands

\* The invariant holds before any command.
LEMMA InitInv == Init => IInv
<1> SUFFICES ASSUME Init PROVE IInv
  OBVIOUS
<1> USE DeviceAssumption DEF Init
<1>1. New(0) \in DevicesOf(0) /\ New(0).keys = {} /\ New(0).id = 0 /\ New(0).paired = "no"
  BY DEF New, DevicesOf
<1>2. FilesOK /\ StepsOK /\ WiresOK /\ ReadsOK
  BY <1>1 DEF FilesOK, StepsOK, WiresOK, ReadsOK, Holding
<1>3. TypeOK
  BY <1>2, TypeParts
<1>4. Counted
  <2>1. Ahead = {}
    BY DEF Ahead, Preparing
  <2> QED
    BY <2>1, FS_EmptySet DEF Counted
<1>5. Identified /\ OneOwner /\ Safe
  BY <1>1 DEF Identified, Holding, OneOwner, Owns, UploadOf, Safe, BundlesKept, MailKept,
     WireKept, AnswerFits
<1>6. OnlineKnows /\ LossesHaveACause
  BY DEF OnlineKnows, Online, LossesHaveACause
<1>7. Standing
  BY DEF Standing, ReadsFit, PairingStands
<1> QED
  BY <1>3, <1>4, <1>5, <1>6, <1>7 DEF IInv

\* What is left of a sum that is bounded.
LEMMA AtMost == ASSUME NEW a \in Nat, NEW b \in Nat, NEW c \in Nat, a + b <= c PROVE a \in 0 .. c
  OBVIOUS

\* Every step of the commands, the server and the peers keeps the invariant.
LEMMA StepInv == IInv /\ [Next]_vars => IInv'
<1> SUFFICES ASSUME IInv, [Next]_vars PROVE IInv'
  OBVIOUS
<1>1. FilesOK /\ StepsOK /\ WiresOK
  BY TypeParts, DeviceAssumption DEF IInv
<1>2. FilesOK' /\ StepsOK' /\ WiresOK' /\ Counted' /\ Identified'
  BY <1>1, FilesStep, StepsStep, WiresStep, CountedStep, IdentifiedStep DEF IInv
<1>3. batches' \in 0 .. starts'
  <2>1. Cardinality(Ahead') \in Nat /\ batches' + Cardinality(Ahead') <= starts'
    BY <1>2, FS_CardinalityType DEF Counted
  <2>2. batches' \in Nat /\ starts' \in Nat
    BY <1>2, DeviceAssumption DEF FilesOK, StepsOK
  <2> QED
    BY <2>1, <2>2, AtMost
<1>4. TypeOK'
  <2>1. TypeOK <=> FilesOK /\ StepsOK /\ WiresOK /\ batches \in 0 .. starts /\ ReadsOK
    BY TypeParts, DeviceAssumption
  <2>2. (TypeOK <=> FilesOK /\ StepsOK /\ WiresOK /\ batches \in 0 .. starts /\ ReadsOK)'
    BY TypeParts, DeviceAssumption, PTL
  <2>3. ReadsOK'
    BY <1>1, StandingStep DEF IInv, Standing, ReadsOK
  <2> QED
    BY <1>2, <1>3, <2>2, <2>3
<1>5. OneOwner' /\ Safe' /\ OnlineKnows' /\ LossesHaveACause' /\ Standing'
  BY <1>1, OneOwnerStep, SafeStep, KnowsStep, StandingStep DEF IInv
<1> QED
  BY <1>2, <1>4, <1>5 DEF IInv

\* The inductive invariant holds in every reachable state.
THEOREM Invariance == Spec => []IInv
  BY InitInv, StepInv, PTL DEF Spec

\* The file, the processes' copies and the server have their types, and only
\* the holder of connection_lock is past its wait.
THEOREM TypeCorrect == Spec => []TypeOK
<1>1. IInv => TypeOK
  BY DEF IInv
<1> QED
  BY <1>1, Invariance, PTL

\* The private halves of the batch that the server gives to peers are in
\* device.json or about to be, unless their loss has one of three causes.
THEOREM PrivateHalvesKept == Spec => []KeysKept
<1>1. IInv => KeysKept
  <2> SUFFICES ASSUME IInv, NEW i \in {device.id} \ {0}
               PROVE  bundle[i] \in {0} \cup device.keys \cup Lost
                        \cup {batch : p \in {q \in Processes : pc[q] = "uploading" /\ mem[q].id = i}}
    BY DEF KeysKept
  <2>1. i \in 1 .. MaxIds
    BY DeviceAssumption DEF IInv, TypeOK, Devices
  <2>2. bundle[i] # 0 => Kept(i, bundle[i])
    BY <2>1 DEF IInv, Safe, BundlesKept
  <2> QED
    BY <2>2 DEF Kept, UploadOf
<1> QED
  BY <1>1, Invariance, PTL

\* A first message is acknowledged undecrypted for one of the known causes only.
THEOREM LossesExplained == Spec => []LossesHaveACause
<1>1. IInv => LossesHaveACause
  BY DEF IInv
<1> QED
  BY <1>1, Invariance, PTL

\* A linked identity is paired in device.json or in the process about to save
\* it, but for a death in between, --reset and commands that had read the file
\* before it was there.
THEOREM PairingIsKept == Spec => []PairingStands
<1>1. IInv => PairingStands
  BY DEF IInv, Standing
<1> QED
  BY <1>1, Invariance, PTL
=============================================================================
