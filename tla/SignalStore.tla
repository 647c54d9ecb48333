---------------------------- MODULE SignalStore ----------------------------
(***************************************************************************)
(* Several signal-cli commands over one account store.  Each command is a  *)
(* Python wrapper that takes the store's lock and waits for a native       *)
(* process; the process reads the whole account when it starts, works on   *)
(* its own copy and writes the whole account back.  Message keys come from *)
(* the account: a send encrypts with the next key of a recipient's         *)
(* ratchet, writes the account, and only then touches the network.         *)
(*                                                                         *)
(* A row of the receive queue is condensed to one committed transaction    *)
(* (module SignalReceive has its inside), a recipient's devices to one     *)
(* ratchet per recipient, which every send advances.                       *)
(***************************************************************************)
EXTENDS Naturals, FiniteSets

CONSTANTS
  Terminals,    \* shells, each running one command at a time
  NoTerminal,   \* nobody holds the lock
  Members,      \* recipients of a send: the peer, or the group's other members
  Own,          \* the account itself, whose other devices get a sync copy
  MaxCommands,  \* bound: commands run; a send's message is its command's number
  MaxRows,      \* bound: rows that reach the receive queue
  MaxFaults,    \* bound: native processes that die, requests that fail
  MaxKills      \* bound: wrappers killed while their process runs on

ASSUME StoreAssumption ==
  /\ NoTerminal \notin Terminals /\ Own \notin Members /\ Members # {}
  /\ MaxCommands \in Nat /\ MaxRows \in Nat /\ MaxFaults \in Nat /\ MaxKills \in Nat

Recipients == Members \cup {Own}
Operations == {"receive", "send"}

VARIABLES
  lock,        \* flock(native.lock): the terminal whose wrapper holds it
  wrapper,     \* terminals whose wrapper is alive
  pc,          \* the native process of each terminal
  job,         \* its command number and operation
  mem,         \* its copy of the account
  todo,        \* recipients the send has not reached
  to,          \* the recipient in hand
  disk,        \* native_state: next key of each ratchet, rows consumed
  queued,      \* rows in native_queue
  transcript,  \* messages: sends with a local copy
  wire,        \* history: ciphertexts that may have left the machine
  delivered,   \* history: [msg, to] accepted by the service
  unsent,      \* history: [msg, to] counted as delivered with no device to send to
  consumed,    \* history: rows some transaction has consumed
  commands, rows, faults, kills

lockVars  == <<lock, wrapper>>
childVars == <<pc, job, mem, todo, to>>
dbVars    == <<disk, queued, transcript>>
netVars   == <<wire, delivered, unsent>>
bounds    == <<commands, rows, faults, kills>>
vars == <<lockVars, childVars, dbVars, netVars, consumed, bounds>>

Account == [key : [Recipients -> Nat], got : Nat]
Fresh   == [key |-> [r \in Recipients |-> 0], got |-> 0]

Init ==
  /\ lock = NoTerminal /\ wrapper = {}
  /\ pc = [t \in Terminals |-> "none"] /\ job = [t \in Terminals |-> [msg |-> 0, op |-> "receive"]]
  /\ mem = [t \in Terminals |-> Fresh] /\ todo = [t \in Terminals |-> {}]
  /\ to = [t \in Terminals |-> Own]
  /\ disk = Fresh /\ queued = 0 /\ transcript = {}
  /\ wire = {} /\ delivered = {} /\ unsent = {} /\ consumed = 0
  /\ commands = 0 /\ rows = 0 /\ faults = 0 /\ kills = 0

Goto(t, label) == pc' = [pc EXCEPT ![t] = label]
Fault == faults < MaxFaults /\ faults' = faults + 1 /\ UNCHANGED <<commands, rows, kills>>

(***************************************************************************)
(* The wrapper (signal_cli.py).  A second command finds the lock taken and *)
(* ends with an error, which changes nothing.                              *)
(***************************************************************************)

SharedLock == TRUE   \* mutant: LOCK_SH, which does not exclude another command
LockIsFree == lock = NoTerminal

Acquire(t, op) ==
  /\ LockIsFree /\ t \notin wrapper /\ pc[t] = "none" /\ commands < MaxCommands
  /\ lock' = t /\ wrapper' = wrapper \cup {t}
  /\ Goto(t, "start")
  /\ job' = [job EXCEPT ![t] = [msg |-> commands + 1, op |-> op]]
  /\ commands' = commands + 1
  /\ UNCHANGED <<mem, todo, to, dbVars, netVars, consumed, rows, faults, kills>>

\* The process has ended, or the timeout has killed it: leave the lock.
Release(t) ==
  /\ t \in wrapper /\ pc[t] = "none"
  /\ lock' = NoTerminal /\ wrapper' = wrapper \ {t}
  /\ UNCHANGED <<childVars, dbVars, netVars, consumed, bounds>>

\* SIGTERM or SIGKILL ends the wrapper alone: its descriptor closes and the
\* lock with it (the process did not inherit it); the process runs on.
KillWrapper(t) ==
  /\ t \in wrapper /\ kills < MaxKills
  /\ lock' = NoTerminal /\ wrapper' = wrapper \ {t} /\ kills' = kills + 1
  /\ UNCHANGED <<childVars, dbVars, netVars, consumed, commands, rows, faults>>

(***************************************************************************)
(* The native process (runtime.mjs, receive.mjs, send.mjs).                *)
(***************************************************************************)

Load(t) ==
  /\ pc[t] = "start" /\ Goto(t, "drain")
  /\ mem' = [mem EXCEPT ![t] = disk]
  /\ UNCHANGED <<lockVars, job, todo, to, dbVars, netVars, consumed, bounds>>

\* The connection's callback stores a row while any process is connected.
Incoming(t) ==
  /\ pc[t] \notin {"none", "start"} /\ rows < MaxRows
  /\ queued' = queued + 1 /\ rows' = rows + 1
  /\ UNCHANGED <<lockVars, childVars, disk, transcript, netVars, consumed, commands, faults, kills>>

Consumes(account) == [key |-> account.key, got |-> account.got + 1]

DrainRow(t) ==
  /\ pc[t] = "drain" /\ queued > 0
  /\ mem' = [mem EXCEPT ![t] = Consumes(@)]
  /\ disk' = mem'[t] /\ queued' = queued - 1 /\ consumed' = consumed + 1
  /\ UNCHANGED <<lockVars, pc, job, todo, to, transcript, netVars, bounds>>

\* Mutant: the group's member list is not filtered by id !== account.aci.
TargetsWithOwn(t) == IF job[t].op = "send" THEN Recipients ELSE {}
Targets(t) == IF job[t].op = "send" THEN Members ELSE {}

\* Rows that arrived too late or failed stay queued.
DrainDone(t) ==
  /\ pc[t] = "drain"
  /\ Goto(t, IF job[t].op = "send" THEN "next" ELSE "exit")
  /\ todo' = [todo EXCEPT ![t] = Targets(t)]
  /\ UNCHANGED <<lockVars, job, mem, to, dbVars, netVars, consumed, bounds>>

\* Members one after the other, then the sync copy.
Reachable(t) == IF todo[t] = {} THEN {Own} ELSE todo[t]

Advanced(account, r) == [key |-> [account.key EXCEPT ![r] = @ + 1], got |-> account.got]

Encrypt(t, r) ==
  /\ pc[t] = "next" /\ r \in Reachable(t)
  /\ to' = [to EXCEPT ![t] = r]
  /\ mem' = [mem EXCEPT ![t] = Advanced(@, r)]
  /\ Goto(t, "persist")
  /\ UNCHANGED <<lockVars, job, todo, dbVars, netVars, consumed, bounds>>

AnyFailureIsAWarning(r) == "transcript"   \* mutant
\* A failure at a member ends the command; at the sync copy it is a warning.
AfterFailure(r) == IF r = Own THEN "transcript" ELSE "exit"

\* No bundle, a missing prekey or an untrusted identity, possibly after
\* some of the recipient's ratchet had moved in memory.
EncryptFails(t, r) ==
  /\ pc[t] = "next" /\ r \in Reachable(t) /\ Fault
  /\ mem' \in {mem, [mem EXCEPT ![t] = Advanced(@, r)]}
  /\ Goto(t, AfterFailure(r))
  /\ UNCHANGED <<lockVars, job, todo, to, dbVars, netVars, consumed>>

PersistLater(t) == disk' = disk   \* mutant: the ratchet is written after the network send
PersistAccount(t) == disk' = mem[t]

Persist(t) ==
  /\ pc[t] = "persist" /\ Goto(t, "wire")
  /\ PersistAccount(t)
  /\ UNCHANGED <<lockVars, job, mem, todo, to, queued, transcript, netVars, consumed, bounds>>

Ciphertext(t) == [to |-> to[t], key |-> mem[t].key[to[t]], msg |-> job[t].msg]

Addressed(t, r) == [msg |-> job[t].msg, to |-> r]

\* send counts the recipient as delivered.
Reached(t, r) ==
  /\ todo' = [todo EXCEPT ![t] = @ \ {r}]
  /\ Goto(t, IF r = Own THEN "transcript" ELSE "next")

\* The bundle lists no device but this one: the account is written, nothing
\* is sent.
NoDevices(t, r) ==
  /\ pc[t] = "next" /\ r \in Reachable(t)
  /\ PersistAccount(t) /\ Reached(t, r)
  /\ unsent' = unsent \cup {Addressed(t, r)}
  /\ UNCHANGED <<lockVars, job, mem, to, queued, transcript, wire, delivered, consumed, bounds>>

Transmit(t) ==
  /\ pc[t] = "wire"
  /\ wire' = wire \cup {Ciphertext(t)}
  /\ delivered' = delivered \cup {Addressed(t, to[t])}
  /\ Reached(t, to[t])
  /\ UNCHANGED <<lockVars, job, mem, to, dbVars, unsent, consumed, bounds>>

\* The request fails or is never answered; the service may have taken it.
TransmitFails(t) ==
  /\ pc[t] = "wire" /\ Fault
  /\ wire' = wire \cup {Ciphertext(t)}
  /\ delivered' \in {delivered, delivered \cup {Addressed(t, to[t])}}
  /\ Goto(t, AfterFailure(to[t]))
  /\ UNCHANGED <<lockVars, job, mem, todo, to, dbVars, unsent, consumed>>

Transcribe(t) ==
  /\ pc[t] = "transcript" /\ Goto(t, "exit")
  /\ transcript' = transcript \cup {job[t].msg}
  /\ UNCHANGED <<lockVars, job, mem, todo, to, disk, queued, netVars, consumed, bounds>>

Exit(t) ==
  /\ pc[t] = "exit" /\ Goto(t, "none")
  /\ UNCHANGED <<lockVars, job, mem, todo, to, dbVars, netVars, consumed, bounds>>

\* The process dies, or the wrapper's timeout kills it, at any step.
Die(t) ==
  /\ pc[t] \notin {"none", "exit"} /\ Fault /\ Goto(t, "none")
  /\ UNCHANGED <<lockVars, job, mem, todo, to, dbVars, netVars, consumed>>

Child(t) ==
  \/ Load(t) \/ Incoming(t) \/ DrainRow(t) \/ DrainDone(t) \/ Persist(t)
  \/ Transmit(t) \/ TransmitFails(t) \/ Transcribe(t) \/ Exit(t) \/ Die(t)
  \/ \E r \in Recipients : Encrypt(t, r) \/ EncryptFails(t, r) \/ NoDevices(t, r)

Next == \E t \in Terminals :
  \/ \E op \in Operations : Acquire(t, op)
  \/ Release(t) \/ KillWrapper(t) \/ Child(t)

Spec == Init /\ [][Next]_vars

(***************************************************************************)
(* Properties.                                                             *)
(***************************************************************************)
LockType  == lock \in Terminals \cup {NoTerminal} /\ wrapper \subseteq Terminals
PcType    == pc \in [Terminals -> {"none", "start", "drain", "next", "persist", "wire", "transcript", "exit"}]
ChildType ==
  /\ job \in [Terminals -> [msg : Nat, op : Operations]] /\ mem \in [Terminals -> Account]
  /\ todo \in [Terminals -> SUBSET Members] /\ to \in [Terminals -> Recipients]
DbType    == disk \in Account /\ queued \in Nat /\ transcript \subseteq Nat
NetType   ==
  /\ wire \subseteq [to : Recipients, key : Nat, msg : Nat]
  /\ delivered \cup unsent \subseteq [msg : Nat, to : Recipients]
BoundType == consumed \in Nat /\ commands \in Nat /\ rows \in Nat /\ faults \in Nat /\ kills \in Nat

\* The sync copy's recipient is never among the members still to reach.
TypeOK == LockType /\ PcType /\ ChildType /\ DbType /\ NetType /\ BoundType

\* send.mjs: "uncertain delivery must never reuse message keys".  One key
\* never encrypts two messages, whatever dies between encryption and reply.
NoKeyReuse ==
  \A c, d \in wire : c.to = d.to /\ c.key = d.key => c.msg = d.msg

\* The lock protects the account as long as no wrapper has been killed.
Undisturbed == kills = 0

\* It then keeps message keys from being used twice.
KeysUsedOnce == Undisturbed => NoKeyReuse

\* signal_cli.py: "Serialize ratchet changes across all commands for this
\* store".  The account on disk never goes back to an older ratchet.
RatchetNeverRewinds ==
  [][Undisturbed => /\ disk'.got >= disk.got
                    /\ \A r \in Recipients : disk'.key[r] >= disk.key[r]]_vars

\* Every consumed row is accounted for by the ratchets on disk: no process
\* writes back an account it read before another one's drain.
ConsumedRowsKept == Undisturbed => disk.got = consumed

\* A message is kept as sent only if the service accepted it for every
\* recipient that has a device: a send that stopped part-way leaves no
\* transcript, wherever it stopped and whatever of it had been delivered.
TranscriptMeansDelivered ==
  \A m \in transcript, r \in Members : [msg |-> m, to |-> r] \in delivered \cup unsent
=============================================================================
