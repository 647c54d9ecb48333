------------------------- MODULE SignalStoreProofs -------------------------
(***************************************************************************)
(* Theorems about SignalStore for any number of terminals, recipients,     *)
(* commands and faults: while every wrapper outlives its native process,   *)
(* the lock alone keeps ratchets and message keys safe.                    *)
(***************************************************************************)
EXTENDS SignalStore, TLAPS

\* A native process has a live wrapper, and a live wrapper has the lock.
Exclusion == Undisturbed =>
  /\ \A t \in wrapper : lock = t
  /\ \A t \in Terminals : pc[t] # "none" => t \in wrapper

\* The process's copy is the committed account, or one key ahead of it.
CopyIsCurrent == Undisturbed => \A t \in Terminals :
  /\ pc[t] \in {"drain", "next", "wire"} => mem[t] = disk
  /\ pc[t] = "persist" => mem[t] = Advanced(disk, to[t])

\* Every key that reached the wire has been written before.
WireBehindDisk == Undisturbed =>
  /\ \A c \in wire : c.key <= disk.key[c.to]
  /\ \A t \in Terminals, c \in wire : pc[t] = "wire" /\ c.to = to[t] => c.key < disk.key[c.to]

\* A send reaches its recipients one by one, its own devices last.
SendProgress == \A t \in Terminals :
  pc[t] \in {"next", "persist", "wire", "transcript"} =>
    /\ \A r \in Members \ todo[t] : Addressed(t, r) \in delivered \cup unsent
    /\ pc[t] \in {"persist", "wire"} => to[t] \in Reachable(t)
    /\ pc[t] = "transcript" => todo[t] = {}

IInv ==
  /\ TypeOK /\ Exclusion /\ CopyIsCurrent /\ WireBehindDisk /\ SendProgress
  /\ KeysUsedOnce /\ ConsumedRowsKept /\ TranscriptMeansDelivered

LEMMA InitInv == Init => IInv
<1> SUFFICES ASSUME Init PROVE IInv
  OBVIOUS
<1>1. TypeOK
  BY DEF Init, TypeOK, LockType, PcType, ChildType, DbType, NetType, BoundType, Account, Fresh,
     Recipients,
    Operations
<1> QED
  BY <1>1 DEF Init, IInv, Exclusion, CopyIsCurrent, WireBehindDisk, SendProgress, Addressed, KeysUsedOnce,
     NoKeyReuse,
    ConsumedRowsKept, TranscriptMeansDelivered, Fresh

\* One step of a send's ratchet in memory.
LEMMA AdvancedType ==
  ASSUME NEW account \in Account, NEW r \in Recipients
  PROVE  /\ Advanced(account, r) \in Account
         /\ Advanced(account, r).got = account.got
         /\ Advanced(account, r).key[r] = account.key[r] + 1
         /\ \A other \in Recipients : other # r => Advanced(account, r).key[other] = account.key[other]
  BY DEF Account, Advanced

LEMMA TypeStep == TypeOK /\ [Next]_vars => TypeOK'
<1> SUFFICES ASSUME TypeOK, [Next]_vars PROVE TypeOK'
  OBVIOUS
<1> USE DEF TypeOK
<1>a. ASSUME NEW t \in Terminals, NEW label \in {"none", "start", "drain", "next", "persist", "wire", "transcript", "exit"},
             Goto(t, label)
      PROVE  PcType'
  BY <1>a DEF PcType, Goto
<1>b. UNCHANGED lockVars => LockType'
  BY DEF lockVars, LockType
<1>c. UNCHANGED <<job, mem, todo, to>> => ChildType'
  BY DEF ChildType
<1>d. UNCHANGED dbVars => DbType'
  BY DEF dbVars, DbType
<1>e. UNCHANGED netVars => NetType'
  BY DEF netVars, NetType
<1>f. UNCHANGED <<consumed, bounds>> \/ (Fault /\ UNCHANGED consumed) => BoundType'
  BY DEF bounds, Fault, BoundType
<1>1. ASSUME NEW t \in Terminals, NEW op \in Operations, Acquire(t, op) PROVE TypeOK'
  <2>1. LockType' /\ BoundType'
    BY <1>1 DEF Acquire, LockType, BoundType
  <2>2. ChildType'
    BY <1>1 DEF Acquire, ChildType, BoundType
  <2> QED
    BY <1>1, <1>a, <1>d, <1>e, <2>1, <2>2 DEF Acquire
<1>2. ASSUME NEW t \in Terminals, Release(t) \/ KillWrapper(t) PROVE TypeOK'
  <2>1. LockType' /\ BoundType'
    BY <1>2 DEF Release, KillWrapper, LockType, BoundType, bounds
  <2>2. PcType' /\ ChildType'
    BY <1>2 DEF Release, KillWrapper, childVars, PcType, ChildType
  <2> QED
    BY <1>2, <1>d, <1>e, <2>1, <2>2 DEF Release, KillWrapper
<1>3. ASSUME NEW t \in Terminals, Load(t) PROVE TypeOK'
  <2>1. ChildType'
    BY <1>3 DEF Load, ChildType, DbType
  <2> QED
    BY <1>3, <1>a, <1>b, <1>d, <1>e, <1>f, <2>1 DEF Load
<1>4. ASSUME NEW t \in Terminals, Incoming(t) PROVE TypeOK'
  <2>1. DbType' /\ BoundType'
    BY <1>4 DEF Incoming, DbType, BoundType
  <2>2. PcType' /\ ChildType'
    BY <1>4 DEF Incoming, childVars, PcType, ChildType
  <2> QED
    BY <1>4, <1>b, <1>e, <2>1, <2>2 DEF Incoming
<1>5. ASSUME NEW t \in Terminals, DrainRow(t) PROVE TypeOK'
  <2>1. Consumes(mem[t]) \in Account
    BY DEF ChildType, Consumes, Account
  <2>2. mem' = [mem EXCEPT ![t] = Consumes(mem[t])] /\ disk' = mem'[t] /\ UNCHANGED <<pc, job, todo, to>>
    BY <1>5 DEF DrainRow
  <2>3. ChildType' /\ PcType'
    BY <2>1, <2>2 DEF ChildType, PcType
  <2>4. disk' \in Account
    BY <2>1, <2>2 DEF ChildType
  <2>5. DbType' /\ BoundType'
    BY <1>5, <2>4 DEF DrainRow, DbType, BoundType, bounds
  <2> QED
    BY <1>5, <1>b, <1>e, <2>3, <2>5 DEF DrainRow
<1>6. ASSUME NEW t \in Terminals, DrainDone(t) PROVE TypeOK'
  <2>1. ChildType'
    BY <1>6 DEF DrainDone, Targets, ChildType
  <2> QED
    BY <1>6, <1>a, <1>b, <1>d, <1>e, <1>f, <2>1 DEF DrainDone
<1>7. ASSUME NEW t \in Terminals, NEW r \in Recipients, Encrypt(t, r) \/ EncryptFails(t, r) PROVE TypeOK'
  <2>1. Advanced(mem[t], r) \in Account
    BY AdvancedType DEF ChildType
  <2>2. mem' \in {mem, [mem EXCEPT ![t] = Advanced(mem[t], r)]} /\ to' \in {to, [to EXCEPT ![t] = r]}
        /\ UNCHANGED <<job, todo>>
    BY <1>7 DEF Encrypt, EncryptFails
  <2>3. ChildType'
    BY <2>1, <2>2 DEF ChildType
  <2>4. PcType'
    BY <1>7, <1>a DEF Encrypt, EncryptFails, AfterFailure
  <2> QED
    BY <1>7, <1>b, <1>d, <1>e, <1>f, <2>3, <2>4 DEF Encrypt, EncryptFails
<1>8. ASSUME NEW t \in Terminals, Persist(t) PROVE TypeOK'
  <2>1. DbType'
    BY <1>8 DEF Persist, PersistAccount, DbType, ChildType
  <2> QED
    BY <1>8, <1>a, <1>b, <1>c, <1>e, <1>f, <2>1 DEF Persist
<1>9. ASSUME NEW t \in Terminals, Transmit(t) \/ TransmitFails(t) PROVE TypeOK'
  <2>1. /\ Ciphertext(t) \in [to : Recipients, key : Nat, msg : Nat]
        /\ Addressed(t, to[t]) \in [msg : Nat, to : Recipients]
    BY DEF Ciphertext, Addressed, Account, ChildType
  <2>2. NetType'
    BY <1>9, <2>1 DEF Transmit, TransmitFails, NetType
  <2>3. ChildType'
    BY <1>9 DEF Transmit, TransmitFails, Reached, ChildType
  <2>4. PcType'
    BY <1>9, <1>a DEF Transmit, TransmitFails, Reached, AfterFailure
  <2> QED
    BY <1>9, <1>b, <1>d, <1>f, <2>2, <2>3, <2>4 DEF Transmit, TransmitFails
<1>10. ASSUME NEW t \in Terminals, Transcribe(t) PROVE TypeOK'
  <2>1. DbType'
    BY <1>10 DEF Transcribe, DbType, ChildType
  <2> QED
    BY <1>10, <1>a, <1>b, <1>c, <1>e, <1>f, <2>1 DEF Transcribe
<1>11. ASSUME NEW t \in Terminals, Exit(t) \/ Die(t) PROVE TypeOK'
  BY <1>11, <1>a, <1>b, <1>c, <1>d, <1>e, <1>f DEF Exit, Die
<1>13. ASSUME NEW t \in Terminals, NEW r \in Recipients, NoDevices(t, r) PROVE TypeOK'
  <2>1. DbType'
    BY <1>13 DEF NoDevices, PersistAccount, DbType, ChildType
  <2>2. Addressed(t, r) \in [msg : Nat, to : Recipients]
    BY DEF Addressed, ChildType
  <2>3. NetType'
    BY <1>13, <2>2 DEF NoDevices, NetType
  <2>4. ChildType'
    BY <1>13 DEF NoDevices, Reached, ChildType
  <2>5. PcType'
    BY <1>13, <1>a DEF NoDevices, Reached
  <2> QED
    BY <1>13, <1>b, <1>f, <2>1, <2>3, <2>4, <2>5 DEF NoDevices
<1>12. CASE UNCHANGED vars
  <2>1. PcType'
    BY <1>12 DEF vars, childVars, PcType
  <2> QED
    BY <1>12, <1>b, <1>c, <1>d, <1>e, <1>f, <2>1 DEF vars, childVars
<1> QED
  BY <1>1, <1>2, <1>3, <1>4, <1>5, <1>6, <1>7, <1>8, <1>9, <1>10, <1>11, <1>12, <1>13 DEF Next, Child

\* While no wrapper is killed, at most one native process exists.
LEMMA OneProcess ==
  ASSUME Undisturbed, Exclusion, NEW t \in Terminals, NEW u \in Terminals, pc[t] # "none", pc[u] # "none"
  PROVE  t = u
  BY DEF Exclusion

\* Every step keeps the invariant: first the lock, then the copies, the
\* account and the wire, last the progress of each send.
LEMMA NextInv == IInv /\ [Next]_vars => IInv'
<1> SUFFICES ASSUME IInv, [Next]_vars PROVE IInv'
  OBVIOUS
<1> USE DEF IInv
<1>t. TypeOK'
  BY TypeStep
<1>k. Undisturbed' => Undisturbed
  <2>1. kills' # 0 \/ kills = 0
    BY DEF Next, Child, Acquire, Release, KillWrapper, Load, Incoming, DrainRow, DrainDone, Encrypt,
      EncryptFails, Persist, Transmit, TransmitFails, NoDevices, Reached, Transcribe, Exit, Die, Fault, bounds, vars, TypeOK,
      BoundType
  <2> QED
    BY <2>1 DEF Undisturbed
<1>1. Exclusion'
  <2> SUFFICES ASSUME Undisturbed', Undisturbed PROVE Exclusion'
    BY <1>k DEF Exclusion
  <2>1. ASSUME NEW t \in Terminals, NEW op \in Operations, Acquire(t, op) PROVE Exclusion'
    <3>1. wrapper = {}
      BY <2>1, StoreAssumption DEF Acquire, LockIsFree, Exclusion, TypeOK, LockType
    <3> QED
      BY <2>1, <3>1 DEF Acquire, Goto, Exclusion, TypeOK, PcType
  <2>2. ASSUME NEW t \in Terminals, Release(t) PROVE Exclusion'
    BY <2>2 DEF Release, childVars, Exclusion, TypeOK, LockType
  <2>3. ASSUME NEW t \in Terminals, KillWrapper(t) PROVE FALSE
    BY <2>3 DEF KillWrapper, Undisturbed, TypeOK, BoundType
  <2>4. ASSUME UNCHANGED lockVars, \A u \in Terminals : pc[u] = "none" => pc'[u] = "none" PROVE Exclusion'
    BY <2>4 DEF lockVars, Exclusion
  <2>5. ASSUME NEW t \in Terminals, Child(t) PROVE Exclusion'
    BY <2>4, <2>5 DEF Child, Load, Incoming, DrainRow, DrainDone, Encrypt, EncryptFails, Persist,
       Transmit, TransmitFails, NoDevices, Reached, Transcribe, Exit, Die, Goto, childVars, TypeOK, PcType
  <2>6. CASE UNCHANGED vars
    BY <2>4, <2>6 DEF vars, childVars
  <2> QED
    BY <2>1, <2>2, <2>3, <2>5, <2>6 DEF Next
\* A step that leaves the copies, the account and the wire alone.
<1>2. ASSUME UNCHANGED <<mem, to, disk, wire, consumed>>,
             \A u \in Terminals : pc'[u] \in {"drain", "next", "wire", "persist"} =>
               pc'[u] = pc[u] \/ (pc[u] \in {"drain", "next", "wire"} /\ pc'[u] \in {"drain", "next"})
      PROVE  (CopyIsCurrent /\ WireBehindDisk /\ KeysUsedOnce /\ ConsumedRowsKept)'
  BY <1>2, <1>k DEF CopyIsCurrent, WireBehindDisk, KeysUsedOnce, NoKeyReuse, ConsumedRowsKept
<1>3. ASSUME NEW t \in Terminals, NEW op \in Operations, Acquire(t, op)
      PROVE  (CopyIsCurrent /\ WireBehindDisk /\ KeysUsedOnce /\ ConsumedRowsKept)'
  BY <1>2, <1>3 DEF Acquire, Goto, dbVars, netVars, TypeOK, PcType
<1>4. ASSUME NEW t \in Terminals, Release(t) \/ KillWrapper(t)
      PROVE  (CopyIsCurrent /\ WireBehindDisk /\ KeysUsedOnce /\ ConsumedRowsKept)'
  BY <1>2, <1>4 DEF Release, KillWrapper, childVars, dbVars, netVars
<1>5. ASSUME NEW t \in Terminals, Load(t)
      PROVE  (CopyIsCurrent /\ WireBehindDisk /\ KeysUsedOnce /\ ConsumedRowsKept)'
  BY <1>5, <1>k DEF Load, Goto, dbVars, netVars, TypeOK, ChildType, CopyIsCurrent, WireBehindDisk,
    KeysUsedOnce, NoKeyReuse, ConsumedRowsKept
<1>6. ASSUME NEW t \in Terminals, Incoming(t) \/ DrainDone(t) \/ Transcribe(t) \/ Exit(t) \/ Die(t)
      PROVE  (CopyIsCurrent /\ WireBehindDisk /\ KeysUsedOnce /\ ConsumedRowsKept)'
  BY <1>2, <1>6 DEF Incoming, DrainDone, Transcribe, Exit, Die, Goto, childVars, dbVars, netVars,
     TypeOK,
    PcType
<1>7. ASSUME NEW t \in Terminals, DrainRow(t)
      PROVE  (CopyIsCurrent /\ WireBehindDisk /\ KeysUsedOnce /\ ConsumedRowsKept)'
  <2> SUFFICES ASSUME Undisturbed', Undisturbed
               PROVE  (CopyIsCurrent /\ WireBehindDisk /\ KeysUsedOnce /\ ConsumedRowsKept)'
    BY <1>k DEF CopyIsCurrent, WireBehindDisk, KeysUsedOnce, ConsumedRowsKept
  <2>1. /\ mem[t] = disk /\ mem' = [mem EXCEPT ![t] = Consumes(disk)] /\ disk' = Consumes(disk)
        /\ pc[t] = "drain" /\ UNCHANGED <<pc, to, wire>> /\ consumed' = consumed + 1
    BY <1>7 DEF DrainRow, netVars, CopyIsCurrent, TypeOK, ChildType
  <2>2. \A u \in Terminals : pc[u] # "none" => u = t
    BY <2>1, OneProcess
  <2>3. disk'.key = disk.key /\ disk'.got = disk.got + 1
    BY <2>1 DEF Consumes
  <2> QED
    BY <2>1, <2>2, <2>3 DEF CopyIsCurrent, WireBehindDisk, KeysUsedOnce, NoKeyReuse,
       ConsumedRowsKept, TypeOK,
      ChildType
<1>8. ASSUME NEW t \in Terminals, NEW r \in Recipients, Encrypt(t, r)
      PROVE  (CopyIsCurrent /\ WireBehindDisk /\ KeysUsedOnce /\ ConsumedRowsKept)'
  <2>1. /\ pc[t] = "next" /\ to' = [to EXCEPT ![t] = r] /\ pc' = [pc EXCEPT ![t] = "persist"]
        /\ mem' = [mem EXCEPT ![t] = Advanced(mem[t], r)] /\ UNCHANGED <<disk, wire, consumed>>
    BY <1>8 DEF Encrypt, Goto, dbVars, netVars
  <2> QED
    BY <2>1, <1>k DEF CopyIsCurrent, WireBehindDisk, KeysUsedOnce, NoKeyReuse, ConsumedRowsKept,
       TypeOK,
      ChildType, PcType
<1>9. ASSUME NEW t \in Terminals, NEW r \in Recipients, EncryptFails(t, r)
      PROVE  (CopyIsCurrent /\ WireBehindDisk /\ KeysUsedOnce /\ ConsumedRowsKept)'
  <2>1. /\ pc' = [pc EXCEPT ![t] = AfterFailure(r)] /\ UNCHANGED <<to, disk, wire, consumed>>
        /\ \A u \in Terminals : u # t => mem'[u] = mem[u]
    BY <1>9 DEF EncryptFails, Goto, dbVars, netVars, TypeOK, ChildType
  <2>2. AfterFailure(r) \in {"transcript", "exit"}
    BY DEF AfterFailure
  <2> QED
    BY <2>1, <2>2, <1>k DEF CopyIsCurrent, WireBehindDisk, KeysUsedOnce, NoKeyReuse,
       ConsumedRowsKept, TypeOK,
      PcType
<1>10. ASSUME NEW t \in Terminals, Persist(t)
      PROVE  (CopyIsCurrent /\ WireBehindDisk /\ KeysUsedOnce /\ ConsumedRowsKept)'
  <2> SUFFICES ASSUME Undisturbed', Undisturbed
               PROVE  (CopyIsCurrent /\ WireBehindDisk /\ KeysUsedOnce /\ ConsumedRowsKept)'
    BY <1>k DEF CopyIsCurrent, WireBehindDisk, KeysUsedOnce, ConsumedRowsKept
  <2>1. /\ pc[t] = "persist" /\ pc' = [pc EXCEPT ![t] = "wire"] /\ disk' = mem[t]
        /\ mem[t] = Advanced(disk, to[t]) /\ UNCHANGED <<mem, to, wire, consumed>>
    BY <1>10 DEF Persist, PersistAccount, Goto, netVars, CopyIsCurrent
  <2>2. \A u \in Terminals : pc[u] # "none" => u = t
    BY <2>1, OneProcess
  <2>3. to[t] \in Recipients /\ disk \in Account
    BY DEF TypeOK, ChildType, DbType
  <2>4. /\ disk'.got = disk.got /\ disk'.key[to[t]] = disk.key[to[t]] + 1
        /\ \A r \in Recipients : r # to[t] => disk'.key[r] = disk.key[r]
    BY <2>1, <2>3, AdvancedType
  <2>5. \A c \in wire : c.to \in Recipients /\ c.key \in Nat /\ disk.key[c.to] \in Nat
    BY <2>3 DEF TypeOK, NetType, Account
  <2>6. CopyIsCurrent'
    BY <2>1, <2>2 DEF CopyIsCurrent, TypeOK, PcType
  <2>7. WireBehindDisk'
    BY <2>1, <2>2, <2>4, <2>5 DEF WireBehindDisk, TypeOK, PcType
  <2>8. ConsumedRowsKept' /\ KeysUsedOnce'
    BY <2>1, <2>4 DEF ConsumedRowsKept, KeysUsedOnce, NoKeyReuse
  <2> QED
    BY <2>6, <2>7, <2>8
<1>11. ASSUME NEW t \in Terminals, Transmit(t) \/ TransmitFails(t)
      PROVE  (CopyIsCurrent /\ WireBehindDisk /\ KeysUsedOnce /\ ConsumedRowsKept)'
  <2> SUFFICES ASSUME Undisturbed', Undisturbed
               PROVE  (CopyIsCurrent /\ WireBehindDisk /\ KeysUsedOnce /\ ConsumedRowsKept)'
    BY <1>k DEF CopyIsCurrent, WireBehindDisk, KeysUsedOnce, ConsumedRowsKept
  <2> DEFINE new == [to |-> to[t], key |-> disk.key[to[t]], msg |-> job[t].msg]
  <2>1. /\ pc[t] = "wire" /\ mem[t] = disk /\ wire' = wire \cup {new}
        /\ UNCHANGED <<mem, to, disk, consumed>>
    BY <1>11 DEF Transmit, TransmitFails, Ciphertext, dbVars, CopyIsCurrent
  <2>2. \A u \in Terminals : pc[u] # "none" => u = t
    BY <2>1, OneProcess
  <2>3. pc'[t] \in {"next", "transcript", "exit"} /\ \A u \in Terminals : u # t => pc'[u] = pc[u]
    BY <1>11 DEF Transmit, TransmitFails, Reached, AfterFailure, Goto, TypeOK, PcType
  <2>4. CopyIsCurrent'
    BY <2>1, <2>2, <2>3 DEF CopyIsCurrent
  <2>5. disk.key[to[t]] \in Nat
    BY DEF TypeOK, ChildType, DbType, Account
  <2>6. \A c \in wire' : c.key <= disk.key[c.to]
    BY <2>1, <2>5 DEF WireBehindDisk
  <2>7. WireBehindDisk'
    BY <2>1, <2>2, <2>3, <2>6 DEF WireBehindDisk
  <2>8. \A c \in wire : c.to = new.to => c.key < new.key
    BY <2>1 DEF WireBehindDisk
  <2>9. \A c \in wire : c.key \in Nat
    BY DEF TypeOK, NetType
  <2>10. NoKeyReuse'
    <3> SUFFICES ASSUME NEW c \in wire', NEW d \in wire', c.to = d.to, c.key = d.key PROVE c.msg = d.msg
      BY DEF NoKeyReuse
    <3>1. CASE c \in wire /\ d \in wire
      BY <3>1 DEF KeysUsedOnce, NoKeyReuse
    <3>2. CASE c = new /\ d = new
      BY <3>2
    <3>3. CASE c = new /\ d \in wire
      BY <2>5, <2>8, <2>9, <3>3
    <3>4. CASE d = new /\ c \in wire
      BY <2>5, <2>8, <2>9, <3>4
    <3> QED
      BY <2>1, <3>1, <3>2, <3>3, <3>4
  <2> QED
    BY <2>1, <2>4, <2>7, <2>10 DEF KeysUsedOnce, ConsumedRowsKept
<1>16. ASSUME NEW t \in Terminals, NEW r \in Recipients, NoDevices(t, r)
      PROVE  (CopyIsCurrent /\ WireBehindDisk /\ KeysUsedOnce /\ ConsumedRowsKept)'
  <2>1. /\ pc[t] = "next" /\ pc' = [pc EXCEPT ![t] = IF r = Own THEN "transcript" ELSE "next"]
        /\ disk' = mem[t] /\ UNCHANGED <<mem, to, wire, consumed>>
    BY <1>16 DEF NoDevices, Reached, PersistAccount, Goto
  <2>2. Undisturbed => disk' = disk
    BY <2>1 DEF CopyIsCurrent
  <2> QED
    BY <2>1, <2>2, <1>k DEF CopyIsCurrent, WireBehindDisk, KeysUsedOnce, NoKeyReuse, ConsumedRowsKept,
      TypeOK, PcType
<1>12. ASSUME UNCHANGED vars PROVE (CopyIsCurrent /\ WireBehindDisk /\ KeysUsedOnce /\ ConsumedRowsKept)'
  BY <1>2, <1>12 DEF vars, childVars, dbVars, netVars
<1>13. (CopyIsCurrent /\ WireBehindDisk /\ KeysUsedOnce /\ ConsumedRowsKept)'
  <2>1. ASSUME NEW t \in Terminals, Child(t)
        PROVE  (CopyIsCurrent /\ WireBehindDisk /\ KeysUsedOnce /\ ConsumedRowsKept)'
    BY <2>1, <1>5, <1>6, <1>7, <1>8, <1>9, <1>10, <1>11, <1>16 DEF Child
  <2> QED
    BY <2>1, <1>3, <1>4, <1>12 DEF Next
<1>14. SendProgress'
  <2>1. ASSUME delivered \subseteq delivered', unsent \subseteq unsent', todo' = todo, job' = job, to' = to,
               \A u \in Terminals : pc'[u] \in {"next", "persist", "wire", "transcript"} => pc'[u] = pc[u]
        PROVE  SendProgress'
    BY <2>1 DEF SendProgress, Addressed, Reachable
  <2>2. ASSUME NEW t \in Terminals, NEW op \in Operations, Acquire(t, op) PROVE SendProgress'
    BY <2>2 DEF Acquire, Goto, netVars, SendProgress, Addressed, Reachable
  <2>3. ASSUME NEW t \in Terminals, Release(t) \/ KillWrapper(t) PROVE SendProgress'
    BY <2>1, <2>3 DEF Release, KillWrapper, childVars, netVars
  <2>4. ASSUME NEW t \in Terminals, Load(t) \/ Incoming(t) \/ DrainRow(t) \/ Exit(t) \/ Die(t) \/ Transcribe(t)
        PROVE  SendProgress'
    BY <2>1, <2>4 DEF Load, Incoming, DrainRow, Exit, Die, Transcribe, Goto, childVars, netVars,
       TypeOK,
      PcType
  <2>5. ASSUME NEW t \in Terminals, DrainDone(t) PROVE SendProgress'
    BY <2>5 DEF DrainDone, Targets, Goto, netVars, SendProgress, Addressed, Reachable, TypeOK, ChildType
  <2>6. ASSUME NEW t \in Terminals, NEW r \in Recipients, Encrypt(t, r) PROVE SendProgress'
    BY <2>6 DEF Encrypt, Goto, netVars, SendProgress, Addressed, Reachable, TypeOK, ChildType
  <2>7. ASSUME NEW t \in Terminals, NEW r \in Recipients, EncryptFails(t, r) PROVE SendProgress'
    <3>1. pc' = [pc EXCEPT ![t] = AfterFailure(r)] /\ pc[t] = "next" /\ r \in Reachable(t)
          /\ UNCHANGED <<job, todo, to, delivered, unsent>>
      BY <2>7 DEF EncryptFails, Goto, netVars
    <3>2. r = Own => todo[t] = {}
      BY <3>1, StoreAssumption DEF Reachable, TypeOK, ChildType
    <3>3. (AfterFailure(r) = "transcript" /\ r = Own) \/ AfterFailure(r) = "exit"
      BY DEF AfterFailure
    <3> QED
      BY <3>1, <3>2, <3>3 DEF SendProgress, Addressed, Reachable, TypeOK, PcType
  <2>8. ASSUME NEW t \in Terminals, Persist(t) PROVE SendProgress'
    BY <2>8 DEF Persist, Goto, netVars, SendProgress, Addressed, Reachable
  <2>9. ASSUME NEW t \in Terminals, Transmit(t) \/ TransmitFails(t) PROVE SendProgress'
    <3>1. pc[t] = "wire" /\ to[t] \in Reachable(t) /\ UNCHANGED <<job, to>>
      BY <2>9 DEF Transmit, TransmitFails, SendProgress
    <3>2. to[t] = Own => todo[t] = {}
      BY <3>1, StoreAssumption DEF Reachable, TypeOK, ChildType
    <3>3. \A r \in Members \ todo[t] : Addressed(t, r) \in delivered \cup unsent
      BY <3>1 DEF SendProgress
    <3>4. CASE Transmit(t)
      <4>1. /\ delivered' = delivered \cup {Addressed(t, to[t])} /\ unsent' = unsent
            /\ todo' = [todo EXCEPT ![t] = todo[t] \ {to[t]}]
            /\ pc' = [pc EXCEPT ![t] = IF to[t] = Own THEN "transcript" ELSE "next"]
        BY <3>4 DEF Transmit, Reached, Goto
      <4> QED
        BY <3>1, <3>2, <4>1 DEF SendProgress, Addressed, Reachable, TypeOK, PcType
    <3>5. CASE TransmitFails(t)
      <4>1. delivered \subseteq delivered' /\ unsent' = unsent /\ todo' = todo /\ pc' = [pc EXCEPT ![t] = AfterFailure(to[t])]
        BY <3>5 DEF TransmitFails, Goto
      <4>2. (AfterFailure(to[t]) = "transcript" /\ to[t] = Own) \/ AfterFailure(to[t]) = "exit"
        BY DEF AfterFailure
      <4> QED
        BY <3>1, <3>2, <4>1, <4>2 DEF SendProgress, Addressed, Reachable
    <3> QED
      BY <2>9, <3>4, <3>5
  <2>12. ASSUME NEW t \in Terminals, NEW r \in Recipients, NoDevices(t, r) PROVE SendProgress'
    <3>1. /\ pc[t] = "next" /\ r \in Reachable(t) /\ UNCHANGED <<job, to, delivered>>
          /\ pc' = [pc EXCEPT ![t] = IF r = Own THEN "transcript" ELSE "next"]
          /\ todo' = [todo EXCEPT ![t] = todo[t] \ {r}] /\ unsent' = unsent \cup {Addressed(t, r)}
      BY <2>12 DEF NoDevices, Reached, Goto
    <3>2. r = Own => todo[t] = {}
      BY <3>1, StoreAssumption DEF Reachable, TypeOK, ChildType
    <3> QED
      BY <3>1, <3>2 DEF SendProgress, Addressed, Reachable, TypeOK, PcType, ChildType
  <2>10. CASE UNCHANGED vars
    BY <2>10 DEF vars, childVars, netVars, SendProgress, Addressed, Reachable
  <2>11. ASSUME NEW t \in Terminals, Child(t) PROVE SendProgress'
    BY <2>11, <2>4, <2>5, <2>6, <2>7, <2>8, <2>9, <2>12 DEF Child
  <2> QED
    BY <2>2, <2>3, <2>10, <2>11 DEF Next
<1>15. TranscriptMeansDelivered'
  <2>1. delivered \subseteq delivered' /\ unsent \subseteq unsent'
    BY DEF Next, Child, Acquire, Release, KillWrapper, Load, Incoming, DrainRow, DrainDone, Encrypt,
      EncryptFails, Persist, Transmit, TransmitFails, NoDevices, Reached, Transcribe, Exit, Die, netVars, vars
  <2>2. ASSUME NEW t \in Terminals, Transcribe(t) PROVE TranscriptMeansDelivered'
    BY <2>2 DEF Transcribe, netVars, SendProgress, Addressed, TranscriptMeansDelivered
  <2>3. (\A t \in Terminals : ~Transcribe(t)) => transcript' = transcript
    BY DEF Next, Child, Acquire, Release, KillWrapper, Load, Incoming, DrainRow, DrainDone, Encrypt,
      EncryptFails, Persist, Transmit, TransmitFails, NoDevices, Exit, Die, dbVars, vars
  <2> QED
    BY <2>1, <2>2, <2>3 DEF TranscriptMeansDelivered
<1> QED
  BY <1>t, <1>1, <1>13, <1>14, <1>15

THEOREM InductiveInvariant == Spec => []IInv
  BY InitInv, NextInv, PTL DEF Spec

\* Every variable keeps its type.
THEOREM TypeCorrect == Spec => []TypeOK
<1>1. IInv => TypeOK
  BY DEF IInv
<1> QED
  BY <1>1, InductiveInvariant, PTL

\* send.mjs writes the account before the network send, and the lock of
\* signal_cli.py keeps other processes away in between: no message key is
\* used for two messages, whatever dies and whenever.
THEOREM KeysNeverReused == Spec => []KeysUsedOnce
<1>1. IInv => KeysUsedOnce
  BY DEF IInv
<1> QED
  BY <1>1, InductiveInvariant, PTL

\* No drain's ratchet step is lost to another command (receive.mjs, drain).
THEOREM NoLostDrain == Spec => []ConsumedRowsKept
<1>1. IInv => ConsumedRowsKept
  BY DEF IInv
<1> QED
  BY <1>1, InductiveInvariant, PTL

\* A group message that stopped part-way leaves no local copy (send.mjs); the
\* recipients without a copy of one that is kept had no device.
THEOREM TranscriptSound == Spec => []TranscriptMeansDelivered
<1>1. IInv => TranscriptMeansDelivered
  BY DEF IInv
<1> QED
  BY <1>1, InductiveInvariant, PTL

\* The committed ratchets only move forward (store.mjs, persist).
THEOREM RatchetsMoveForward == Spec => RatchetNeverRewinds
<1> DEFINE Forward == Undisturbed => /\ disk'.got >= disk.got
                                     /\ \A r \in Recipients : disk'.key[r] >= disk.key[r]
<1>1. IInv /\ [Next]_vars => [Forward]_vars
  <2> SUFFICES ASSUME IInv, Next, Undisturbed
               PROVE  disk'.got >= disk.got /\ \A r \in Recipients : disk'.key[r] >= disk.key[r]
    OBVIOUS
  <2>1. disk.got \in Nat /\ \A r \in Recipients : disk.key[r] \in Nat
    BY DEF IInv, TypeOK, DbType, Account
  <2>2. ASSUME NEW t \in Terminals, DrainRow(t) PROVE disk' = Consumes(disk)
    BY <2>2 DEF DrainRow, IInv, CopyIsCurrent, TypeOK, ChildType
  <2>3. ASSUME NEW t \in Terminals, Persist(t) PROVE disk' = Advanced(disk, to[t]) /\ to[t] \in Recipients
    BY <2>3 DEF Persist, PersistAccount, IInv, CopyIsCurrent, TypeOK, ChildType
  <2>8. ASSUME NEW t \in Terminals, NEW r \in Recipients, NoDevices(t, r) PROVE disk' = disk
    BY <2>8 DEF NoDevices, PersistAccount, IInv, CopyIsCurrent
  <2>4. (\A t \in Terminals : ~DrainRow(t) /\ ~Persist(t)) => disk' = disk
    BY <2>8 DEF Next, Child, Acquire, Release, KillWrapper, Load, Incoming, DrainDone, Encrypt,
       EncryptFails,
      Transmit, TransmitFails, NoDevices, Reached, Transcribe, Exit, Die, dbVars
  <2>5. disk \in Account
    BY DEF IInv, TypeOK, DbType
  <2>6. CASE \E t \in Terminals : DrainRow(t)
    BY <2>1, <2>2, <2>6 DEF Consumes
  <2>7. CASE \E t \in Terminals : Persist(t)
    <3>1. PICK t \in Terminals : disk' = Advanced(disk, to[t]) /\ to[t] \in Recipients
      BY <2>3, <2>7
    <3> QED
      BY <2>1, <2>5, <3>1, AdvancedType
  <2> QED
    BY <2>1, <2>4, <2>6, <2>7
<1> QED
  BY <1>1, InductiveInvariant, PTL DEF Spec, RatchetNeverRewinds
=============================================================================
