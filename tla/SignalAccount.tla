---------------------------- MODULE SignalAccount ----------------------------
(***************************************************************************)
(* The Signal account: linking a device (link.mjs), the import of the      *)
(* phone's history (history.mjs), and the contact list that imports,       *)
(* received messages and sends all edit and that decides to whom a message *)
(* goes and whether the inbox may keep it (receive.mjs, send.mjs,          *)
(* signal_cli.py).                                                         *)
(*                                                                         *)
(* One command runs at a time (SignalStore is about the lock).  It works   *)
(* on a copy of the account and may die between two commits.               *)
(***************************************************************************)
EXTENDS Naturals, Sequences, FiniteSets

CONSTANTS
  Peers,
  Archive,  \* contact and chat frames of the phone's history, in order
  Number,   \* by device in order of linking, the deviceId the service gives it
  Nobody,
  MaxLinks  \* bound: pairings

ArchiveFrame == [peer : Peers, uuid : BOOLEAN, number : BOOLEAN, timer : {"none", "on", "off"}]

ASSUME AccountAssumption ==
  /\ MaxLinks \in Nat /\ Nobody \notin Peers
  /\ Archive \in Seq(ArchiveFrame)
  /\ \A i \in DOMAIN Archive : Archive[i].uuid \/ Archive[i].number

Forms == {"uuid", "number"}

VARIABLES
  devices, \* devices the service has linked, in order
  account, \* native_state: the account as last committed
  retired, \* native_retired_state: the devices whose credentials are kept
  texts,   \* messages: <<peer, what>>, what in hist, got, sent, sent-timed
  step, copy, \* the running command and its copy of the account
  done, rows, \* an import's transaction: frames taken, texts inserted
  who, to, \* a send: the peer it is for and the id it was given
  timers,  \* history: each conversation's timer as last heard of
  heard    \* history: the same as the open transaction leaves it

importVars == <<done, rows, heard>>
sendVars == <<who, to>>
accountVars == <<devices, account, retired, texts, step, copy, importVars, sendVars, timers>>

\* device: whose credentials these are; key, archive: the history-transfer key
\* and the archive's location.
Account(device, key) ==
  [device |-> device, key |-> key, archive |-> "none", imported |-> "no", contacts |-> <<>>]

NoAccount == Account(0, "none")

AllOff == [p \in Peers |-> "off"]

AccountInit ==
  /\ devices = 0 /\ account = NoAccount /\ retired = {} /\ texts = {}
  /\ step = "idle" /\ copy = NoAccount
  /\ done = 0 /\ rows = {} /\ heard = AllOff
  /\ who = Nobody /\ to = "uuid"
  /\ timers = AllOff

Become(label) == step' = label
SaveAccount(acc) == account' = acc

\* A command ends: its copy of the account is gone, an open transaction
\* rolled back.
Done ==
  /\ step' = "idle" /\ copy' = NoAccount
  /\ done' = 0 /\ rows' = {} /\ heard' = AllOff
  /\ who' = Nobody /\ to' = "uuid"

(***************************************************************************)
(* Contacts.  An entry knows a peer by uuid, by number or by both; lookups *)
(* take the first entry that matches.                                      *)
(***************************************************************************)

Matches(c, p, f) == c.peer = p /\ ((f = "uuid" /\ c.uuid) \/ (f = "number" /\ c.number))
Entries(cs, p, f) == {i \in DOMAIN cs : Matches(cs[i], p, f)}
First(is) == CHOOSE i \in is : \A j \in is : i <= j

Entry(p, u, n, t) == [peer |-> p, uuid |-> u, number |-> n, timer |-> t]

\* importFrames: a frame is filed under its uuid if it has one; the entry
\* found keeps its timer and takes everything else from the frame.
FrameForm(fr) == IF fr.uuid THEN "uuid" ELSE "number"

WithContact(cs, fr) ==
  LET is == Entries(cs, fr.peer, FrameForm(fr))
  IN IF is = {}
     THEN Append(cs, Entry(fr.peer, fr.uuid, fr.number, "off"))
     ELSE [cs EXCEPT ![First(is)] = Entry(fr.peer, fr.uuid, fr.number, @.timer)]

WithTimer(cs, p, f, t) ==
  LET is == Entries(cs, p, f)
  IN IF t = "none" \/ is = {} THEN cs ELSE [cs EXCEPT ![First(is)].timer = t]

WithFrame(cs, fr) == WithTimer(WithContact(cs, fr), fr.peer, FrameForm(fr), fr.timer)

\* normalized: the timer a message carries, if it does, is the conversation's.
Heard(cs, p, t) ==
  IF t # "none" /\ Entries(cs, p, "uuid") = {}
  THEN Append(cs, Entry(p, TRUE, FALSE, t))
  ELSE WithTimer(cs, p, "uuid", t)

(***************************************************************************)
(* Linking.                                                                *)
(***************************************************************************)

StartLink ==
  /\ step = "idle" /\ devices < MaxLinks /\ Become("pairing")
  /\ UNCHANGED <<devices, account, retired, texts, copy, importVars, sendVars, timers>>

\* The timer, a closed connection or a message without keys.
LinkFails ==
  /\ step = "pairing" /\ Done
  /\ UNCHANGED <<devices, account, retired, texts, timers>>

\* PUT /v1/devices/link: the service has a new device of ours from here on,
\* under a number it has free: an earlier one's, if that was unlinked since.
ServiceLinks(key) ==
  /\ step = "pairing"
  /\ devices' = devices + 1
  /\ copy' = Account(devices + 1, key)
  /\ Become("linked")
  /\ UNCHANGED <<account, retired, texts, importVars, sendVars, timers>>

\* No device id in the answer, or another account's uuid.
LinkRefused ==
  /\ step = "linked" /\ Done
  /\ UNCHANGED <<devices, account, retired, texts, timers>>

CarriedOver(acc) == [acc EXCEPT !.contacts = account.contacts]

\* Mutant: the new account is written over the old one.
RetiredNone == retired
\* INSERT OR REPLACE, keyed by the device's number.
Retired ==
  IF account.device = 0 THEN retired
  ELSE {d \in retired : Number[d] # Number[account.device]} \cup {account.device}

Retire ==
  /\ step = "linked"
  /\ retired' = Retired
  /\ copy' = CarriedOver(copy)
  /\ Become("retired")
  /\ UNCHANGED <<devices, account, texts, importVars, sendVars, timers>>

PersistLink ==
  /\ step = "retired"
  /\ SaveAccount(copy)
  /\ IF copy.key = "held" THEN Become("import") /\ UNCHANGED <<copy, importVars, sendVars>> ELSE Done
  /\ UNCHANGED <<devices, retired, texts, timers>>

(***************************************************************************)
(* History import, after linking or as a command of its own.               *)
(***************************************************************************)

StartImport ==
  /\ step = "idle" /\ account.device # 0
  /\ copy' = account /\ Become("import")
  /\ UNCHANGED <<devices, account, retired, texts, importVars, sendVars, timers>>

\* Already imported, or no key to import with.
NothingToImport ==
  /\ step = "import" /\ copy.key = "none" /\ Done
  /\ UNCHANGED <<devices, account, retired, texts, timers>>

Located(acc, where) == [acc EXCEPT !.archive = where]

Locate(where) ==
  /\ step = "import" /\ copy.key = "held" /\ copy.archive = "none"
  /\ copy' = Located(copy, where) /\ SaveAccount(copy')
  /\ UNCHANGED <<devices, retired, texts, step, importVars, sendVars, timers>>

\* The phone declines or is silent, the location is unusable, the download or
\* its validation fails, or a frame is refused and the transaction rolled back.
ImportFails ==
  /\ step \in {"import", "frames"} /\ copy.key = "held" /\ Done
  /\ UNCHANGED <<devices, account, retired, texts, timers>>

\* BEGIN IMMEDIATE, with the archive downloaded and found valid.
BeginImport ==
  /\ step = "import" /\ copy.key = "held" /\ copy.archive = "good"
  /\ Become("frames") /\ heard' = timers
  /\ UNCHANGED <<devices, account, retired, texts, copy, done, rows, sendVars, timers>>

\* One turn of importFrames: the copy is changed at once, the row is inserted
\* in the transaction.
ImportFrame ==
  LET fr == Archive[done + 1] IN
  /\ step = "frames" /\ done < Len(Archive) /\ done' = done + 1
  /\ copy' = [copy EXCEPT !.contacts = WithFrame(@, fr)]
  /\ rows' = rows \cup {<<fr.peer, "hist">>}
  /\ heard' = [heard EXCEPT ![fr.peer] = IF fr.timer = "none" THEN @ ELSE fr.timer]
  /\ UNCHANGED <<devices, account, retired, texts, step, sendVars, timers>>

\* Mutant: the loop stops before the last frame.
AllButLast == done + 1 >= Len(Archive)
AllTaken == done = Len(Archive)

\* The account as the transaction commits it.
Spent(acc) == [acc EXCEPT !.key = "none", !.archive = "none", !.imported = "yes"]

CommitImport ==
  /\ step = "frames" /\ AllTaken
  /\ SaveAccount(Spent(copy)) /\ texts' = texts \cup rows /\ timers' = heard
  /\ Done
  /\ UNCHANGED <<devices, retired>>

(***************************************************************************)
(* Receiving: one row of drain, committed as a whole.                      *)
(***************************************************************************)

\* A text from a peer, or one our phone has sent to it, with its timer.
Receive(p, t) ==
  /\ step = "idle" /\ account.device # 0
  /\ SaveAccount([account EXCEPT !.contacts = Heard(@, p, t)])
  /\ texts' = IF t # "on" THEN texts \cup {<<p, "got">>} ELSE texts
  /\ timers' = [timers EXCEPT ![p] = IF t = "none" THEN @ ELSE t]
  /\ UNCHANGED <<devices, retired, step, copy, importVars, sendVars>>

(***************************************************************************)
(* Sending.                                                                *)
(***************************************************************************)

\* resolve: the entries of which the query is the id or an alias; a peer
\* that is not there is taken by the query itself.
Resolved(cs, p, f) ==
  LET is == Entries(cs, p, f)
  IN CASE is = {}             -> f
       [] Cardinality(is) = 1 -> IF cs[First(is)].number THEN "number" ELSE "uuid"
       [] OTHER               -> "ambiguous"

StartSend(p, f) ==
  /\ step = "idle" /\ account.device # 0
  /\ Resolved(account.contacts, p, f) # "ambiguous"
  /\ who' = p /\ to' = Resolved(account.contacts, p, f)
  /\ copy' = account /\ Become("sending")
  /\ UNCHANGED <<devices, account, retired, texts, importVars, timers>>

\* recipientId: the uuid of the first entry, or a lookup of the number.
KnownUuid == LET is == Entries(copy.contacts, who, to) IN is # {} /\ copy.contacts[First(is)].uuid

Recipient ==
  /\ step = "sending"
  /\ copy' = IF to = "uuid" \/ KnownUuid THEN copy
            ELSE [copy EXCEPT !.contacts = Append(@, Entry(who, TRUE, TRUE, "off"))]
  /\ Become("addressed")
  /\ UNCHANGED <<devices, account, retired, texts, importVars, sendVars, timers>>

\* The number is not discoverable, an attachment fails, or encryption does.
SendFails ==
  /\ step \in {"sending", "addressed", "posting"} /\ Done
  /\ UNCHANGED <<devices, account, retired, texts, timers>>

PersistSend ==
  /\ step = "addressed"
  /\ SaveAccount(copy) /\ Become("posting")
  /\ UNCHANGED <<devices, retired, texts, copy, importVars, sendVars, timers>>

\* Mutant: the entry is looked up by number.
ExpirationByNumber(cs, p) ==
  LET is == Entries(cs, p, "number") IN IF is = {} THEN "off" ELSE cs[First(is)].timer

\* The expiration of the first entry with the recipient's uuid.
Expiration(cs, p) ==
  LET is == Entries(cs, p, "uuid") IN IF is = {} THEN "off" ELSE cs[First(is)].timer

\* The service has taken it; what does not disappear goes to the inbox.
Transcribe ==
  /\ step = "posting"
  /\ texts' = IF Expiration(copy.contacts, who) = "off"
              THEN texts \cup {<<who, IF timers[who] = "on" THEN "sent-timed" ELSE "sent">>}
              ELSE texts
  /\ Done
  /\ UNCHANGED <<devices, account, retired, timers>>

Die ==
  /\ step # "idle" /\ Done
  /\ UNCHANGED <<devices, account, retired, texts, timers>>

Link ==
  \/ StartLink \/ LinkFails \/ LinkRefused \/ Retire \/ PersistLink
  \/ \E key \in {"held", "none"} : ServiceLinks(key)
History ==
  \/ StartImport \/ NothingToImport \/ ImportFails \/ BeginImport \/ ImportFrame \/ CommitImport
  \/ \E where \in {"good", "bad"} : Locate(where)
Messages ==
  \/ \E p \in Peers, t \in {"none", "on", "off"} : Receive(p, t)
  \/ \E p \in Peers, f \in Forms : StartSend(p, f)
  \/ Recipient \/ SendFails \/ PersistSend \/ Transcribe

AccountNext == Link \/ History \/ Messages \/ Die

AccountSpec == AccountInit /\ [][AccountNext]_accountVars

(***************************************************************************)
(* Properties.                                                             *)
(***************************************************************************)

Contact == [peer : Peers, uuid : BOOLEAN, number : BOOLEAN, timer : {"on", "off"}]
Accounts == [device : 0 .. MaxLinks, key : {"none", "held"}, archive : {"none", "good", "bad"},
             imported : {"no", "yes"}, contacts : Seq(Contact)]

AccountTypeOK ==
  /\ devices \in 0 .. MaxLinks /\ retired \subseteq 1 .. devices
  /\ account \in Accounts /\ copy \in Accounts /\ account.device <= devices
  /\ texts \subseteq Peers \X {"hist", "got", "sent", "sent-timed"}
  /\ step \in {"idle", "pairing", "linked", "retired", "import", "frames", "sending", "addressed", "posting"}
  /\ step \in {"import", "frames", "sending", "addressed", "posting"} => copy.device = account.device
  /\ done \in 0 .. Len(Archive) /\ rows \subseteq Peers \X {"hist"}
  /\ to \in Forms /\ (IF step \in {"sending", "addressed", "posting"} THEN who \in Peers ELSE who = Nobody)
  /\ timers \in [Peers -> {"on", "off"}] /\ heard \in [Peers -> {"on", "off"}]

Known(acc) == {acc.contacts[i].peer : i \in DOMAIN acc.contacts}

\* README.md: pairing "preserves the inbox and retains previous native
\* credentials privately".  The credentials that leave the account are retained
\* and give way only to those of a later device with the same number, and no
\* conversation is forgotten or text removed with them, wherever a pairing or an
\* import fails or its process dies.
PairingRetains ==
  [][/\ account'.device # account.device => account.device \in {0} \cup retired'
     /\ \A d \in retired \ retired' : \E e \in retired' : d < e /\ Number[e] = Number[d]
     /\ Known(account) \subseteq Known(account')
     /\ texts \subseteq texts']_accountVars

\* The same sentence as it stands: what is retained stays.
CredentialsStay == [][retired \subseteq retired']_accountVars

HistoryText == {<<Archive[i].peer, "hist">> : i \in DOMAIN Archive}

\* history.mjs commits texts, contacts and the mark in one transaction: an
\* account marked as imported has every text and conversation of the archive,
\* also after a pairing and messages have edited its list; and the one-time key
\* is given up only together with the texts it opens, or for the next pairing's.
ImportIsWhole ==
  [][/\ account'.imported = "yes" =>
          /\ HistoryText \subseteq texts'
          /\ \A i \in DOMAIN Archive : Archive[i].peer \in Known(account')
     /\ (account.key = "held" /\ account'.key = "none" /\ account'.device = account.device)
          => account'.imported = "yes"]_accountVars

\* receive.mjs: "Outgoing messages must preserve the conversation's latest
\* disappearing timer": the inbox keeps no message of ours that disappears for
\* the others, except to a peer that has an entry without a uuid, however
\* imports, messages and lookups have edited the list.
TimersHonoured ==
  \A p \in Peers : <<p, "sent-timed">> \in texts =>
    \E i \in DOMAIN account.contacts : account.contacts[i].peer = p /\ ~account.contacts[i].uuid

\* README.md: "The Signal inbox excludes disappearing and view-once content".
InboxExcludesDisappearing == \A p \in Peers : <<p, "sent-timed">> \notin texts
=============================================================================
