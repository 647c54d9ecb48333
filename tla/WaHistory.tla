------------------------------ MODULE WaHistory ------------------------------
(***************************************************************************)
(* Older history of one chat: `wa read` pages backwards from the oldest    *)
(* cached message, one request to the phone at a time, and reports how far *)
(* the cache reaches; history notifications are saved as blobs and folded  *)
(* into the cache in a thread, beside the live messages of the session, or *)
(* by `wa ingest`, which takes no lock.                                    *)
(*                                                                         *)
(* The chat's messages on the phone are numbered from its start; a number  *)
(* is a message's id and its time.  Message 0 belongs to another chat.     *)
(***************************************************************************)
EXTENDS Integers, Sequences, FiniteSets, FiniteSetsExt

CONSTANTS
  Size,        \* messages of the chat on the phone
  Stubs,       \* those it never decrypted and shows as placeholders
  Answers,     \* the JID form under which it answers
  Forms,       \* request_jids: the forms `wa read` tries, in order
  Page,        \* ON_DEMAND_PAGE
  Most,        \* ON_DEMAND_MAX
  Bundles,     \* chunks of history the phone pushes of its own accord
  Caches,      \* what may be cached at first
  Mail,        \* messages in the offline mailbox at first
  Asks,        \* reads: --limit and --since (0: not given)
  MaxReads, MaxReplays, MaxRequests, MaxFaults \* bounds

Chat == 1 .. Size

ASSUME HistoryAssumption ==
  /\ Size \in Nat \ {0} /\ Stubs \subseteq Chat
  /\ Forms \in Seq({"pn", "lid"}) /\ Forms # <<>>
  /\ \A i, j \in DOMAIN Forms : Forms[i] = Forms[j] => i = j
  /\ Page \in Nat \ {0} /\ Most \in Nat \ {0}
  /\ Bundles \subseteq (SUBSET Chat) \ {{}} /\ Caches \subseteq SUBSET Chat /\ Mail \subseteq {0} \cup Chat
  /\ \A c \in Caches : \A m \in c : m .. Size \subseteq c \cup Mail \* no hole in the cache at first
  /\ \A c \in Caches \ {{}} : \A m \in Mail \ {0} : \E x \in c : x < m \* what waits is newer
  /\ Asks \subseteq [limit : Nat, since : Nat]
  /\ {MaxReads, MaxReplays, MaxRequests, MaxFaults} \subseteq Nat

Workers == {"reader", "replay"}

VARIABLES
  mailbox,   \* the server's: messages to deliver live, in order
  phone,     \* the phone's: requests it has not answered
  lines,     \* messages.jsonl: lines per message
  index,     \* chats.json: chats listed
  blobs,     \* saved history notifications, in order
  owed,      \* the chat whose row a live message has still to write
  busy,      \* `wa listen` has the connection lock
  pc, ask,   \* `wa read`: its step and its options
  link,      \* its connection
  first,     \* the first blob saved since it connected
  forms, try, anchor, left, requests, \* the walk
  sent,      \* ids of the requests sent on this connection
  ingested,  \* replies already ingested
  stop,      \* PageResult.stop
  report,    \* the last coverage object
  work,      \* per worker: the run of _ingest_history_blobs it is in
  reads, replays, faults,
  bundled,   \* history: messages stored from a pushed bundle
  aside,     \* history: messages stored otherwise than as a page of the walk
  overlap,   \* history: two runs of ingest at the same time
  clobbered, \* history: the other chat was added while an ingest ran
  unlisted,  \* history: the row of the other chat was never written
  dropped    \* history: live messages that could not be appended

walkVars    == <<forms, try, anchor, left, sent, ingested>>
diskVars    == <<lines, index, blobs>>
waitVars    == <<owed, busy>>
liveHistory == <<clobbered, unlisted, dropped>>
historyVars == <<bundled, aside, overlap, liveHistory>>
bounds      == <<requests, reads, replays, faults>>
vars == <<mailbox, waitVars, phone, diskVars, pc, ask, link, first, walkVars, stop, report, work, bounds, historyVars>>

Off == [step |-> "off", todo |-> {}, seen |-> {}, index |-> {}, new |-> {}, end |-> "none"]

Cached == {m \in Chat : lines[m] > 0}
Rows   == Cardinality(UNION {{m} \X (1 .. lines[m]) : m \in Chat})
Oldest == Min(Cached)

Init ==
  /\ mailbox = Mail /\ phone = {}
  /\ \E c \in Caches : lines = [m \in {0} \cup Chat |-> IF m \in c THEN 1 ELSE 0]
  /\ index = {"chat"} /\ blobs = <<>>
  /\ pc = "idle" /\ ask \in Asks /\ link = "down" /\ first = 1
  /\ forms = Forms /\ try = 1 /\ anchor = 0 /\ left = 0 /\ requests = 0
  /\ sent = {} /\ ingested = {} /\ stop = "none"
  /\ report = [complete |-> "no", note |-> "yes"]
  /\ work = [w \in Workers |-> Off]
  /\ reads = 0 /\ replays = 0 /\ faults = 0
  /\ bundled = {} /\ aside = {} /\ overlap = "no"
  /\ owed = "none" /\ busy = "no" /\ clobbered = "no" /\ unlisted = "no" /\ dropped = {}

Fault(n) == faults + n <= MaxFaults /\ faults' = faults + n

(***************************************************************************)
(* _ingest_history_blobs: read the index and the ids cached so far, fetch  *)
(* the chunks, save the index, then append what was not cached.            *)
(***************************************************************************)

StartWork(w, todo) ==
  /\ work' = [work EXCEPT ![w] = [Off EXCEPT !.step = "fetch", !.todo = todo, !.seen = Cached, !.index = index]]
  /\ overlap' = IF \E v \in Workers \ {w} : work[v].step # "off" THEN "yes" ELSE overlap

\* Mutant: chats.json is written with the chats of the blobs alone.
OnlyOwn(run, found) == found
Listed(run, found) == run.index \cup found

\* Mutant: ids are not compared with those in the cache.
StoredAgain(run, msgs) == msgs
Stored(run, msgs) == msgs \ run.seen

\* iter_conversation_messages: placeholders count as messages.
Contents(chunks) == UNION {blobs[i].msgs : i \in chunks}

\* end_types[-1]: of the last chunk that could be read.
LastEnd(fetched) == IF fetched = {} THEN "none" ELSE blobs[Max(fetched)].end

\* Links expire and downloads fail: such a chunk is skipped.
SaveIndex(w, fetched) ==
  /\ work[w].step = "fetch" /\ fetched \subseteq work[w].todo
  /\ Fault(IF fetched = work[w].todo THEN 0 ELSE 1)
  /\ work' = [work EXCEPT ![w] = [@ EXCEPT !.step = "append", !.todo = fetched, !.end = LastEnd(fetched),
                                           !.new = Stored(work[w], Contents(fetched))]]
  /\ index' = Listed(work[w], IF fetched = {} THEN {} ELSE {"chat"})
  /\ UNCHANGED <<mailbox, waitVars, phone, lines, blobs, pc, ask, link, first, walkVars, stop, report, requests, reads, replays, historyVars>>

\* append_messages: what has arrived since the ids were read is not seen.
AppendNew(w) ==
  /\ work[w].step = "append"
  /\ lines' = [m \in DOMAIN lines |-> lines[m] + IF m \in work[w].new THEN 1 ELSE 0]
  /\ work' = [work EXCEPT ![w] = Off]
  /\ bundled' = bundled \cup (Contents({i \in work[w].todo : blobs[i].request = 0}) \cap work[w].new)
  /\ aside' = IF w = "reader" /\ pc = "ingest" THEN aside ELSE aside \cup work[w].new
  /\ UNCHANGED <<index, blobs, overlap, liveHistory>>

(***************************************************************************)
(* The connection and its session (module WaSession has its inside).       *)
(***************************************************************************)

Online == link = "up"

\* append_messages([cached]), in the event loop; when it raises, the message
\* is gone.
Live(m) ==
  /\ Online /\ owed = "none" /\ m \in mailbox /\ \A n \in mailbox : m <= n
  /\ mailbox' = mailbox \ {m}
  /\ \/ /\ lines' = [lines EXCEPT ![m] = @ + 1]
        /\ owed' = IF m = 0 THEN "other" ELSE "chat"
        /\ UNCHANGED <<faults, dropped>>
     \/ /\ Fault(1) /\ dropped' = dropped \cup {m}
        /\ UNCHANGED <<lines, owed>>
  /\ UNCHANGED <<busy, phone, index, blobs, pc, ask, link, first, walkVars, stop, report, work, requests, reads, replays>>
  /\ UNCHANGED <<bundled, aside, overlap, clobbered, unlisted>>

\* upsert_chat, which may raise too.
Unwritten == unlisted' = IF owed = "other" THEN "yes" ELSE unlisted

Upsert ==
  /\ owed # "none" /\ owed' = "none"
  /\ index' = index \cup {owed}
  /\ clobbered' = IF owed = "other" /\ \E w \in Workers : work[w].step = "fetch" THEN "yes" ELSE clobbered
  /\ UNCHANGED <<mailbox, busy, phone, lines, blobs, pc, ask, link, first, walkVars, stop, report, work, bounds>>
  /\ UNCHANGED <<bundled, aside, overlap, unlisted, dropped>>

UpsertFails ==
  /\ owed # "none" /\ owed' = "none" /\ Fault(1) /\ Unwritten
  /\ UNCHANGED <<mailbox, busy, phone, diskVars, pc, ask, link, first, walkVars, stop, report, work, requests, reads, replays>>
  /\ UNCHANGED <<bundled, aside, overlap, clobbered, dropped>>

\* The phone sends the messages just older than the anchor and its verdict
\* on what lies before them; at a placeholder it may call that nothing.
Served(r) == {m \in Chat : m < r.anchor /\ r.anchor - m <= r.n}

Verdicts(r) ==
  LET low == Min(Served(r) \cup {r.anchor})
  IN IF low = 1 THEN {"nothing"} ELSE {"more", "no_access"} \cup (IF low \in Stubs THEN {"nothing"} ELSE {})

Notify(msgs, end, id) == blobs' = Append(blobs, [msgs |-> msgs, end |-> end, request |-> id])

Answer(r, end) ==
  /\ Online /\ r \in phone /\ end \in Verdicts(r)
  /\ phone' = phone \ {r}
  /\ Notify(Served(r), end, r.id)
  /\ UNCHANGED <<mailbox, waitVars, lines, index, pc, ask, link, first, walkVars, stop, report, work, bounds, historyVars>>

Push(bundle) ==
  /\ Online /\ \A i \in DOMAIN blobs : blobs[i].request # 0 \/ blobs[i].msgs # bundle
  /\ Notify(bundle, "more", 0)
  /\ UNCHANGED <<mailbox, waitVars, phone, lines, index, pc, ask, link, first, walkVars, stop, report, work, bounds, historyVars>>

LoseLink ==
  /\ Online /\ Fault(1) /\ link' = "down"
  /\ UNCHANGED <<mailbox, waitVars, phone, diskVars, pc, ask, first, walkVars, stop, report, work, requests, reads, replays, historyVars>>

(***************************************************************************)
(* `wa read`.                                                              *)
(***************************************************************************)

Short(a) == Rows < a.limit \/ (a.since # 0 /\ (Cached = {} \/ Oldest > a.since))
Want(a) ==
  CASE a.since # 0 /\ (Cached = {} \/ Oldest > a.since) -> Most
    [] OTHER -> Max({0, a.limit - Rows})

StartRead(a, extend) ==
  /\ pc = "idle" /\ reads < MaxReads /\ reads' = reads + 1
  /\ ask' = a /\ left' = Want(a)
  /\ IF Want(a) > 0 /\ extend
     THEN pc' = "connect" /\ stop' = "none"
     ELSE pc' = "report" /\ stop' = IF Want(a) > 0 THEN "skipped" ELSE "none"
  /\ UNCHANGED <<mailbox, waitVars, phone, diskVars, link, first, forms, try, anchor, sent, ingested, report, work, requests, replays, faults, historyVars>>

\* connection_lock of a `wa listen`, for as long as it runs.  What it receives
\* itself is left out.
Locked == pc \in {"walk", "ask", "wait", "ingest", "closing", "final"}

ListenerTakes ==
  /\ busy = "no" /\ ~Locked /\ Fault(1) /\ busy' = "yes"
  /\ UNCHANGED <<mailbox, owed, phone, diskVars, pc, ask, link, first, walkVars, stop, report, work, requests, reads, replays, historyVars>>

ListenerEnds ==
  /\ busy = "yes" /\ busy' = "no"
  /\ UNCHANGED <<mailbox, owed, phone, diskVars, pc, ask, link, first, walkVars, stop, report, work, bounds, historyVars>>

\* The wait for the lock has no timeout; once it is ours nobody else has a
\* connection.
Connect ==
  /\ pc = "connect" /\ busy = "no" /\ Cached # {}
  /\ pc' = "walk" /\ link' = "up" /\ first' = Len(blobs) + 1
  /\ forms' = Forms /\ sent' = {} /\ ingested' = {}
  /\ UNCHANGED <<mailbox, waitVars, phone, diskVars, ask, try, anchor, left, stop, report, work, bounds, historyVars>>

\* An exception leaves `fetch` unset, which reads as "skipped".  Without a
\* cached message there is no anchor and no connection.
ConnectFails ==
  /\ pc = "connect" /\ busy = "no" /\ Fault(IF Cached = {} THEN 0 ELSE 1)
  /\ pc' = "report" /\ stop' = "skipped"
  /\ UNCHANGED <<mailbox, waitVars, phone, diskVars, ask, link, first, walkVars, report, work, requests, reads, replays, historyVars>>

\* Mutant: the reason is noted and the loop goes on.
Noted(why) == pc' = "walk" /\ stop' = why

\* _page_on_demand, at the head of its loop.
Finished(why) == pc' = "closing" /\ stop' = why

NextPage ==
  /\ pc = "walk"
  /\ CASE left <= 0                           -> Finished("count") /\ UNCHANGED <<anchor, try>>
       [] left > 0 /\ ask.since # 0 /\ Oldest <= ask.since -> Finished("since") /\ UNCHANGED <<anchor, try>>
       [] OTHER -> pc' = "ask" /\ anchor' = Oldest /\ try' = 1 /\ UNCHANGED stop
  /\ UNCHANGED <<mailbox, waitVars, phone, diskVars, ask, link, first, forms, left, sent, ingested, report, work, bounds, historyVars>>

Request == [id |-> requests + 1, anchor |-> anchor, n |-> Min({Page, left}), form |-> forms[try]]

\* The phone files the chat under one form and ignores the other.
Understood == {r \in {Request} : r.form = Answers}

Send ==
  /\ pc = "ask" /\ Online /\ requests < MaxRequests
  /\ requests' = requests + 1 /\ phone' = phone \cup Understood /\ sent' = sent \cup {Request.id}
  /\ pc' = "wait"
  /\ UNCHANGED <<mailbox, waitVars, diskVars, ask, link, first, forms, try, anchor, left, ingested, stop, report, work, reads, replays, faults, historyVars>>

\* send_node raises on a lost connection: the walk has no result.
SendRaises ==
  /\ pc = "ask" /\ ~Online
  /\ Finished("skipped")
  /\ UNCHANGED <<mailbox, waitVars, phone, diskVars, ask, link, first, walkVars, report, work, bounds, historyVars>>

\* _reply_blobs: answers to any request of this connection.
Replies == {i \in first .. Len(blobs) : blobs[i].request \in sent} \ ingested

TakeReplies ==
  /\ pc = "wait" /\ Online /\ Replies # {}
  /\ ingested' = ingested \cup Replies /\ StartWork("reader", Replies)
  /\ pc' = "ingest"
  /\ UNCHANGED <<mailbox, waitVars, phone, diskVars, ask, link, first, forms, try, anchor, left, sent, stop, report, bounds, bundled, aside, liveHistory>>

\* The deadline, before or just after the last look at the blobs, or a lost
\* connection: on to the chat's other form, or "no_reply".
NoReply ==
  /\ pc = "wait"
  /\ IF try < Len(forms) THEN pc' = "ask" /\ try' = try + 1 /\ UNCHANGED stop
                         ELSE Finished("no_reply") /\ UNCHANGED try
  /\ UNCHANGED <<mailbox, waitVars, phone, diskVars, ask, link, first, forms, anchor, left, sent, ingested, report, work, bounds, historyVars>>

ToFront(k) == [i \in DOMAIN forms |-> IF i = 1 THEN forms[k] ELSE IF i <= k THEN forms[i - 1] ELSE forms[i]]

StopReason(got, end) ==
  CASE end = "no_access" -> "no_access"
    [] end = "nothing"   -> "no_older"
    [] got = 0           -> "nothing_new"
    [] OTHER             -> "none"

PageStored ==
  /\ pc = "ingest" /\ AppendNew("reader")
  /\ LET got == Cardinality(work["reader"].new)
         why == StopReason(got, work["reader"].end)
     IN /\ left' = left - got
        /\ IF why = "none" THEN pc' = "walk" /\ UNCHANGED stop ELSE Finished(why)
  /\ forms' = ToFront(try)
  /\ UNCHANGED <<mailbox, waitVars, phone, ask, link, first, try, anchor, sent, ingested, report, bounds>>

\* session.stop(), then whatever else was saved during the connection.
Close ==
  /\ pc = "closing" /\ link' = "down"
  /\ LET rest == (first .. Len(blobs)) \ ingested
     IN IF rest = {} THEN pc' = "report" /\ UNCHANGED <<work, overlap>>
                     ELSE pc' = "final" /\ StartWork("reader", rest)
  /\ UNCHANGED <<mailbox, waitVars, phone, diskVars, ask, first, walkVars, stop, report, bounds, bundled, aside, liveHistory>>

RestStored ==
  /\ pc = "final" /\ AppendNew("reader")
  /\ pc' = "report"
  /\ UNCHANGED <<mailbox, waitVars, phone, ask, link, first, walkVars, stop, report, bounds>>

\* Mutant: what the phone says is taken as it is.
CompleteAsSaid == stop = "no_older"
Complete == stop = "no_older" /\ Oldest \notin Stubs

\* _coverage
Report ==
  /\ pc = "report" /\ pc' = "idle"
  /\ report' = [complete |-> IF Complete THEN "yes" ELSE "no", note |-> IF Short(ask) /\ ~Complete THEN "yes" ELSE "no"]
  /\ stop' = "none" /\ anchor' = 0 /\ left' = 0 /\ try' = 1 /\ forms' = Forms /\ sent' = {} /\ ingested' = {}
  /\ UNCHANGED <<mailbox, waitVars, phone, diskVars, ask, link, first, work, bounds, historyVars>>

Crash ==
  /\ pc # "idle" /\ Fault(1)
  /\ pc' = "idle" /\ link' = "down" /\ stop' = "none" /\ report' = [complete |-> "no", note |-> "yes"]
  /\ anchor' = 0 /\ left' = 0 /\ try' = 1 /\ forms' = Forms /\ sent' = {} /\ ingested' = {}
  /\ work' = [work EXCEPT !["reader"] = Off] /\ owed' = "none" /\ Unwritten
  /\ UNCHANGED <<mailbox, busy, phone, diskVars, ask, first, requests, reads, replays>>
  /\ UNCHANGED <<bundled, aside, overlap, clobbered, dropped>>

(***************************************************************************)
(* `wa ingest`, in a process of its own and without the connection lock.   *)
(***************************************************************************)

StartReplay ==
  /\ work["replay"].step = "off" /\ blobs # <<>> /\ replays < MaxReplays /\ replays' = replays + 1
  /\ StartWork("replay", DOMAIN blobs)
  /\ UNCHANGED <<mailbox, waitVars, phone, diskVars, pc, ask, link, first, walkVars, stop, report, requests, reads, faults, bundled, aside, liveHistory>>

ReplayStored ==
  /\ work["replay"].step = "append" /\ AppendNew("replay")
  /\ UNCHANGED <<mailbox, waitVars, phone, pc, ask, link, first, walkVars, stop, report, bounds>>

Fetch(w) == \E fetched \in SUBSET work[w].todo : SaveIndex(w, fetched)

\* An ingest runs in a thread, everything else of a read in its event loop.
Read ==
  \/ Fetch("reader") \/ Upsert
  \/ owed = "none" /\ (\/ Connect \/ ConnectFails \/ NextPage \/ Send \/ SendRaises \/ TakeReplies \/ NoReply
                       \/ PageStored \/ Close \/ RestStored \/ Report)

Phone ==
  \/ \E r \in phone, end \in {"more", "nothing", "no_access"} : Answer(r, end)
  \/ \E bundle \in Bundles : Push(bundle)

Next ==
  \/ Read \/ Phone \/ LoseLink \/ Crash
  \/ \E a \in Asks, extend \in BOOLEAN : StartRead(a, extend)
  \/ \E m \in mailbox : Live(m)
  \/ UpsertFails \/ ListenerTakes \/ ListenerEnds
  \/ StartReplay \/ Fetch("replay") \/ ReplayStored

Spec == Init /\ [][Next]_vars

\* Every wait of a read has a deadline, but for that for the lock, which a
\* listener never has to let go; the phone and the server owe it nothing.
FairSpec == Spec /\ WF_vars(Read)

(***************************************************************************)
(* Properties.                                                             *)
(***************************************************************************)

Ends    == {"more", "nothing", "no_access"}
Replied == [msgs : SUBSET Chat, end : Ends, request : 0 .. MaxRequests]
Listing == SUBSET {"chat", "other"}
Runs    == [step : {"off", "fetch", "append"}, todo : SUBSET (1 .. Len(blobs)), seen : SUBSET Chat, index : Listing,
            new : SUBSET Chat, end : Ends \cup {"none"}]

\* Types; both forms of the chat stay to be tried; a run of ingest is the
\* reader's only while it stores a page or what is left.
TypeOK ==
  /\ mailbox \subseteq Mail /\ lines \in [{0} \cup Chat -> Nat] /\ index \in Listing /\ blobs \in Seq(Replied)
  /\ phone \subseteq [id : 1 .. requests, anchor : Chat, n : 1 .. Page, form : {Answers}]
  /\ pc \in {"idle", "connect", "walk", "ask", "wait", "ingest", "closing", "final", "report"}
  /\ ask \in Asks /\ link \in {"up", "down"} /\ first \in 1 .. Len(blobs) + 1
  /\ forms \in [DOMAIN Forms -> {Forms[i] : i \in DOMAIN Forms}] /\ \A i, j \in DOMAIN forms : forms[i] = forms[j] => i = j
  /\ try \in DOMAIN Forms /\ anchor \in 0 .. Size /\ left \in Int
  /\ sent \subseteq 1 .. requests /\ ingested \subseteq first .. Len(blobs)
  /\ work \in [Workers -> Runs] /\ (work["reader"].step # "off" <=> pc \in {"ingest", "final"})
  /\ stop \in {"none", "skipped", "count", "since", "no_reply", "no_older", "no_access", "nothing_new"}
  /\ report \in [complete : {"yes", "no"}, note : {"yes", "no"}]
  /\ requests \in 0 .. MaxRequests /\ faults \in 0 .. MaxFaults
  /\ owed \in {"none", "chat", "other"} /\ busy \in {"yes", "no"}
  /\ clobbered \in {"yes", "no"} /\ unlisted \in {"yes", "no"} /\ dropped \subseteq Mail

Missing == {m \in Chat \ Cached : m \notin mailbox \cup dropped}
Doubled == {m \in Chat : lines[m] > 1}

\* _coverage: "`note` is set whenever the cache holds less than was asked for,
\* so a reader cannot take a short result for the whole conversation".  A
\* report that calls the chat complete has its first message, and one without
\* a note has what was asked for, if no message has two lines; from the oldest
\* on nothing is missing, but for what waits in the mailbox, was dropped or
\* lies above a bundle the phone pushed.  So it is whichever answers were late, lost, in the
\* other form or not to be downloaded, and with placeholders at which the
\* phone's verdict is wrong; the exception is an oldest message that came
\* beside the walk, after the verdict, which _coverage takes for its subject.
CoverageIsHonest == pc = "idle" =>
  /\ report.complete = "yes" => Oldest = 1 \/ Oldest \in aside
  /\ \A m \in Missing : Cached = {} \/ m < Oldest \/ \E b \in bundled : b < m
  /\ (report.complete = "no" /\ report.note = "no") =>
       /\ Cardinality(Cached) >= ask.limit \/ Doubled # {}
       /\ ask.since # 0 => Oldest <= ask.since

\* known_message_ids: however often blobs are ingested and whatever they have
\* in common, a message gets one line, and one more from its live delivery,
\* which is appended whether or not history has brought it.  Two runs of ingest
\* at the same time give it a second one, each having missed the other's, and
\* no third: what comes after them sees it.
IngestedOnce == \A m \in Chat :
  lines[m] <= (IF overlap = "no" THEN 1 ELSE 2) + Cardinality({m} \cap (Mail \ mailbox))

\* A chat with messages is listed in chats.json, on which `wa read` finds it,
\* whatever ingests run beside the messages.  The exceptions: its row is about
\* to be written, or could not be, or the process died first; or it was written
\* while an ingest was between reading and saving the file.
ChatsAreListed ==
  lines[0] > 0 /\ owed # "other" /\ unlisted = "no" /\ clobbered = "no" => "other" \in index

\* A read ends, for any answers and none, unless a listener keeps the
\* connection for ever: every page makes progress or stops, so that no walk
\* needs more than MaxRequests requests, and a listener that ends lets it go on.
ReadsEnd == []<>(busy = "no") => (pc # "idle" ~> pc = "idle")
=============================================================================
