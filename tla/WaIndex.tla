------------------------------ MODULE WaIndex -------------------------------
(***************************************************************************)
(* messages.jsonl, chats.json and lidmap.json (cache.py) under the three   *)
(* writers that meet: the message path of a connection, the group refresh  *)
(* of the same connection (_fetch_group_participants), which keeps copies  *)
(* across its awaits, and `wa migrate`, a process that takes no lock and   *)
(* folds the names of a conversation into one.                             *)
(*                                                                         *)
(* A conversation has up to three names: a phone number, a LID, and the    *)
(* LID an old version filed under the phone number's server (polluted).    *)
(* A message is a number, in the order of arrival, and its own timestamp;  *)
(* a row of chats.json is the newest timestamp it knows, 0 without a row.  *)
(***************************************************************************)
EXTENDS Naturals, FiniteSets

CONSTANTS
  Peers, Groups,
  MsgCount,     \* messages, old ones included
  Chat, Form,   \* the conversation of each, and the name it arrives under
  Tells,        \* messages whose stanza carries the sender's other name
  Old,          \* messages in the cache from the start
  MaxMigrates, MaxRefreshes, MaxFaults  \* bounds: runs of each, crashes

Messages == 1 .. MsgCount
Chats    == Peers \cup Groups
Forms    == {"pn", "lid", "polluted", "group"}
Names    == {<<f, c>> : f \in Forms, c \in Chats}

ASSUME IndexAssumption ==
  /\ MsgCount \in Nat /\ Old \subseteq Messages
  /\ Tells \subseteq {m \in Messages : Chat[m] \in Peers}
  /\ Chat \in [Messages -> Chats] /\ Form \in [Messages -> Forms]
  /\ \A m \in Messages : (Form[m] = "group") = (Chat[m] \in Groups)
  /\ MaxMigrates \in Nat /\ MaxRefreshes \in Nat /\ MaxFaults \in Nat

VARIABLES
  live,      \* messages.jsonl: [there, lines], a line is <<message, name>>
  aside,     \* lines in its backups
  rows,      \* chats.json
  tmp,       \* chats.tmp: rows, or the empty set when there is none
  lidmap,    \* peers whose two names are known to be one
  arrived,   \* messages that have reached the message path
  lpc, cur, lrows,   \* the connection's process: step, message in hand, rows loaded
  asking, rrows, rmap, \* a group refresh waits for replies; its copies
  mpc, mrows, mmap, mlines, \* migrate: step, folded rows, mapping, folded lines
  migrates, refreshes, faults,
  learned,   \* history: peers whose names have been told
  kept,      \* history: messages whose line was written
  swept,     \* history: lines written while migrate had the file aside
  overlapped, \* history: messages whose row was written beside another writer
  unsure,    \* history: peers whose names were told during a refresh
  cut,       \* history: a migrate ended with its rows in place and its lines not
  split      \* history: messages filed under a number known to be a LID

fileVars    == <<live, aside, rows, tmp, lidmap>>
readerVars  == <<lpc, cur, lrows, arrived>>
refreshVars == <<asking, rrows, rmap, refreshes>>
migrateVars == <<mpc, mrows, mmap, mlines, migrates>>
historyVars == <<learned, kept, swept, overlapped, unsure, cut, split>>
vars == <<fileVars, readerVars, refreshVars, migrateVars, faults, historyVars>>

NoFile == [there |-> FALSE, lines |-> {}]
NoRows == [n \in Names |-> 0]
Largest(S) == CHOOSE x \in S : \A y \in S : y <= x

OldLines == {<<m, <<Form[m], Chat[m]>>>> : m \in Old}
RowsOf(lines) == [n \in Names |-> Largest({0} \cup {m \in Messages : <<m, n>> \in lines})]

Init ==
  /\ live = [there |-> Old # {}, lines |-> OldLines] /\ aside = {}
  /\ rows = RowsOf(OldLines) /\ tmp = {} /\ lidmap = {}
  /\ arrived = Old /\ lpc = "wait" /\ cur = 0 /\ lrows = NoRows
  /\ asking = FALSE /\ rrows = NoRows /\ rmap = {}
  /\ mpc = "off" /\ mrows = NoRows /\ mmap = {} /\ mlines = {}
  /\ migrates = 0 /\ refreshes = 0 /\ faults = 0
  /\ learned = {} /\ kept = Old /\ swept = {} /\ overlapped = {} /\ unsure = {} /\ cut = FALSE /\ split = {}

KeepsNumbers(name, map) == IF name[1] = "polluted" THEN <<"lid", name[2]>> ELSE name   \* mutant: the map is not asked

\* canonical_jid, with the mapping inverted.
Canonical(name, map) ==
  IF name[1] = "polluted" \/ (name[1] = "pn" /\ name[2] \in map) THEN <<"lid", name[2]>> ELSE name

(***************************************************************************)
(* The message path: harvest of the names, the line, then upsert_chat.     *)
(* Its process is one thread, so a refresh of the same connection moves    *)
(* only between two messages; migrate is another process.                  *)
(***************************************************************************)
Harvested(m) == IF m \in Tells THEN lidmap \cup {Chat[m]} ELSE lidmap
Rewriting == {"aside", "opened"}   \* migrate has moved the file away
Copied    == {"rows", "lines", "tmp"}  \* migrate holds rows it has not saved

Append(m) ==
  /\ lpc = "wait" /\ m \notin arrived /\ \A n \in 1 .. m - 1 : n \in arrived
  /\ arrived' = arrived \cup {m} /\ cur' = m /\ lpc' = "row"
  /\ lidmap' = Harvested(m)
  /\ LET name == Canonical(<<Form[m], Chat[m]>>, lidmap') IN
       /\ live' = [there |-> TRUE, lines |-> live.lines \cup {<<m, name>>}]
       /\ split' = IF name[1] = "pn" /\ Chat[m] \in learned THEN split \cup {m} ELSE split
  /\ learned' = learned \cup (lidmap' \ lidmap)
  /\ unsure' = IF asking THEN unsure \cup (lidmap' \ lidmap) ELSE unsure
  /\ kept' = kept \cup {m}
  /\ swept' = IF mpc \in Rewriting THEN swept \cup {m} ELSE swept
  /\ overlapped' = IF asking \/ mpc \in Copied THEN overlapped \cup {m} ELSE overlapped
  /\ UNCHANGED <<aside, rows, tmp, lrows, refreshVars, migrateVars, faults, cut>>

\* upsert_chat: load, change, write chats.tmp, rename it.  Two processes
\* use one chats.tmp: the second rename finds none and raises.
Upserted(r, m) == LET n == Canonical(<<Form[m], Chat[m]>>, lidmap) IN [r EXCEPT ![n] = Largest({@, m})]

LoadRow ==
  /\ lpc = "row" /\ lpc' = "loaded" /\ lrows' = Upserted(rows, cur)
  /\ UNCHANGED <<fileVars, cur, arrived, refreshVars, migrateVars, faults, historyVars>>

WriteRow ==
  /\ lpc = "loaded" /\ lpc' = "tmp" /\ tmp' = {lrows}
  /\ UNCHANGED <<live, aside, rows, lidmap, cur, lrows, arrived, refreshVars, migrateVars, faults, historyVars>>

Renamed == IF tmp = {} THEN rows' = rows ELSE rows' = CHOOSE r \in tmp : TRUE

\* "cache append failed" when there is nothing to rename.
SaveRow ==
  /\ lpc = "tmp" /\ lpc' = "wait" /\ cur' = 0 /\ lrows' = NoRows
  /\ Renamed /\ tmp' = {}
  /\ UNCHANGED <<live, aside, lidmap, arrived, refreshVars, migrateVars, faults, historyVars>>

(***************************************************************************)
(* The group refresh.  Replies change its copies only.                     *)
(***************************************************************************)
BeginRefresh ==
  /\ lpc = "wait" /\ ~asking /\ refreshes < MaxRefreshes
  /\ \E g \in Groups : rows[<<"group", g>>] # 0
  /\ refreshes' = refreshes + 1 /\ asking' = TRUE
  /\ rrows' = rows /\ rmap' = lidmap
  /\ UNCHANGED <<fileVars, readerVars, migrateVars, faults, historyVars>>

\* A participant with both names; on its own it is no news to the cache.
GroupReply(p) ==
  /\ lpc = "wait" /\ asking /\ p \notin rmap
  /\ rmap' = rmap \cup {p}
  /\ UNCHANGED <<fileVars, readerVars, asking, rrows, refreshes, migrateVars, faults, historyVars>>

WriteRefresh ==
  /\ lpc = "wait" /\ asking
  /\ lpc' = "refresh" /\ tmp' = {rrows}
  /\ overlapped' = IF mpc \in Copied THEN Messages ELSE overlapped
  /\ UNCHANGED <<live, aside, rows, lidmap, cur, lrows, arrived, refreshVars, migrateVars, faults,
                 learned, kept, swept, unsure, cut, split>>

\* save_chats raises when migrate has renamed its chats.tmp; the rest of
\* the refresh is then not saved.
SaveRefresh ==
  /\ lpc = "refresh" /\ lpc' = "wait" /\ asking' = FALSE /\ rrows' = NoRows /\ rmap' = {}
  /\ Renamed /\ tmp' = {}
  /\ lidmap' = IF tmp = {} THEN lidmap ELSE rmap
  /\ learned' = learned \cup lidmap'
  /\ UNCHANGED <<live, aside, cur, lrows, arrived, refreshes, migrateVars, faults, kept, swept, overlapped, unsure, cut, split>>

(***************************************************************************)
(* wa migrate.                                                             *)
(***************************************************************************)
FirstWins(r, map) == [n \in Names |-> IF Canonical(n, map) = n THEN r[CHOOSE o \in Names : Canonical(o, map) = n] ELSE 0]   \* mutant: without max
Folded(r, map) ==
  [n \in Names |-> IF Canonical(n, map) # n THEN 0 ELSE Largest({r[o] : o \in {x \in Names : Canonical(x, map) = n}})]

ReadRows ==
  /\ mpc = "off" /\ migrates < MaxMigrates
  /\ migrates' = migrates + 1 /\ mpc' = "rows"
  /\ mmap' = lidmap /\ mrows' = Folded(rows, lidmap)
  /\ overlapped' = IF lpc # "wait" THEN Messages ELSE overlapped
  /\ UNCHANGED <<fileVars, readerVars, refreshVars, mlines, faults, learned, kept, swept, unsure, cut, split>>

ReadLines ==
  /\ mpc = "rows" /\ mpc' = "lines"
  /\ mlines' = {<<l[1], Canonical(l[2], mmap)>> : l \in live.lines}
  /\ UNCHANGED <<fileVars, readerVars, refreshVars, mrows, mmap, migrates, faults, historyVars>>

WriteRows ==
  /\ mpc = "lines" /\ mpc' = "tmp" /\ tmp' = {mrows}
  /\ UNCHANGED <<live, aside, rows, lidmap, readerVars, refreshVars, mrows, mmap, mlines, migrates, faults, historyVars>>

MigrateOver == mpc' = "off" /\ mrows' = NoRows /\ mmap' = {} /\ mlines' = {}

\* save_chats, which may raise; without a messages.jsonl migrate is over.
SaveRows ==
  /\ mpc = "tmp" /\ Renamed /\ tmp' = {}
  /\ IF tmp # {} /\ live.there
       THEN mpc' = "move" /\ UNCHANGED <<mrows, mmap, mlines>>
       ELSE MigrateOver
  /\ cut' = (tmp = {} \/ cut)
  /\ overlapped' = IF asking \/ lpc # "wait" THEN Messages ELSE overlapped
  /\ UNCHANGED <<live, aside, lidmap, readerVars, refreshVars, migrates, faults,
                 learned, kept, swept, unsure, split>>

\* A backup is named by the second it is made in: every one is a new file.
LastOnly(lines) == {l[1] : l \in lines}   \* mutant: one backup, replaced each time
KeptAside(lines) == aside \cup {l[1] : l \in lines}

MoveAside ==
  /\ mpc = "move" /\ mpc' = "aside"
  /\ aside' = KeptAside(live.lines) /\ live' = NoFile
  /\ UNCHANGED <<rows, tmp, lidmap, readerVars, refreshVars, mrows, mmap, mlines, migrates, faults, historyVars>>

\* open("w") empties what an append has created meanwhile.
Open ==
  /\ mpc = "aside" /\ mpc' = "opened"
  /\ live' = [there |-> TRUE, lines |-> {}]
  /\ UNCHANGED <<aside, rows, tmp, lidmap, readerVars, refreshVars, mrows, mmap, mlines, migrates, faults, historyVars>>

\* The folded lines are written from the start of the file, over lines
\* appended meanwhile; those the text does not reach survive.
WriteLines ==
  /\ mpc = "opened"
  /\ \E spared \in SUBSET live.lines :
       /\ mlines = {} => spared = live.lines
       /\ live' = [there |-> TRUE, lines |-> mlines \cup spared]
  /\ MigrateOver /\ cut' = FALSE
  /\ UNCHANGED <<aside, rows, tmp, lidmap, readerVars, refreshVars, migrates, faults,
                 learned, kept, swept, overlapped, unsure, split>>

(***************************************************************************)
(* Either process dies.                                                    *)
(***************************************************************************)
Fault == faults < MaxFaults /\ faults' = faults + 1

CrashConnection ==
  /\ Fault /\ (lpc # "wait" \/ asking)
  /\ lpc' = "wait" /\ cur' = 0 /\ lrows' = NoRows
  /\ asking' = FALSE /\ rrows' = NoRows /\ rmap' = {}
  /\ overlapped' = IF mpc # "off" THEN Messages ELSE overlapped \cup ({cur} \ {0})
  /\ UNCHANGED <<fileVars, arrived, refreshes, migrateVars, learned, kept, swept, unsure, cut, split>>

CrashMigrate ==
  /\ Fault /\ mpc # "off" /\ MigrateOver
  /\ cut' = (cut \/ mpc \in {"tmp", "move", "aside", "opened"})
  /\ UNCHANGED <<fileVars, readerVars, refreshVars, migrates, learned, kept, swept, overlapped, unsure, split>>

Next ==
  \/ \E m \in Messages : Append(m)
  \/ LoadRow \/ WriteRow \/ SaveRow
  \/ BeginRefresh \/ (\E p \in Peers : GroupReply(p)) \/ WriteRefresh \/ SaveRefresh
  \/ ReadRows \/ ReadLines \/ WriteRows \/ SaveRows \/ MoveAside \/ Open \/ WriteLines
  \/ CrashConnection \/ CrashMigrate

Spec == Init /\ [][Next]_vars

(***************************************************************************)
(* Properties.                                                             *)
(***************************************************************************)
TypeOK ==
  /\ live.there \in BOOLEAN /\ live.lines \subseteq Messages \X Names /\ aside \subseteq Messages
  /\ rows \in [Names -> 0 .. MsgCount] /\ tmp \subseteq [Names -> 0 .. MsgCount] /\ Cardinality(tmp) <= 1
  /\ lidmap \subseteq Peers /\ rmap \subseteq Peers /\ mmap \subseteq Peers
  /\ lpc \in {"wait", "row", "loaded", "tmp", "refresh"} /\ cur \in 0 .. MsgCount
  /\ mpc \in {"off", "rows", "lines", "tmp", "move", "aside", "opened"}
  /\ asking \in BOOLEAN /\ arrived \subseteq Messages /\ mlines \subseteq Messages \X Names

Lines == {l[1] : l \in live.lines}

\* A line once written stays in messages.jsonl or in a backup of migrate,
\* whatever is interrupted or run again, unless it was appended while
\* migrate had the file aside: "safe to re-run" needs a quiet cache.
NoMessageVanishes == \A m \in kept : m \in Lines \cup aside \cup swept

\* When nobody is at work every line of the cache has a row that is as new
\* as it is, under the name the line carries.  The exceptions: the message
\* came during a group refresh or beside migrate's own copy of the rows, its
\* process died before upsert_chat, or a refresh or a row was written beside
\* a migration; and until it is run again a migrate that ended between the
\* two files.
RowsFollowLines ==
  lpc = "wait" /\ mpc = "off" /\ ~asking /\ ~cut =>
    \A l \in live.lines : rows[l[2]] >= l[1] \/ l[1] \in overlapped

\* Once a message has told both names of a peer no later one is filed under
\* the number, so `wa migrate` has nothing new to fold; a refresh that was
\* waiting when they were told may forget them.
NeverSplitAgain == \A m \in split : Chat[m] \in unsure

=============================================================================
