--------------------------- MODULE WaIndexProofs ----------------------------
(***************************************************************************)
(* Theorems about WaIndex for any peers, groups and messages and any       *)
(* number of refreshes, migrations and crashes: no line vanishes, a row is *)
(* as new as the lines it stands for, and names that have been told as one *)
(* stay one.                                                               *)
(***************************************************************************)
EXTENDS WaIndex, TLAPS, WellFoundedInduction, FiniteSetTheorems

Table == [Names -> 0 .. MsgCount]

\* Types that TypeOK leaves out: copies of the rows, and the histories.
CopiesType ==
  /\ lrows \in Table /\ rrows \in Table /\ mrows \in Table
  /\ overlapped \subseteq Messages /\ cut \in BOOLEAN
  /\ lpc \in {"row", "loaded", "tmp"} => cur \in Messages
  /\ lpc = "refresh" => asking
  /\ ~live.there => live.lines = {}

\* A line that has left the file is aside, or was written while it was.
Swept == mpc \in Rewriting => kept \subseteq aside \cup swept

\* Names that were told are known, also to the refresh that may replace them.
Told ==
  /\ learned \subseteq lidmap \cup unsure
  /\ asking => lidmap \subseteq rmap \cup unsure

\* Two writers of chats.json have met: nothing is claimed of any message.
Blurred == Messages \subseteq overlapped

\* The message whose row is not yet written.
InHand == IF lpc \in {"row", "loaded", "tmp"} THEN {cur} ELSE {}
OwnName(m) == Canonical(<<Form[m], Chat[m]>>, lidmap)

\* Nothing but the lines in hand waits to be folded.
Steady == (mpc \in {"off", "rows", "lines"} /\ ~cut) \/ mpc \in Rewriting

\* A table that is, or may become, chats.json: it is as new as each line under
\* the line's name or, before the lines are folded, under the folded name; and
\* as the folded lines that are about to replace them.
Meets(r, n, m) == r[n] >= m
Fits(r, map, excused, lines) ==
  \A l \in lines : l[1] \in excused \/ Meets(r, l[2], l[1]) \/ Meets(r, Canonical(l[2], map), l[1])
Folds(r, map, excused, lines) ==
  \A l \in lines : l[1] \in excused \/ Meets(r, Canonical(l[2], map), l[1])
Exact(r, excused, lines) == \A l \in lines : l[1] \in excused \/ Meets(r, l[2], l[1])
Sound(r, map, excused) ==
  /\ Fits(r, map, excused, live.lines)
  /\ Steady => Exact(r, excused, live.lines)
  /\ mpc \in {"move"} \cup Rewriting => Exact(r, excused, mlines)

\* Every table that may become chats.json is sound.
RowsSound == Sound(rows, lidmap, overlapped \cup InHand)
ReaderSound ==
  /\ lpc = "loaded" => Sound(lrows, lidmap, overlapped)
  /\ lpc = "tmp" => tmp # {} /\ \A r \in tmp : Sound(r, lidmap, overlapped)
RefreshSound ==
  /\ asking => Sound(rrows, rmap, overlapped) /\ InHand \subseteq overlapped
  /\ lpc = "refresh" => tmp = {rrows}

\* What migrate has read is folded and still holds for the lines there are.
MigrateSound ==
  /\ mpc \in Copied =>
       /\ lpc # "refresh" /\ InHand \subseteq overlapped /\ mmap \subseteq lidmap
       /\ Folds(mrows, mmap, overlapped, live.lines)
  /\ mpc \in {"lines", "tmp"} => Exact(mrows, overlapped, mlines)
  /\ mpc = "tmp" /\ lpc # "tmp" => tmp \subseteq {mrows}

\* Every line belongs to a message that has arrived; the message in hand has
\* one, under the name by which its row will be written.
Arrivals ==
  /\ \A l \in live.lines : l[1] \in arrived
  /\ \A l \in mlines : l[1] \in arrived
  /\ InHand \subseteq arrived
  /\ \A m \in InHand \ overlapped :
       /\ \A l \in live.lines : l[1] = m => l[2] = OwnName(m)
       /\ \A l \in mlines : l[1] # m

AllSound == RowsSound /\ ReaderSound /\ RefreshSound /\ MigrateSound /\ Arrivals

History == Swept /\ Told /\ NoMessageVanishes /\ NeverSplitAgain
IInv    == TypeOK /\ CopiesType /\ History /\ (Blurred \/ AllSound)

\* Largest finds the greatest number of a set of numbers.
LEMMA LargestIs ==
  ASSUME NEW N \in Nat, NEW S \in SUBSET (0 .. N), S # {}
  PROVE  Largest(S) \in S /\ \A y \in S : y <= Largest(S)
<1> DEFINE Above == {b \in 0 .. N : \A y \in S : y <= b}
<1>1. \E x \in Above : \A y \in Above : ~(<<y, x>> \in OpToRel(<, Nat))
  <2>1. N \in Above /\ Above \subseteq Nat
    OBVIOUS
  <2> HIDE DEF Above
  <2> QED
    BY <2>1, NatLessThanWellFounded, WFMin
<1>2. PICK x \in Above : \A y \in Above : x <= y
  <2>1. \A y, x \in Above : ~(<<y, x>> \in OpToRel(<, Nat)) => x <= y
    BY DEF OpToRel
  <2> QED
    BY <1>1, <2>1
<1>3. x \in S
  <2> SUFFICES ASSUME x \notin S PROVE FALSE
    OBVIOUS
  <2>1. \A y \in S : y < x
    OBVIOUS
  <2>2. PICK y \in S : TRUE
    OBVIOUS
  <2>3. x \in Nat /\ y \in Nat /\ y < x
    BY <2>1, <2>2
  <2>4. x - 1 \in Above
    BY <2>1, <2>3
  <2> QED
    BY <1>2, <2>3, <2>4
<1>4. \E z \in S : \A y \in S : y <= z
  BY <1>3
<1> QED
  BY <1>4 DEF Largest

\* canonical_jid keeps the conversation, is idempotent, and a mapping that has
\* grown changes no more than the names it was extended by.
LEMMA CanonicalIs ==
  ASSUME NEW n \in Names, NEW map
  PROVE  /\ Canonical(n, map) \in Names
         /\ Canonical(Canonical(n, map), map) = Canonical(n, map)
         /\ Canonical(n, map)[2] = n[2]
         /\ \A wider : map \subseteq wider => Canonical(n, map) \in {n, Canonical(n, wider)}
  BY DEF Names, Forms, Canonical

\* Folding a table loses no timestamp: the row of a canonical name is as new as
\* that of each name it stands for.
LEMMA FoldedIs ==
  ASSUME NEW r \in Table, NEW map
  PROVE  /\ Folded(r, map) \in Table
         /\ \A n \in Names : /\ Folded(r, map)[Canonical(n, map)] >= r[n]
                             /\ Folded(r, map)[Canonical(n, map)] >= r[Canonical(n, map)]
<1> USE IndexAssumption
<1> DEFINE Same(n) == {r[o] : o \in {x \in Names : Canonical(x, map) = n}}
<1>1. ASSUME NEW n \in Names, Canonical(n, map) = n
      PROVE  Largest(Same(n)) \in 0 .. MsgCount /\ \A o \in Names : Canonical(o, map) = n => Largest(Same(n)) >= r[o]
  <2>1. Same(n) \in SUBSET (0 .. MsgCount) /\ Same(n) # {}
    BY <1>1 DEF Table
  <2>2. \A o \in Names : Canonical(o, map) = n => r[o] \in Same(n)
    OBVIOUS
  <2> HIDE DEF Same
  <2>3. Largest(Same(n)) \in Same(n) /\ \A y \in Same(n) : y <= Largest(Same(n))
    BY <2>1, LargestIs
  <2>4. \A o \in Names : r[o] \in Nat
    BY DEF Table
  <2> QED
    BY <2>1, <2>2, <2>3, <2>4
<1>2. Folded(r, map) = [n \in Names |-> IF Canonical(n, map) # n THEN 0 ELSE Largest(Same(n))]
  BY DEF Folded
<1> HIDE DEF Same
<1>3. Folded(r, map) \in Table
  BY <1>1, <1>2 DEF Table
<1>4. ASSUME NEW n \in Names
      PROVE  /\ Folded(r, map)[Canonical(n, map)] >= r[n]
             /\ Folded(r, map)[Canonical(n, map)] >= r[Canonical(n, map)]
  BY <1>1, <1>2, CanonicalIs
<1> QED
  BY <1>3, <1>4

\* upsert_chat makes one row as new as its message and no row older.
LEMMA UpsertedIs ==
  ASSUME NEW r \in Table, NEW m \in Messages
  PROVE  /\ Upserted(r, m) \in Table
         /\ \A n \in Names : Upserted(r, m)[n] >= r[n]
         /\ OwnName(m) \in Names /\ Upserted(r, m)[OwnName(m)] >= m
<1> USE IndexAssumption
<1>1. OwnName(m) \in Names
  BY CanonicalIs DEF OwnName, Names
<1> DEFINE old == r[OwnName(m)]
<1>2. old \in 0 .. MsgCount /\ m \in 0 .. MsgCount
  BY <1>1 DEF Table, Messages
<1>3. Largest({old, m}) \in 0 .. MsgCount /\ Largest({old, m}) >= old /\ Largest({old, m}) >= m
  <2>1. {old, m} \in SUBSET (0 .. MsgCount) /\ {old, m} # {}
    BY <1>2
  <2>2. Largest({old, m}) \in {old, m} /\ \A y \in {old, m} : y <= Largest({old, m})
    BY <2>1, LargestIs
  <2> QED
    BY <1>2, <2>2
<1>4. Upserted(r, m) = [r EXCEPT ![OwnName(m)] = Largest({old, m})]
  BY DEF Upserted, OwnName
<1> HIDE DEF old
<1>5. Upserted(r, m) \in Table
  BY <1>1, <1>3, <1>4 DEF Table
<1>6. ASSUME NEW n \in Names PROVE Upserted(r, m)[n] >= r[n]
  BY <1>1, <1>3, <1>4 DEF Table, old
<1>7. Upserted(r, m)[OwnName(m)] >= m
  BY <1>1, <1>3, <1>4 DEF Table
<1> QED
  BY <1>1, <1>5, <1>6, <1>7

\* Cardinalities of the one-file chats.tmp, and the type of no rows at all.
LEMMA TableFacts == NoRows \in Table /\ Cardinality({}) = 0 /\ \A r : Cardinality({r}) = 1
<1>1. NoRows \in Table
  BY IndexAssumption DEF NoRows, Table
<1>2. Cardinality({}) = 0 /\ \A r : Cardinality({r}) = 1
  BY FS_EmptySet, FS_Singleton
<1> QED
  BY <1>1, <1>2

\* What is renamed to chats.json has the type of chats.json.
LEMMA RenamedIs ==
  ASSUME TypeOK, Renamed
  PROVE  rows' \in Table
  BY DEF TypeOK, Renamed, Table

\* Every step keeps the types.
LEMMA TypeStep == TypeOK /\ CopiesType /\ [Next]_vars => TypeOK' /\ CopiesType'
<1> SUFFICES ASSUME TypeOK, CopiesType, [Next]_vars PROVE TypeOK' /\ CopiesType'
  OBVIOUS
<1> USE IndexAssumption DEF TypeOK, CopiesType, vars, fileVars, readerVars, refreshVars,
        migrateVars, historyVars
<1>1. ASSUME NEW m \in Messages, Append(m) PROVE TypeOK' /\ CopiesType'
  <2>1. TypeOK'
    <3>1. lidmap' \subseteq Peers /\ arrived' \subseteq Messages /\ cur' \in 0 .. MsgCount
      BY <1>1 DEF Append, Harvested, Messages
    <3>2. <<Form[m], Chat[m]>> \in Names
      BY DEF Names
    <3>3. live'.lines \subseteq Messages \X Names /\ live'.there \in BOOLEAN
      <4>1. live' = [there |-> TRUE, lines |-> live.lines \cup {<<m, Canonical(<<Form[m], Chat[m]>>, lidmap')>>}]
        BY <1>1 DEF Append
      <4> QED
        BY <4>1, <3>2, CanonicalIs
    <3> QED
      BY <1>1, <3>1, <3>3 DEF Append
  <2>2. CopiesType'
    BY <1>1, TableFacts DEF Append, Harvested, Canonical, Rewriting, Copied, Table
  <2> QED
    BY <2>1, <2>2
<1>2. ASSUME LoadRow PROVE TypeOK' /\ CopiesType'
  <2>1. TypeOK'
    BY <1>2, TableFacts DEF LoadRow, Table
  <2>2. CopiesType'
    <3>1. lrows' \in Table
      BY <1>2, UpsertedIs DEF LoadRow, Table
    <3> QED
      BY <1>2, <3>1 DEF LoadRow
  <2> QED
    BY <2>1, <2>2
<1>3. ASSUME WriteRow PROVE TypeOK' /\ CopiesType'
  <2>1. TypeOK'
    <3>1. tmp' = {lrows}
      BY <1>3 DEF WriteRow
    <3>2. Cardinality(tmp') = 1
      BY <3>1, FS_Singleton, Zenon
    <3> QED
      BY <1>3, <3>1, <3>2 DEF WriteRow, Table
  <2>2. CopiesType'
    BY <1>3, TableFacts DEF WriteRow, Table
  <2> QED
    BY <2>1, <2>2
<1>4. ASSUME SaveRow PROVE TypeOK' /\ CopiesType'
  <2>1. TypeOK'
    BY <1>4, TableFacts, RenamedIs DEF SaveRow, Table
  <2>2. CopiesType'
    BY <1>4, TableFacts DEF SaveRow
  <2> QED
    BY <2>1, <2>2
<1>5. ASSUME BeginRefresh PROVE TypeOK' /\ CopiesType'
  <2>1. TypeOK'
    BY <1>5, TableFacts DEF BeginRefresh, Table
  <2>2. CopiesType'
    BY <1>5, TableFacts DEF BeginRefresh, Table
  <2> QED
    BY <2>1, <2>2
<1>6. ASSUME NEW p \in Peers, GroupReply(p) PROVE TypeOK' /\ CopiesType'
  <2>1. TypeOK'
    BY <1>6, TableFacts DEF GroupReply, Table
  <2>2. CopiesType'
    BY <1>6, TableFacts DEF GroupReply, Table
  <2> QED
    BY <2>1, <2>2
<1>7. ASSUME WriteRefresh PROVE TypeOK' /\ CopiesType'
  <2>1. TypeOK'
    <3>1. tmp' = {rrows}
      BY <1>7 DEF WriteRefresh
    <3>2. Cardinality(tmp') = 1
      BY <3>1, FS_Singleton, Zenon
    <3> QED
      BY <1>7, <3>1, <3>2 DEF WriteRefresh, Table
  <2>2. CopiesType'
    BY <1>7, TableFacts DEF WriteRefresh, Table
  <2> QED
    BY <2>1, <2>2
<1>8. ASSUME SaveRefresh PROVE TypeOK' /\ CopiesType'
  <2>1. TypeOK'
    <3>1. tmp' = {} /\ rows' \in Table /\ lidmap' \subseteq Peers /\ rmap' = {} /\ asking' = FALSE /\ lpc' = "wait"
      BY <1>8, RenamedIs DEF SaveRefresh
    <3>2. UNCHANGED <<live, aside, cur, migrateVars, arrived>>
      BY <1>8 DEF SaveRefresh
    <3>3. tmp' \subseteq Table /\ Cardinality(tmp') <= 1
      BY <3>1, TableFacts
    <3> QED
      BY <3>1, <3>2, <3>3 DEF Table
  <2>2. CopiesType'
    BY <1>8, TableFacts DEF SaveRefresh
  <2> QED
    BY <2>1, <2>2
<1>9. ASSUME ReadRows PROVE TypeOK' /\ CopiesType'
  <2>1. TypeOK'
    BY <1>9, TableFacts DEF ReadRows, Table
  <2>2. CopiesType'
    <3>1. mrows' \in Table
      BY <1>9, FoldedIs DEF ReadRows, Table
    <3> QED
      BY <1>9, <3>1 DEF ReadRows
  <2> QED
    BY <2>1, <2>2
<1>10. ASSUME ReadLines PROVE TypeOK' /\ CopiesType'
  <2>1. TypeOK'
    <3>1. mlines' \subseteq Messages \X Names
      BY <1>10, CanonicalIs DEF ReadLines
    <3> QED
      BY <1>10, <3>1 DEF ReadLines
  <2>2. CopiesType'
    BY <1>10, TableFacts DEF ReadLines, Table
  <2> QED
    BY <2>1, <2>2
<1>11. ASSUME WriteRows PROVE TypeOK' /\ CopiesType'
  <2>1. TypeOK'
    <3>1. tmp' = {mrows}
      BY <1>11 DEF WriteRows
    <3>2. Cardinality(tmp') = 1
      BY <3>1, FS_Singleton, Zenon
    <3> QED
      BY <1>11, <3>1, <3>2 DEF WriteRows, Table
  <2>2. CopiesType'
    BY <1>11, TableFacts DEF WriteRows, Table
  <2> QED
    BY <2>1, <2>2
<1>12. ASSUME SaveRows PROVE TypeOK' /\ CopiesType'
  <2>1. TypeOK'
    <3>1. mpc' \in {"off", "move"} /\ mmap' \subseteq Peers /\ mlines' \subseteq Messages \X Names
      BY <1>12 DEF SaveRows, MigrateOver
    <3> QED
      BY <1>12, <3>1, TableFacts, RenamedIs DEF SaveRows, Table
  <2>2. CopiesType'
    <3>1. mrows' \in Table
      BY <1>12, TableFacts DEF SaveRows, MigrateOver
    <3> QED
      BY <1>12, <3>1 DEF SaveRows
  <2> QED
    BY <2>1, <2>2
<1>13. ASSUME MoveAside PROVE TypeOK' /\ CopiesType'
  <2>1. TypeOK'
    BY <1>13, TableFacts DEF MoveAside, KeptAside, NoFile, Table
  <2>2. CopiesType'
    BY <1>13, TableFacts DEF MoveAside, KeptAside, NoFile, Table
  <2> QED
    BY <2>1, <2>2
<1>14. ASSUME Open PROVE TypeOK' /\ CopiesType'
  <2>1. TypeOK'
    BY <1>14, TableFacts DEF Open, Table
  <2>2. CopiesType'
    BY <1>14, TableFacts DEF Open, Table
  <2> QED
    BY <2>1, <2>2
<1>15. ASSUME WriteLines PROVE TypeOK' /\ CopiesType'
  <2>1. TypeOK'
    BY <1>15, TableFacts DEF WriteLines, MigrateOver, Table
  <2>2. CopiesType'
    <3>1. /\ live'.there = TRUE /\ cut' = FALSE /\ mrows' = NoRows
          /\ UNCHANGED <<lrows, rrows, overlapped, lpc, cur, asking>>
      BY <1>15 DEF WriteLines, MigrateOver
    <3> QED
      BY <3>1, TableFacts
  <2> QED
    BY <2>1, <2>2
<1>16. ASSUME CrashConnection PROVE TypeOK' /\ CopiesType'
  <2>1. TypeOK'
    <3>1. /\ lpc' = "wait" /\ cur' = 0 /\ rmap' = {} /\ asking' = FALSE
          /\ UNCHANGED <<fileVars, arrived, migrateVars>>
      BY <1>16 DEF CrashConnection
    <3>2. live'.there \in BOOLEAN /\ live'.lines \subseteq Messages \X Names /\ mlines' \subseteq Messages \X Names
      BY <3>1
    <3>3. cur' \in 0 .. MsgCount /\ Cardinality(tmp') <= 1 /\ rows' \in [Names -> 0 .. MsgCount]
      BY <3>1
    <3> QED
      BY <3>1, <3>2, <3>3
  <2>2. CopiesType'
    <3>1. overlapped' \subseteq Messages
      BY <1>16 DEF CrashConnection, Messages
    <3> QED
      BY <1>16, <3>1, TableFacts DEF CrashConnection
  <2> QED
    BY <2>1, <2>2
<1>17. ASSUME CrashMigrate PROVE TypeOK' /\ CopiesType'
  <2>1. TypeOK'
    BY <1>17, TableFacts DEF CrashMigrate, Fault, MigrateOver, Table
  <2>2. CopiesType'
    BY <1>17, TableFacts DEF CrashMigrate, Fault, MigrateOver, Table
  <2> QED
    BY <2>1, <2>2
<1>18. CASE UNCHANGED vars
  BY <1>18
<1> HIDE DEF TypeOK
<1> QED
  BY <1>1, <1>2, <1>3, <1>4, <1>5, <1>6, <1>7, <1>8, <1>9, <1>10, <1>11, <1>12, <1>13, <1>14,
     <1>15, <1>16,
    <1>17, <1>18 DEF Next

\* Every step keeps the four facts about the lines and the names told.
LEMMA HistoryStep == TypeOK /\ CopiesType /\ History /\ [Next]_vars => History'
<1> SUFFICES ASSUME TypeOK, CopiesType, History, [Next]_vars PROVE History'
  OBVIOUS
<1> USE IndexAssumption DEF TypeOK, CopiesType, History, vars, fileVars, readerVars, refreshVars,
        migrateVars, historyVars
<1>1. ASSUME NEW m \in Messages, Append(m) PROVE History'
  <2>1. /\ live' = [there |-> TRUE, lines |-> live.lines \cup {<<m, Canonical(<<Form[m], Chat[m]>>, lidmap')>>}]
        /\ kept' = kept \cup {m} /\ aside' = aside /\ mpc' = mpc
        /\ swept' = IF mpc \in Rewriting THEN swept \cup {m} ELSE swept
    BY <1>1 DEF Append
  <2>5. live'.lines = live.lines \cup {<<m, Canonical(<<Form[m], Chat[m]>>, lidmap')>>}
    BY <2>1
  <2>6. <<m, Canonical(<<Form[m], Chat[m]>>, lidmap')>>[1] = m
    OBVIOUS
  <2>7. \A l \in live'.lines : l[1] \in Lines'
    BY DEF Lines
  <2>2. Lines \subseteq Lines' /\ m \in Lines'
    BY <2>5, <2>6, <2>7 DEF Lines
  <2>3. Swept' /\ NoMessageVanishes'
    BY <2>1, <2>2 DEF Swept, NoMessageVanishes, Rewriting
  <2>4. Told' /\ NeverSplitAgain'
    BY <1>1 DEF Append, Harvested, Canonical, Told, NeverSplitAgain
  <2> QED
    BY <2>3, <2>4
<1>2. ASSUME LoadRow PROVE History'
  <2>1. Swept' /\ NoMessageVanishes'
    BY <1>2 DEF LoadRow, Swept, NoMessageVanishes, Lines, Rewriting
  <2>2. Told' /\ NeverSplitAgain'
    BY <1>2 DEF LoadRow, Told, NeverSplitAgain
  <2> QED
    BY <2>1, <2>2
<1>3. ASSUME WriteRow PROVE History'
  <2>1. Swept' /\ NoMessageVanishes'
    BY <1>3 DEF WriteRow, Swept, NoMessageVanishes, Lines, Rewriting
  <2>2. Told' /\ NeverSplitAgain'
    BY <1>3 DEF WriteRow, Told, NeverSplitAgain
  <2> QED
    BY <2>1, <2>2
<1>4. ASSUME SaveRow PROVE History'
  <2>1. Swept' /\ NoMessageVanishes'
    BY <1>4 DEF SaveRow, Renamed, Swept, NoMessageVanishes, Lines, Rewriting
  <2>2. Told' /\ NeverSplitAgain'
    BY <1>4 DEF SaveRow, Renamed, Told, NeverSplitAgain
  <2> QED
    BY <2>1, <2>2
<1>5. ASSUME BeginRefresh PROVE History'
  <2>1. Swept' /\ NoMessageVanishes'
    BY <1>5 DEF BeginRefresh, Swept, NoMessageVanishes, Lines, Rewriting
  <2>2. Told' /\ NeverSplitAgain'
    BY <1>5 DEF BeginRefresh, Told, NeverSplitAgain
  <2> QED
    BY <2>1, <2>2
<1>6. ASSUME NEW p \in Peers, GroupReply(p) PROVE History'
  <2>1. Swept' /\ NoMessageVanishes'
    BY <1>6 DEF GroupReply, Swept, NoMessageVanishes, Lines, Rewriting
  <2>2. Told' /\ NeverSplitAgain'
    BY <1>6 DEF GroupReply, Told, NeverSplitAgain
  <2> QED
    BY <2>1, <2>2
<1>7. ASSUME WriteRefresh PROVE History'
  <2>1. Swept' /\ NoMessageVanishes'
    BY <1>7 DEF WriteRefresh, Swept, NoMessageVanishes, Lines, Rewriting
  <2>2. Told' /\ NeverSplitAgain'
    BY <1>7 DEF WriteRefresh, Told, NeverSplitAgain
  <2> QED
    BY <2>1, <2>2
<1>8. ASSUME SaveRefresh PROVE History'
  <2>1. Swept' /\ NoMessageVanishes'
    BY <1>8 DEF SaveRefresh, Renamed, Swept, NoMessageVanishes, Lines, Rewriting
  <2>2. Told' /\ NeverSplitAgain'
    BY <1>8 DEF SaveRefresh, Renamed, Told, NeverSplitAgain
  <2> QED
    BY <2>1, <2>2
<1>9. ASSUME ReadRows PROVE History'
  <2>1. Swept' /\ NoMessageVanishes'
    BY <1>9 DEF ReadRows, Swept, NoMessageVanishes, Lines, Rewriting
  <2>2. Told' /\ NeverSplitAgain'
    BY <1>9 DEF ReadRows, Told, NeverSplitAgain
  <2> QED
    BY <2>1, <2>2
<1>10. ASSUME ReadLines PROVE History'
  <2>1. Swept' /\ NoMessageVanishes'
    BY <1>10 DEF ReadLines, Swept, NoMessageVanishes, Lines, Rewriting
  <2>2. Told' /\ NeverSplitAgain'
    BY <1>10 DEF ReadLines, Told, NeverSplitAgain
  <2> QED
    BY <2>1, <2>2
<1>11. ASSUME WriteRows PROVE History'
  <2>1. Swept' /\ NoMessageVanishes'
    BY <1>11 DEF WriteRows, Swept, NoMessageVanishes, Lines, Rewriting
  <2>2. Told' /\ NeverSplitAgain'
    BY <1>11 DEF WriteRows, Told, NeverSplitAgain
  <2> QED
    BY <2>1, <2>2
<1>12. ASSUME SaveRows PROVE History'
  <2>1. Swept' /\ NoMessageVanishes'
    BY <1>12 DEF SaveRows, Renamed, MigrateOver, Swept, NoMessageVanishes, Lines, Rewriting
  <2>2. Told' /\ NeverSplitAgain'
    BY <1>12 DEF SaveRows, Renamed, MigrateOver, Told, NeverSplitAgain
  <2> QED
    BY <2>1, <2>2
<1>13. ASSUME MoveAside PROVE History'
  <2>1. Swept' /\ NoMessageVanishes'
    BY <1>13 DEF MoveAside, KeptAside, NoFile, Swept, NoMessageVanishes, Lines, Rewriting
  <2>2. Told' /\ NeverSplitAgain'
    BY <1>13 DEF MoveAside, KeptAside, NoFile, Told, NeverSplitAgain
  <2> QED
    BY <2>1, <2>2
<1>14. ASSUME Open PROVE History'
  <2>1. Swept' /\ NoMessageVanishes'
    BY <1>14 DEF Open, Swept, NoMessageVanishes, Lines, Rewriting
  <2>2. Told' /\ NeverSplitAgain'
    BY <1>14 DEF Open, Told, NeverSplitAgain
  <2> QED
    BY <2>1, <2>2
<1>15. ASSUME WriteLines PROVE History'
  <2>1. Swept' /\ NoMessageVanishes'
    BY <1>15 DEF WriteLines, MigrateOver, Swept, NoMessageVanishes, Lines, Rewriting
  <2>2. Told' /\ NeverSplitAgain'
    BY <1>15 DEF WriteLines, MigrateOver, Told, NeverSplitAgain
  <2> QED
    BY <2>1, <2>2
<1>16. ASSUME CrashConnection PROVE History'
  <2>1. Swept' /\ NoMessageVanishes'
    BY <1>16 DEF CrashConnection, Fault, Swept, NoMessageVanishes, Lines, Rewriting
  <2>2. Told' /\ NeverSplitAgain'
    BY <1>16 DEF CrashConnection, Fault, Told, NeverSplitAgain
  <2> QED
    BY <2>1, <2>2
<1>17. ASSUME CrashMigrate PROVE History'
  <2>1. Swept' /\ NoMessageVanishes'
    BY <1>17 DEF CrashMigrate, Fault, MigrateOver, Swept, NoMessageVanishes, Lines, Rewriting
  <2>2. Told' /\ NeverSplitAgain'
    BY <1>17 DEF CrashMigrate, Fault, MigrateOver, Told, NeverSplitAgain
  <2> QED
    BY <2>1, <2>2
<1>18. CASE UNCHANGED vars
  BY <1>18 DEF Swept, NoMessageVanishes, Lines, Told, NeverSplitAgain
<1> HIDE DEF TypeOK
<1> QED
  BY <1>1, <1>2, <1>3, <1>4, <1>5, <1>6, <1>7, <1>8, <1>9, <1>10, <1>11, <1>12, <1>13, <1>14,
     <1>15, <1>16,
    <1>17, <1>18 DEF Next

\* What a table says of the lines stays true of a newer table, more names known
\* to be one, more excused messages and fewer lines.
LEMMA Wider ==
  ASSUME NEW r \in Table, NEW wide \in Table, \A n \in Names : wide[n] >= r[n],
         NEW map, NEW more, map \subseteq more, NEW E, NEW F, E \subseteq F,
         NEW L \in SUBSET (Messages \X Names), NEW K \in SUBSET L
  PROVE  /\ Fits(r, map, E, L) => Fits(wide, more, F, K)
         /\ Exact(r, E, L) => Exact(wide, F, K)
<1>1. ASSUME NEW l \in K PROVE /\ l[1] \in Nat /\ l[2] \in Names /\ wide[l[2]] \in Nat /\ r[l[2]] \in Nat
                               /\ Canonical(l[2], map) \in {l[2], Canonical(l[2], more)}
                               /\ Canonical(l[2], more) \in Names /\ wide[Canonical(l[2], more)] \in Nat
                               /\ r[Canonical(l[2], more)] \in Nat
  BY CanonicalIs, IndexAssumption DEF Messages, Table
<1> QED
  BY <1>1 DEF Fits, Exact, Meets

\* A table made as new as a message under its own name needs no excuse for it.
LEMMA OneMore ==
  ASSUME NEW r \in Table, NEW wide \in Table, \A n \in Names : wide[n] >= r[n],
         NEW map, NEW E, NEW m \in Messages, NEW n \in Names, wide[n] >= m,
         NEW L \in SUBSET (Messages \X Names),
         m \in E \/ \A l \in L : l[1] = m => l[2] = n
  PROVE  /\ Fits(r, map, E \cup {m}, L) => Fits(wide, map, E, L)
         /\ Exact(r, E \cup {m}, L) => Exact(wide, E, L)
<1>1. ASSUME NEW l \in L PROVE /\ l[1] \in Nat /\ l[2] \in Names /\ wide[l[2]] \in Nat /\ r[l[2]] \in Nat
                               /\ Canonical(l[2], map) \in Names /\ wide[Canonical(l[2], map)] \in Nat
                               /\ r[Canonical(l[2], map)] \in Nat
  BY CanonicalIs, IndexAssumption DEF Messages, Table
<1> QED
  BY <1>1 DEF Fits, Exact, Meets

\* Folding: rows that fit the lines fit the folded lines, and conversely folded
\* rows fit lines that are yet to be folded.
LEMMA FoldFits ==
  ASSUME NEW r \in Table, NEW map, NEW E, NEW L \in SUBSET (Messages \X Names)
  PROVE  /\ Fits(r, map, E, L) => Folds(Folded(r, map), map, E, L)
         /\ \A more : map \subseteq more /\ Folds(r, map, E, L) => Fits(r, more, E, L)
         /\ Folds(r, map, E, L) => Exact(r, E, {<<l[1], Canonical(l[2], map)>> : l \in L})
<1>1. Fits(r, map, E, L) => Folds(Folded(r, map), map, E, L)
  <2>1. ASSUME NEW l \in L PROVE /\ l[1] \in Nat /\ l[2] \in Names /\ r[l[2]] \in Nat
                               /\ Canonical(l[2], map) \in Names /\ Folded(r, map)[Canonical(l[2], map)] \in Nat
                               /\ r[Canonical(l[2], map)] \in Nat
                               /\ Folded(r, map)[Canonical(l[2], map)] >= r[l[2]]
                               /\ Folded(r, map)[Canonical(l[2], map)] >= r[Canonical(l[2], map)]
    BY CanonicalIs, FoldedIs, IndexAssumption DEF Messages, Table
  <2> QED
    BY <2>1 DEF Fits, Folds, Meets
<1>2. ASSUME NEW more, map \subseteq more, Folds(r, map, E, L) PROVE Fits(r, more, E, L)
  <2>1. \A l \in L : Canonical(l[2], map) \in {l[2], Canonical(l[2], more)}
    BY <1>2, CanonicalIs
  <2> QED
    BY <1>2, <2>1 DEF Fits, Folds
<1>3. Folds(r, map, E, L) => Exact(r, E, {<<l[1], Canonical(l[2], map)>> : l \in L})
  BY DEF Folds, Exact
<1> QED
  BY <1>1, <1>2, <1>3

\* A line of an excused message is no harm.
LEMMA OneLine ==
  ASSUME NEW r, NEW map, NEW more, map \subseteq more, NEW E, NEW F, E \subseteq F,
         NEW L \in SUBSET (Messages \X Names), NEW m \in F, NEW n
  PROVE  /\ Fits(r, map, E, L) => Fits(r, more, F, L \cup {<<m, n>>})
         /\ Exact(r, E, L) => Exact(r, F, L \cup {<<m, n>>})
         /\ Folds(r, map, E, L) => Folds(r, map, F, L \cup {<<m, n>>})
<1>1. <<m, n>>[1] \in F
  OBVIOUS
<1>2. \A l \in L : l[2] \in Names /\ Canonical(l[2], map) \in {l[2], Canonical(l[2], more)}
  BY CanonicalIs
<1> QED
  BY <1>1, <1>2 DEF Fits, Exact, Folds

\* Every step keeps each table that may become chats.json sound, unless two
\* writers of chats.json have met.
LEMMA RowsStep ==
  TypeOK /\ TypeOK' /\ CopiesType /\ CopiesType' /\ (Blurred \/ AllSound) /\ [Next]_vars => Blurred' \/ AllSound'
<1> SUFFICES ASSUME TypeOK, TypeOK', CopiesType, CopiesType', Blurred \/ AllSound, [Next]_vars, ~Blurred'
             PROVE  AllSound'
  OBVIOUS
<1> USE IndexAssumption DEF vars, fileVars, readerVars, refreshVars, migrateVars, historyVars
<1>a. AllSound
  BY DEF Blurred, Next, Append, LoadRow, WriteRow, SaveRow, BeginRefresh, GroupReply, WriteRefresh,
    SaveRefresh, ReadRows, ReadLines, WriteRows, SaveRows, MoveAside, Open, WriteLines, CrashConnection,
    CrashMigrate
<1> USE <1>a
<1>1. ASSUME NEW m \in Messages, Append(m) PROVE AllSound'
  <2>a. PICK n : live'.lines = live.lines \cup {<<m, n>>} /\ n = OwnName(m)'
    <3>1. live'.lines = live.lines \cup {<<m, OwnName(m)'>>}
      BY <1>1 DEF Append, OwnName
    <3> QED
      BY <3>1
  <2>b. /\ lidmap \subseteq lidmap' /\ overlapped \subseteq overlapped' /\ InHand = {} /\ InHand' = {m}
        /\ UNCHANGED <<rows, tmp, lrows, asking, rrows, rmap, mpc, mrows, mmap, mlines, cut>>
        /\ arrived' = arrived \cup {m} /\ m \notin arrived /\ lpc = "wait" /\ lpc' = "row"
    BY <1>1 DEF Append, Harvested, InHand
  <2>c. asking \/ mpc \in Copied => m \in overlapped'
    BY <1>1 DEF Append
  <2>d. live.lines \in SUBSET (Messages \X Names)
    BY DEF TypeOK
  <2>e. mlines \in SUBSET (Messages \X Names) /\ rows \in Table /\ rrows \in Table
    BY DEF TypeOK, CopiesType, Table
  <2>1. RowsSound'
    <3>1. /\ Fits(rows, lidmap', overlapped' \cup {m}, live'.lines)
          /\ Exact(rows, overlapped, live.lines) => Exact(rows, overlapped' \cup {m}, live'.lines)
      <4>1. Fits(rows, lidmap, overlapped, live.lines)
        BY <2>b DEF AllSound, RowsSound, Sound
      <4>2. overlapped \subseteq overlapped' \cup {m} /\ m \in overlapped' \cup {m}
        BY <2>b
      <4>3. ASSUME NEW F, overlapped \subseteq F, m \in F
            PROVE  /\ Fits(rows, lidmap', F, live.lines \cup {<<m, n>>})
                   /\ Exact(rows, overlapped, live.lines) => Exact(rows, F, live.lines \cup {<<m, n>>})
        <5>1. lidmap \subseteq lidmap'
          BY <2>b
        <5>2. Fits(rows, lidmap', F, live.lines \cup {<<m, n>>})
          BY <2>d, <4>1, <4>3, <5>1, OneLine
        <5>3. Exact(rows, overlapped, live.lines) => Exact(rows, F, live.lines \cup {<<m, n>>})
          <6>1. <<m, n>>[1] \in F
            BY <4>3
          <6> QED
            BY <4>3, <6>1 DEF Exact
        <5> QED
          BY <5>2, <5>3
      <4> QED
        BY <2>a, <4>2, <4>3
    <3>2. Exact(rows, overlapped, mlines) => Exact(rows, overlapped' \cup {m}, mlines)
      BY <2>b DEF Exact
    <3> QED
      BY <2>b, <3>1, <3>2 DEF AllSound, RowsSound, Sound, Steady
  <2>2. ReaderSound'
    BY <2>b DEF ReaderSound
  <2>3. RefreshSound'
    <3>1. CASE asking
      <4>1. /\ Fits(rrows, rmap, overlapped', live'.lines)
            /\ Exact(rrows, overlapped, live.lines) => Exact(rrows, overlapped', live'.lines)
        <5>1. Fits(rrows, rmap, overlapped, live.lines)
          BY <3>1 DEF AllSound, RefreshSound, Sound
        <5>2. rmap \subseteq rmap
          OBVIOUS
        <5>3. /\ Fits(rrows, rmap, overlapped', live.lines \cup {<<m, n>>})
              /\ Exact(rrows, overlapped, live.lines) => Exact(rrows, overlapped', live.lines \cup {<<m, n>>})
          BY <2>b, <2>c, <2>d, <3>1, <5>1, <5>2, OneLine
        <5> QED
          BY <2>a, <5>3
      <4>2. Exact(rrows, overlapped, mlines) => Exact(rrows, overlapped', mlines)
        BY <2>b DEF Exact
      <4> QED
        BY <2>b, <2>c, <4>1, <4>2 DEF AllSound, RefreshSound, Sound, Steady
    <3> QED
      BY <2>b, <3>1 DEF RefreshSound
  <2>4. MigrateSound'
    <3>1. mpc \in Copied => Folds(mrows, mmap, overlapped', live'.lines)
      <4>1. ASSUME mpc \in Copied PROVE Folds(mrows, mmap, overlapped', live.lines \cup {<<m, n>>})
        <5>1. Folds(mrows, mmap, overlapped, live.lines) /\ mmap \subseteq mmap /\ m \in overlapped'
          BY <2>c, <4>1 DEF AllSound, MigrateSound
        <5> QED
          BY <2>b, <2>d, <5>1, OneLine
      <4> QED
        BY <2>a, <4>1
    <3>2. Exact(mrows, overlapped, mlines) => Exact(mrows, overlapped', mlines)
      BY <2>b DEF Exact
    <3> QED
      BY <2>b, <2>c, <3>1, <3>2 DEF AllSound, MigrateSound
  <2>5. Arrivals'
    <3>1. \A l \in live.lines \cup mlines : l[1] \in arrived
      BY DEF AllSound, Arrivals
    <3> QED
      BY <2>a, <2>b, <3>1 DEF Arrivals
  <2> QED
    BY <2>1, <2>2, <2>3, <2>4, <2>5 DEF AllSound
<1>2. ASSUME LoadRow PROVE AllSound'
  <2>1. RowsSound'
    BY <1>2 DEF LoadRow, AllSound, RowsSound, Sound, Steady, InHand
  <2>2. ReaderSound'
    <3>1. /\ lpc = "row" /\ lpc' = "loaded" /\ lrows' = Upserted(rows, cur) /\ InHand = {cur} /\ cur \in Messages
          /\ UNCHANGED <<live, lidmap, mpc, mlines, cut, overlapped>>
      BY <1>2 DEF LoadRow, InHand, CopiesType
    <3>2. /\ rows \in Table /\ lrows' \in Table /\ \A n \in Names : lrows'[n] >= rows[n]
          /\ OwnName(cur) \in Names /\ lrows'[OwnName(cur)] >= cur
      BY <3>1, UpsertedIs DEF TypeOK, Table
    <3>3. /\ cur \in overlapped \/ \A l \in live.lines : l[1] = cur => l[2] = OwnName(cur)
          /\ cur \in overlapped \/ \A l \in mlines : l[1] = cur => l[2] = OwnName(cur)
      BY <3>1 DEF AllSound, Arrivals
    <3>4. live.lines \in SUBSET (Messages \X Names) /\ mlines \in SUBSET (Messages \X Names)
      BY DEF TypeOK
    <3>5. /\ Fits(rows, lidmap, overlapped \cup {cur}, live.lines) => Fits(lrows', lidmap, overlapped, live.lines)
          /\ Exact(rows, overlapped \cup {cur}, live.lines) => Exact(lrows', overlapped, live.lines)
      BY <3>1, <3>2, <3>3, <3>4, OneMore
    <3>6. Exact(rows, overlapped \cup {cur}, mlines) => Exact(lrows', overlapped, mlines)
      BY <3>1, <3>2, <3>3, <3>4, OneMore
    <3> QED
      BY <3>1, <3>5, <3>6 DEF AllSound, RowsSound, ReaderSound, Sound, Steady
  <2>3. RefreshSound'
    BY <1>2 DEF LoadRow, AllSound, RefreshSound, Sound, Steady, InHand
  <2>4. MigrateSound'
    BY <1>2 DEF LoadRow, AllSound, MigrateSound, InHand
  <2>5. Arrivals'
    BY <1>2 DEF LoadRow, AllSound, Arrivals, InHand, OwnName
  <2> QED
    BY <2>1, <2>2, <2>3, <2>4, <2>5 DEF AllSound
<1>3. ASSUME WriteRow PROVE AllSound'
  <2>1. RowsSound'
    BY <1>3 DEF WriteRow, AllSound, RowsSound, Sound, Steady, InHand
  <2>2. ReaderSound'
    BY <1>3 DEF WriteRow, AllSound, ReaderSound, Sound, Steady
  <2>3. RefreshSound'
    BY <1>3 DEF WriteRow, AllSound, RefreshSound, Sound, Steady, InHand
  <2>4. MigrateSound'
    BY <1>3 DEF WriteRow, AllSound, MigrateSound, InHand
  <2>5. Arrivals'
    BY <1>3 DEF WriteRow, AllSound, Arrivals, InHand, OwnName
  <2> QED
    BY <2>1, <2>2, <2>3, <2>4, <2>5 DEF AllSound
<1>4. ASSUME SaveRow PROVE AllSound'
  <2>1. RowsSound'
    BY <1>4 DEF SaveRow, Renamed, AllSound, RowsSound, ReaderSound, Sound, Steady, InHand
  <2>2. ReaderSound'
    BY <1>4 DEF SaveRow, ReaderSound
  <2>3. RefreshSound'
    BY <1>4 DEF SaveRow, AllSound, RefreshSound, Sound, Steady, InHand
  <2>4. MigrateSound'
    BY <1>4 DEF SaveRow, AllSound, MigrateSound, InHand
  <2>5. Arrivals'
    BY <1>4 DEF SaveRow, AllSound, Arrivals, InHand
  <2> QED
    BY <2>1, <2>2, <2>3, <2>4, <2>5 DEF AllSound
<1>5. ASSUME BeginRefresh PROVE AllSound'
  <2>1. RowsSound'
    BY <1>5 DEF BeginRefresh, AllSound, RowsSound, Sound, Steady, InHand
  <2>2. ReaderSound'
    BY <1>5 DEF BeginRefresh, ReaderSound
  <2>3. RefreshSound'
    BY <1>5 DEF BeginRefresh, AllSound, RowsSound, RefreshSound, Sound, Steady, InHand
  <2>4. MigrateSound'
    BY <1>5 DEF BeginRefresh, AllSound, MigrateSound, InHand
  <2>5. Arrivals'
    BY <1>5 DEF BeginRefresh, AllSound, Arrivals, InHand
  <2> QED
    BY <2>1, <2>2, <2>3, <2>4, <2>5 DEF AllSound
<1>6. ASSUME NEW p \in Peers, GroupReply(p) PROVE AllSound'
  <2>1. RowsSound'
    BY <1>6 DEF GroupReply, AllSound, RowsSound, Sound, Steady, InHand
  <2>2. ReaderSound'
    BY <1>6 DEF GroupReply, ReaderSound
  <2>3. RefreshSound'
    <3>1. /\ asking /\ lpc = "wait" /\ rmap \subseteq rmap'
          /\ UNCHANGED <<live, mpc, mlines, cut, overlapped, rrows, asking, lpc, cur>>
      BY <1>6 DEF GroupReply
    <3>2. Fits(rrows, rmap, overlapped, live.lines) => Fits(rrows, rmap', overlapped, live.lines)
      <4>1. \A l \in live.lines : l[2] \in Names /\ Canonical(l[2], rmap) \in {l[2], Canonical(l[2], rmap')}
        BY <3>1, CanonicalIs DEF TypeOK
      <4> QED
        BY <4>1 DEF Fits
    <3> QED
      BY <3>1, <3>2 DEF AllSound, RefreshSound, Sound, Steady, InHand
  <2>4. MigrateSound'
    BY <1>6 DEF GroupReply, AllSound, MigrateSound, InHand
  <2>5. Arrivals'
    BY <1>6 DEF GroupReply, AllSound, Arrivals, InHand
  <2> QED
    BY <2>1, <2>2, <2>3, <2>4, <2>5 DEF AllSound
<1>7. ASSUME WriteRefresh PROVE AllSound'
  <2>1. RowsSound'
    BY <1>7 DEF WriteRefresh, AllSound, RowsSound, Sound, Steady, InHand, Blurred
  <2>2. ReaderSound'
    BY <1>7 DEF WriteRefresh, ReaderSound
  <2>3. RefreshSound'
    BY <1>7 DEF WriteRefresh, AllSound, RefreshSound, Sound, Steady, InHand, Blurred
  <2>4. MigrateSound'
    BY <1>7 DEF WriteRefresh, MigrateSound, Copied, Blurred
  <2>5. Arrivals'
    BY <1>7 DEF WriteRefresh, AllSound, Arrivals, InHand
  <2> QED
    BY <2>1, <2>2, <2>3, <2>4, <2>5 DEF AllSound
<1>8. ASSUME SaveRefresh PROVE AllSound'
  <2>1. RowsSound'
    BY <1>8 DEF SaveRefresh, Renamed, AllSound, RowsSound, RefreshSound, Sound, Steady, InHand,
       CopiesType
  <2>2. ReaderSound'
    BY <1>8 DEF SaveRefresh, ReaderSound
  <2>3. RefreshSound'
    BY <1>8 DEF SaveRefresh, RefreshSound
  <2>4. MigrateSound'
    BY <1>8 DEF SaveRefresh, AllSound, MigrateSound
  <2>5. Arrivals'
    BY <1>8 DEF SaveRefresh, AllSound, Arrivals, InHand
  <2> QED
    BY <2>1, <2>2, <2>3, <2>4, <2>5 DEF AllSound
<1>9. ASSUME ReadRows PROVE AllSound'
  <2>1. RowsSound'
    BY <1>9 DEF ReadRows, AllSound, RowsSound, Sound, Steady, InHand, Rewriting, Blurred
  <2>2. ReaderSound'
    BY <1>9 DEF ReadRows, ReaderSound, Blurred
  <2>3. RefreshSound'
    BY <1>9 DEF ReadRows, AllSound, RefreshSound, Sound, Steady, InHand, Rewriting, Blurred
  <2>4. MigrateSound'
    <3>1. /\ lpc = "wait" /\ mmap' = lidmap /\ mrows' = Folded(rows, lidmap) /\ mpc' = "rows"
          /\ UNCHANGED <<live, lidmap, overlapped, lpc, cur>>
      BY <1>9 DEF ReadRows, Blurred
    <3>2. Fits(rows, lidmap, overlapped, live.lines)
      BY <3>1 DEF AllSound, RowsSound, Sound, InHand
    <3>3. Folds(mrows', mmap', overlapped, live.lines)
      BY <3>1, <3>2, FoldFits DEF TypeOK, Table
    <3> QED
      BY <3>1, <3>3 DEF MigrateSound, InHand
  <2>5. Arrivals'
    BY <1>9 DEF ReadRows, AllSound, Arrivals, InHand, CopiesType
  <2> QED
    BY <2>1, <2>2, <2>3, <2>4, <2>5 DEF AllSound
<1>10. ASSUME ReadLines PROVE AllSound'
  <2>1. RowsSound'
    BY <1>10 DEF ReadLines, AllSound, RowsSound, Sound, Steady, InHand, Rewriting
  <2>2. ReaderSound'
    BY <1>10 DEF ReadLines, AllSound, ReaderSound, Sound, Steady, Rewriting
  <2>3. RefreshSound'
    BY <1>10 DEF ReadLines, AllSound, RefreshSound, Sound, Steady, InHand, Rewriting
  <2>4. MigrateSound'
    <3>1. /\ mpc = "rows" /\ mpc' = "lines" /\ mlines' = {<<l[1], Canonical(l[2], mmap)>> : l \in live.lines}
          /\ UNCHANGED <<live, lidmap, overlapped, lpc, cur, mrows, mmap, tmp>>
      BY <1>10 DEF ReadLines
    <3>2. Folds(mrows, mmap, overlapped, live.lines)
      BY <3>1 DEF AllSound, MigrateSound, Copied
    <3>3. Exact(mrows, overlapped, mlines')
      <4>1. live.lines \in SUBSET (Messages \X Names) /\ mrows \in Table
        BY DEF TypeOK, CopiesType
      <4>2. Exact(mrows, overlapped, {<<l[1], Canonical(l[2], mmap)>> : l \in live.lines})
        BY <3>2, <4>1, FoldFits
      <4> QED
        BY <3>1, <4>2
    <3> QED
      BY <3>1, <3>2, <3>3 DEF AllSound, MigrateSound, InHand, Copied
  <2>5. Arrivals'
    BY <1>10 DEF ReadLines, AllSound, MigrateSound, Arrivals, InHand, Copied
  <2> QED
    BY <2>1, <2>2, <2>3, <2>4, <2>5 DEF AllSound
<1>11. ASSUME WriteRows PROVE AllSound'
  <2>1. RowsSound'
    BY <1>11 DEF WriteRows, AllSound, RowsSound, Sound, Steady, InHand, Rewriting
  <2>2. ReaderSound'
    <3>1. /\ mpc = "lines" /\ mpc' = "tmp" /\ tmp' = {mrows}
          /\ UNCHANGED <<live, lidmap, overlapped, lpc, lrows, mlines, cut>>
      BY <1>11 DEF WriteRows
    <3>2. Fits(mrows, lidmap, overlapped, live.lines)
      BY <3>1, FoldFits DEF AllSound, MigrateSound, Copied, TypeOK, CopiesType
    <3> QED
      BY <3>1, <3>2 DEF AllSound, ReaderSound, Sound, Steady, Rewriting
  <2>3. RefreshSound'
    BY <1>11 DEF WriteRows, AllSound, RefreshSound, MigrateSound, Sound, Steady, InHand, Copied,
       Rewriting
  <2>4. MigrateSound'
    BY <1>11 DEF WriteRows, AllSound, MigrateSound, InHand, Copied
  <2>5. Arrivals'
    BY <1>11 DEF WriteRows, AllSound, Arrivals, InHand, OwnName
  <2> QED
    BY <2>1, <2>2, <2>3, <2>4, <2>5 DEF AllSound
<1>12. ASSUME SaveRows PROVE AllSound'
  <2>a. mpc = "tmp" /\ lpc = "wait" /\ ~asking /\ tmp \subseteq {mrows} /\ InHand = {} /\ InHand' = {}
    BY <1>12 DEF SaveRows, Blurred, AllSound, MigrateSound, InHand
  <2>1. RowsSound'
    <3>1. CASE tmp = {}
      <4>1. UNCHANGED <<rows, live, lidmap, overlapped>> /\ cut' /\ mpc' = "off"
        BY <1>12, <2>a, <3>1 DEF SaveRows, Renamed, MigrateOver
      <4> QED
        BY <2>a, <4>1 DEF AllSound, RowsSound, Sound, Steady, Rewriting
    <3>2. CASE tmp # {}
      <4>1. rows' = mrows /\ UNCHANGED <<live, lidmap, overlapped>>
        BY <1>12, <2>a, <3>2 DEF SaveRows, Renamed
      <4>2. Fits(mrows, lidmap, overlapped, live.lines) /\ Exact(mrows, overlapped, mlines)
        BY <2>a, FoldFits DEF AllSound, MigrateSound, Copied, TypeOK, CopiesType
      <4>3. CASE live.there
        <5>1. mpc' = "move" /\ mlines' = mlines
          BY <1>12, <3>2, <4>3 DEF SaveRows
        <5> QED
          BY <2>a, <4>1, <4>2, <5>1 DEF RowsSound, Sound, Steady, Rewriting
      <4>4. CASE ~live.there
        <5>1. mpc' = "off" /\ live.lines = {}
          BY <1>12, <4>4 DEF SaveRows, MigrateOver, CopiesType
        <5> QED
          BY <4>1, <5>1 DEF RowsSound, Sound, Rewriting, Fits, Exact
      <4> QED
        BY <4>3, <4>4
    <3> QED
      BY <3>1, <3>2
  <2>2. ReaderSound'
    BY <1>12, <2>a DEF SaveRows, ReaderSound
  <2>3. RefreshSound'
    BY <1>12, <2>a DEF SaveRows, RefreshSound
  <2>4. MigrateSound'
    BY <1>12 DEF SaveRows, MigrateOver, MigrateSound, Copied
  <2>5. Arrivals'
    BY <1>12 DEF SaveRows, MigrateOver, AllSound, Arrivals, InHand, CopiesType
  <2> QED
    BY <2>1, <2>2, <2>3, <2>4, <2>5 DEF AllSound
<1>13. ASSUME MoveAside PROVE AllSound'
  <2>a. /\ mpc = "move" /\ mpc' = "aside" /\ live'.lines = {}
        /\ UNCHANGED <<rows, tmp, lidmap, readerVars, refreshVars, mrows, mmap, mlines, historyVars>>
    BY <1>13 DEF MoveAside, NoFile
  <2>1. RowsSound'
    BY <2>a DEF AllSound, RowsSound, Sound, InHand, Fits, Exact
  <2>2. ReaderSound'
    BY <2>a DEF AllSound, ReaderSound, Sound, Fits, Exact
  <2>3. RefreshSound'
    BY <2>a DEF AllSound, RefreshSound, Sound, InHand, Fits, Exact
  <2>4. MigrateSound'
    BY <1>13 DEF MoveAside, MigrateSound, Copied
  <2>5. Arrivals'
    BY <1>13 DEF MoveAside, NoFile, AllSound, Arrivals, InHand
  <2> QED
    BY <2>1, <2>2, <2>3, <2>4, <2>5 DEF AllSound
<1>14. ASSUME Open PROVE AllSound'
  <2>a. /\ mpc = "aside" /\ mpc' = "opened" /\ live'.lines = {}
        /\ UNCHANGED <<rows, tmp, lidmap, readerVars, refreshVars, mrows, mmap, mlines, historyVars>>
    BY <1>14 DEF Open
  <2>1. RowsSound'
    BY <2>a DEF AllSound, RowsSound, Sound, InHand, Rewriting, Fits, Exact
  <2>2. ReaderSound'
    BY <2>a DEF AllSound, ReaderSound, Sound, Rewriting, Fits, Exact
  <2>3. RefreshSound'
    BY <2>a DEF AllSound, RefreshSound, Sound, InHand, Rewriting, Fits, Exact
  <2>4. MigrateSound'
    BY <1>14 DEF Open, MigrateSound, Copied
  <2>5. Arrivals'
    BY <1>14 DEF Open, AllSound, Arrivals, InHand
  <2> QED
    BY <2>1, <2>2, <2>3, <2>4, <2>5 DEF AllSound
<1>15. ASSUME WriteLines PROVE AllSound'
  <2>a. /\ mpc = "opened" /\ mpc' = "off" /\ cut' = FALSE
        /\ live'.lines \subseteq live.lines \cup mlines /\ mlines' = {} /\ overlapped' = overlapped
        /\ UNCHANGED <<rows, tmp, lidmap, readerVars, refreshVars>>
    BY <1>15 DEF WriteLines, MigrateOver
  <2>b. ASSUME NEW r, NEW map, NEW E, Sound(r, map, E) PROVE Fits(r, map, E, live'.lines) /\ Exact(r, E, live'.lines)
    BY <2>a, <2>b DEF Sound, Steady, Rewriting, Fits, Exact
  <2>1. RowsSound'
    BY <2>a, <2>b DEF AllSound, RowsSound, Sound, Steady, InHand, Rewriting
  <2>2. ReaderSound'
    BY <2>a, <2>b DEF AllSound, ReaderSound, Sound, Steady, InHand, Rewriting
  <2>3. RefreshSound'
    BY <2>a, <2>b DEF AllSound, RefreshSound, Sound, Steady, InHand, Rewriting
  <2>4. MigrateSound'
    BY <1>15 DEF WriteLines, MigrateOver, MigrateSound, Copied
  <2>5. Arrivals'
    BY <1>15 DEF WriteLines, MigrateOver, AllSound, Arrivals, InHand, OwnName
  <2> QED
    BY <2>1, <2>2, <2>3, <2>4, <2>5 DEF AllSound
<1>16. ASSUME CrashConnection PROVE AllSound'
  <2>a. /\ mpc = "off" /\ lpc' = "wait" /\ InHand' = {} /\ asking' = FALSE
        /\ overlapped \cup InHand \subseteq overlapped'
        /\ UNCHANGED <<fileVars, mpc, mlines, cut>>
    BY <1>16 DEF CrashConnection, Blurred, InHand, CopiesType, Messages
  <2>1. RowsSound'
    BY <2>a DEF AllSound, RowsSound, Sound, Steady, Fits, Exact, Rewriting
  <2>2. ReaderSound'
    BY <1>16 DEF CrashConnection, ReaderSound
  <2>3. RefreshSound'
    BY <1>16 DEF CrashConnection, RefreshSound
  <2>4. MigrateSound'
    BY <1>16 DEF CrashConnection, MigrateSound, Copied, Blurred
  <2>5. Arrivals'
    BY <1>16 DEF CrashConnection, AllSound, Arrivals, InHand
  <2> QED
    BY <2>1, <2>2, <2>3, <2>4, <2>5 DEF AllSound
<1>17. ASSUME CrashMigrate PROVE AllSound'
  <2>1. RowsSound'
    BY <1>17 DEF CrashMigrate, MigrateOver, AllSound, RowsSound, Sound, Steady, InHand, Rewriting,
       TypeOK
  <2>2. ReaderSound'
    BY <1>17 DEF CrashMigrate, MigrateOver, AllSound, ReaderSound, Sound, Steady, Rewriting, TypeOK
  <2>3. RefreshSound'
    BY <1>17 DEF CrashMigrate, MigrateOver, AllSound, RefreshSound, Sound, Steady, InHand,
       Rewriting, TypeOK
  <2>4. MigrateSound'
    BY <1>17 DEF CrashMigrate, MigrateOver, MigrateSound, Copied
  <2>5. Arrivals'
    BY <1>17 DEF CrashMigrate, MigrateOver, AllSound, Arrivals, InHand, OwnName
  <2> QED
    BY <2>1, <2>2, <2>3, <2>4, <2>5 DEF AllSound
<1>18. CASE UNCHANGED vars
  BY <1>18 DEF AllSound, RowsSound, ReaderSound, RefreshSound, MigrateSound, Arrivals, Sound,
     Steady, InHand,
    OwnName
<1> QED
  BY <1>1, <1>2, <1>3, <1>4, <1>5, <1>6, <1>7, <1>8, <1>9, <1>10, <1>11, <1>12, <1>13, <1>14,
     <1>15, <1>16,
    <1>17, <1>18 DEF Next

\* The invariant holds at the start: the rows are made from the old lines.
LEMMA InitInv == Init => IInv
<1> SUFFICES ASSUME Init PROVE IInv
  OBVIOUS
<1> USE IndexAssumption DEF Init
<1>1. ASSUME NEW n \in Names
      PROVE  /\ rows[n] \in 0 .. MsgCount
             /\ \A m \in Messages : <<m, n>> \in OldLines => rows[n] >= m
  <2> DEFINE S == {0} \cup {m \in Messages : <<m, n>> \in OldLines}
  <2>1. rows[n] = Largest(S)
    BY <1>1 DEF RowsOf
  <2>2. S \in SUBSET (0 .. MsgCount) /\ S # {} /\ \A m \in Messages : <<m, n>> \in OldLines => m \in S
    <3>1. {0} \subseteq 0 .. MsgCount /\ Messages \subseteq 0 .. MsgCount
      BY DEF Messages
    <3>2. 0 \in S /\ S \subseteq {0} \cup Messages
      OBVIOUS
    <3> QED
      BY <3>1, <3>2
  <2> HIDE DEF S
  <2>3. Largest(S) \in S /\ \A y \in S : y <= Largest(S)
    BY <2>2, LargestIs
  <2>4. \A m \in Messages : m \in Nat
    BY DEF Messages
  <2> QED
    BY <2>1, <2>2, <2>3, <2>4
<1>2. rows \in Table
  BY <1>1 DEF RowsOf, Table
<1>3. OldLines \subseteq Messages \X Names /\ \A l \in OldLines : l[1] \in Old
  BY DEF OldLines, Names
<1>4. TypeOK
  <2>1. live.lines = OldLines /\ live.there \in BOOLEAN /\ cur \in 0 .. MsgCount /\ mlines = {}
    OBVIOUS
  <2>2. tmp = {} /\ Cardinality(tmp) <= 1
    <3>1. tmp = {}
      OBVIOUS
    <3> QED
      BY <3>1, TableFacts
  <2>3. /\ lpc = "wait" /\ mpc = "off" /\ asking = FALSE /\ arrived \subseteq Messages /\ aside = {}
        /\ lidmap = {} /\ rmap = {} /\ mmap = {}
    OBVIOUS
  <2> HIDE DEF Init
  <2> QED
    BY <1>2, <1>3, <2>1, <2>2, <2>3 DEF TypeOK, Table
<1>5. CopiesType
  BY TableFacts DEF CopiesType, OldLines
<1>6. History
  <2>1. NoMessageVanishes
    <3>1. ASSUME NEW m \in Old PROVE m \in Lines
      <4> DEFINE l == <<m, <<Form[m], Chat[m]>>>>
      <4>1. l \in live.lines /\ l[1] = m
        BY <3>1 DEF OldLines
      <4> QED
        BY <4>1 DEF Lines
    <3> QED
      BY <3>1 DEF NoMessageVanishes
  <2> QED
    BY <2>1 DEF History, Swept, Told, NeverSplitAgain, Rewriting
<1>7. AllSound
  <2>1. Exact(rows, {}, live.lines)
    <3>1. \A l \in OldLines : l[1] \in Messages /\ l[2] \in Names /\ l = <<l[1], l[2]>>
      BY <1>3
    <3> QED
      BY <1>1, <3>1 DEF Exact, Meets
  <2>2. InHand = {} /\ overlapped \cup InHand = {}
    BY DEF InHand
  <2>3. RowsSound
    BY <2>1, <2>2 DEF RowsSound, Sound, Fits, Exact, Rewriting
  <2> QED
    BY <1>3, <2>2, <2>3 DEF AllSound, ReaderSound, RefreshSound, MigrateSound, Arrivals, Copied
<1> QED
  BY <1>4, <1>5, <1>6, <1>7 DEF IInv

\* Every step of the three writers keeps the invariant.
LEMMA StepInv == IInv /\ [Next]_vars => IInv'
  BY TypeStep, HistoryStep, RowsStep DEF IInv

\* The inductive invariant holds in every reachable state.
THEOREM Invariance == Spec => []IInv
  BY InitInv, StepInv, PTL DEF Spec

\* The files, the copies of the three writers and their steps have their types.
THEOREM TypeCorrect == Spec => []TypeOK
<1>1. IInv => TypeOK
  BY DEF IInv
<1> QED
  BY <1>1, Invariance, PTL

\* A line of messages.jsonl is in the file or in a backup of migrate for ever,
\* unless it was appended while migrate had the file aside.
THEOREM LinesStay == Spec => []NoMessageVanishes
<1>1. IInv => NoMessageVanishes
  BY DEF IInv, History
<1> QED
  BY <1>1, Invariance, PTL

\* Once both names of a peer are told no message is filed under its number,
\* except when a group refresh was waiting meanwhile.
THEOREM ToldOnce == Spec => []NeverSplitAgain
<1>1. IInv => NeverSplitAgain
  BY DEF IInv, History
<1> QED
  BY <1>1, Invariance, PTL

\* When nobody is at work the row of a conversation is as new as each of its
\* lines, whatever connections, refreshes, migrations and crashes went before,
\* but for the exceptions that RowsFollowLines names.
THEOREM RowsAreNew == Spec => []RowsFollowLines
<1>1. IInv => RowsFollowLines
  <2> SUFFICES ASSUME IInv, lpc = "wait", mpc = "off", ~asking, ~cut, NEW l \in live.lines
               PROVE  rows[l[2]] >= l[1] \/ l[1] \in overlapped
    BY DEF RowsFollowLines
  <2>1. CASE Blurred
    BY <2>1 DEF Blurred, IInv, TypeOK
  <2>2. CASE AllSound
    BY <2>2 DEF AllSound, RowsSound, Sound, Steady, InHand, Exact, Meets
  <2> QED
    BY <2>1, <2>2 DEF IInv
<1> QED
  BY <1>1, Invariance, PTL
=============================================================================
