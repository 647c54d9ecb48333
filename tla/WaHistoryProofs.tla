--------------------------- MODULE WaHistoryProofs ---------------------------
(***************************************************************************)
(* Theorems about WaHistory for a chat of any size, any page and mailbox,  *)
(* and any number of reads, ingests, requests and faults: what the cache   *)
(* holds, and what a read may say of it.                                   *)
(***************************************************************************)
EXTENDS WaHistory, TLAPS, FiniteSetTheorems

\* The messages just before one, and a notification about them: one that says
\* that nothing is older has the first message or a placeholder at its end.
Before(a, n) == {m \in Chat : m < a /\ a - m <= n}
Fits(b, a) ==
  /\ \E n \in 0 .. Page : b.msgs = Before(a, n)
  /\ b.end = "nothing" =>
       \E low \in b.msgs \cup {a} : (\A m \in b.msgs \cup {a} : low <= m) /\ (low = 1 \/ low \in Stubs)

\* What a run of ingest takes for new has at most the line of a live message.
Due(m) == IF m \in Mail \ mailbox THEN 1 ELSE 0
Alone  == \A v, w \in Workers : work[v].step # "off" /\ work[w].step # "off" => v = w
Fresh  == \A w \in Workers : /\ work[w].step = "fetch" => \A m \in Chat \ work[w].seen : lines[m] <= Due(m)
                             /\ work[w].step = "append" => \A m \in work[w].new : lines[m] <= Due(m)
Once   == overlap = "no" => Alone /\ Fresh /\ \A m \in Chat : lines[m] <= 1 + Due(m)

\* Two runs at the same time are one line each, but none for what is cached.
Taken(w, m) ==
  IF \/ work[w].step = "fetch" /\ m \notin work[w].seen
     \/ work[w].step = "append" /\ m \in work[w].new THEN 1 ELSE 0
Apart == \A m \in Chat : lines[m] + Taken("reader", m) + Taken("replay", m) <= 2 + Due(m)

\* An index that is about to be saved lists the other chat, unless its row is
\* not written yet.
Noticed == clobbered = "no" /\ unlisted = "no" /\ lines[0] > 0 /\ owed # "other" =>
  "other" \in index /\ \A w \in Workers : work[w].step = "fetch" => "other" \in work[w].index

\* A run of ingest leaves nothing of its notifications out.
Folded == \A w \in Workers :
  /\ work[w].step = "fetch" => work[w].seen \subseteq Cached
  /\ work[w].step = "append" => /\ work[w].new \subseteq Contents(work[w].todo)
                                /\ Contents(work[w].todo) \subseteq Cached \cup work[w].new

\* Every answer, given or due, begins at a cached message, so that nothing is
\* missing above a cached one but what a pushed bundle has jumped over, or a
\* live message that was dropped.
Anchored ==
  /\ \A i \in DOMAIN blobs : blobs[i].request # 0 => \E a \in Cached : Fits(blobs[i], a)
  /\ \A r \in phone : r.anchor \in Cached
Solid(c, m) == c < m => m \in Cached \cup mailbox \cup dropped \/ \E b \in bundled : b < m
NoHoles     == \A c \in Cached, m \in Chat : Solid(c, m)

\* What waits in the mailbox is newer than a message that was there at first.
Lasting(x) == x \in Cached \ aside /\ \A w \in Workers : /\ work[w].step = "fetch" => x \in work[w].seen
                                                         /\ work[w].step = "append" => x \notin work[w].new
MailIsNewer == Cached # {} => \A m \in mailbox \ {0} : \E x \in Cached : Lasting(x) /\ x < m

\* Without a cached message there is no connection, and nothing ever arrives.
Empty  == Cached = {} => pc \in {"idle", "connect", "report"} /\ blobs = <<>>
Linked == Online => pc \in {"walk", "ask", "wait", "ingest", "closing"}

\* A page begins at the oldest message, but for those that come beside the walk.
AtAnchor == pc \in {"ask", "wait", "ingest"} => anchor \in Cached /\ \A c \in Cached : anchor <= c \/ c \in aside
Wanting  == pc \in {"ask", "wait"} => left > 0

\* The phone answers one form of the chat, so that a page waits for one answer
\* at most, and all that is open belongs to the current page.
Open  == {r \in phone : r.id \in sent}
Tried == 1 .. (IF pc = "ask" THEN try - 1 ELSE try)
Pending ==
  /\ pc \in {"walk", "ingest"} => Open = {} /\ Replies = {}
  /\ pc \in {"ask", "wait"} =>
       /\ \A r \in Open : r.anchor = anchor
       /\ \A i \in Replies : Fits(blobs[i], anchor)
       /\ \A r, q \in Open : r = q
       /\ \A i, j \in Replies : i = j
       /\ Open = {} \/ Replies = {}
       /\ (Open # {} \/ Replies # {}) => \E i \in Tried : forms[i] = Answers
Named == \A i \in DOMAIN blobs : blobs[i].request \in 0 .. requests

\* What a page stores is the answer about its anchor, and so is the verdict.
Storing == pc = "ingest" =>
  /\ \A i \in work["reader"].todo : Fits(blobs[i], anchor)
  /\ \A i, j \in work["reader"].todo : i = j
  /\ work["reader"].step = "append" /\ work["reader"].end # "none" =>
       \E i \in work["reader"].todo : work["reader"].end = blobs[i].end

\* A verdict is about the oldest message, until an older one comes beside it.
Settled == Oldest = 1 \/ Oldest \in Stubs \cup aside
Verdict == pc \in {"closing", "final", "report"} /\ stop = "no_older" => Settled
Reported == pc = "idle" =>
  /\ report.complete = "yes" => Oldest = 1 \/ Oldest \in aside
  /\ (report.complete = "no" /\ report.note = "no") =>
       /\ Cardinality(Cached) >= ask.limit \/ Doubled # {}
       /\ ask.since # 0 => Cached # {} /\ Oldest <= ask.since

Ingest == Once /\ Noticed
Cover  == Folded /\ Anchored /\ NoHoles /\ MailIsNewer /\ Empty /\ Linked
Walk   == AtAnchor /\ Wanting /\ Pending /\ Named /\ Storing
Told   == Verdict /\ Reported
IInv   == TypeOK /\ Ingest /\ Apart /\ Cover /\ Walk /\ Told

\* TypeOK in five parts.
DiskOK ==
  /\ mailbox \subseteq Mail /\ lines \in [{0} \cup Chat -> Nat] /\ index \in Listing /\ blobs \in Seq(Replied)
  /\ phone \subseteq [id : 1 .. requests, anchor : Chat, n : 1 .. Page, form : {Answers}]
  /\ requests \in 0 .. MaxRequests /\ faults \in 0 .. MaxFaults
WalkOK ==
  /\ pc \in {"idle", "connect", "walk", "ask", "wait", "ingest", "closing", "final", "report"}
  /\ ask \in Asks /\ link \in {"up", "down"} /\ first \in 1 .. Len(blobs) + 1
  /\ try \in DOMAIN Forms /\ anchor \in 0 .. Size /\ left \in Int
  /\ sent \subseteq 1 .. requests /\ ingested \subseteq first .. Len(blobs)
  /\ stop \in {"none", "skipped", "count", "since", "no_reply", "no_older", "no_access", "nothing_new"}
  /\ report \in [complete : {"yes", "no"}, note : {"yes", "no"}]
FormsOK ==
  forms \in [DOMAIN Forms -> {Forms[i] : i \in DOMAIN Forms}] /\ \A i, j \in DOMAIN forms : forms[i] = forms[j] => i = j
WorkOK == work \in [Workers -> Runs] /\ (work["reader"].step # "off" <=> pc \in {"ingest", "final"})

LiveOK ==
  /\ owed \in {"none", "chat", "other"} /\ busy \in {"yes", "no"}
  /\ clobbered \in {"yes", "no"} /\ unlisted \in {"yes", "no"} /\ dropped \subseteq Mail

Typed  == DiskOK /\ WalkOK /\ FormsOK /\ WorkOK

\* The row of a live message, and a listener that comes and goes.
Beside == Upsert \/ UpsertFails \/ ListenerTakes \/ ListenerEnds

\* They leave alone what a read and an ingest work on, but for chats.json.
LEMMA BesideKeeps ==
  ASSUME Beside
  PROVE  /\ UNCHANGED <<mailbox, phone, lines, blobs, pc, ask, link, first, stop, report, work, requests>>
         /\ UNCHANGED <<forms, try, anchor, left, sent, ingested, bundled, aside, overlap, dropped>>
  BY DEF Beside, Upsert, UpsertFails, ListenerTakes, ListenerEnds, walkVars, diskVars, historyVars, liveHistory, bounds

\* Together they are TypeOK.
LEMMA TypeParts == TypeOK <=> Typed /\ LiveOK
  BY DEF TypeOK, Typed, DiskOK, WalkOK, FormsOK, WorkOK, LiveOK

\* A set of numbers that is not empty has a least one.
LEMMA Least ==
  ASSUME NEW n \in Nat, NEW S \in SUBSET (0 .. n), S # {}
  PROVE  \E x \in S : \A y \in S : x <= y
<1> DEFINE Below(x) == {y \in S : y < x}
           T == {Below(x) : x \in S}
           R == StrictSubsetOrdering(S)
<1> HIDE DEF Below, T, R
<1>1. IsFiniteSet(S)
  <2>1. IsFiniteSet(0 .. n)
    BY FS_Interval
  <2> QED
    BY <2>1, FS_Subset
<1>2. IsWellFoundedOn(R, FiniteSubsetsOf(S))
  BY FS_StrictSubsetOrderingWellFounded DEF R
<1>3. T \subseteq FiniteSubsetsOf(S) /\ T # {}
  <2>1. \A x \in S : Below(x) \in SUBSET S
    BY DEF Below
  <2>2. \A x \in S : Below(x) \in FiniteSubsetsOf(S)
    BY <1>1, <2>1, FS_FiniteSubsetsOfFinite
  <2> QED
    BY <2>2 DEF T
<1>4. PICK A \in T : \A B \in T : <<B, A>> \notin R
  BY <1>2, <1>3, WFMin
<1>5. PICK x \in S : A = Below(x)
  BY <1>4 DEF T
<1>6. ASSUME NEW y \in S, y < x PROVE FALSE
  <2>1. Below(y) \in T
    BY DEF T
  <2>2. \A z \in S : z \in Nat
    OBVIOUS
  <2>3. Below(y) \subseteq A
    <3>1. \A z \in S : z < y => z < x
      BY <1>6, <2>2
    <3> QED
      BY <1>5, <3>1 DEF Below
  <2>4. y \in A /\ y \notin Below(y) /\ A \subseteq S
    BY <1>5, <1>6, <2>2 DEF Below
  <2>5. <<Below(y), A>> \in R
    BY <2>3, <2>4 DEF R, StrictSubsetOrdering
  <2> QED
    BY <1>4, <2>1, <2>5
<1> QED
  BY <1>6

\* A finite set of numbers has a greatest one: count from the other end.
LEMMA Greatest ==
  ASSUME NEW n \in Nat, NEW S \in SUBSET (0 .. n), S # {}
  PROVE  \E x \in S : \A y \in S : y <= x
<1> DEFINE T == {n - x : x \in S}
<1>1. \A x \in S : x \in Nat /\ x <= n /\ n - x \in 0 .. n
  OBVIOUS
<1>2. T \in SUBSET (0 .. n) /\ T # {}
  BY <1>1
<1>3. PICK z \in T : \A y \in T : z <= y
  <2> HIDE DEF T
  <2> QED
    BY <1>2, Least
<1>4. PICK x \in S : z = n - x
  BY <1>3
<1>5. ASSUME NEW y \in S PROVE y <= x
  <2>1. n - x <= n - y
    BY <1>3, <1>4
  <2> QED
    BY <1>1, <2>1
<1> QED
  BY <1>5

\* The community modules' Min and Max are those.
LEMMA MinIs ==
  ASSUME NEW n \in Nat, NEW S \in SUBSET (0 .. n), S # {}
  PROVE  Min(S) \in S /\ \A y \in S : Min(S) <= y
  BY Least DEF Min

\* A greatest element is an element.
LEMMA MaxIs ==
  ASSUME NEW n \in Nat, NEW S \in SUBSET (0 .. n), S # {}
  PROVE  Max(S) \in S
  BY Greatest DEF Max

\* The lesser and the greater of two numbers.
LEMMA PairIs ==
  ASSUME NEW a \in Int, NEW b \in Int
  PROVE  /\ Min({a, b}) \in {a, b} /\ Min({a, b}) <= a /\ Min({a, b}) <= b
         /\ Max({a, b}) \in {a, b} /\ Max({a, b}) >= a /\ Max({a, b}) >= b
<1>1. (\E x \in {a, b} : \A y \in {a, b} : x <= y) /\ (\E x \in {a, b} : \A y \in {a, b} : x >= y)
  OBVIOUS
<1> QED
  BY <1>1 DEF Min, Max

\* The oldest cached message.
LEMMA OldestIs == Cached # {} => Oldest \in Cached /\ \A c \in Cached : Oldest <= c
<1>1. Cached \in SUBSET (0 .. Size) /\ Size \in Nat
  BY HistoryAssumption DEF Cached, Chat
<1> QED
  BY <1>1, MinIs DEF Oldest

\* A chat is finite.
LEMMA ChatIsFinite == IsFiniteSet(Chat)
<1>1. 1 \in Int /\ Size \in Int
  BY HistoryAssumption
<1> QED
  BY <1>1, FS_Interval DEF Chat

\* One line per message: as many rows as messages.
LEMMA RowsIs == DiskOK /\ Doubled = {} => Rows = Cardinality(Cached)
<1> SUFFICES ASSUME DiskOK, Doubled = {} PROVE Rows = Cardinality(Cached)
  OBVIOUS
<1> DEFINE R == UNION {{m} \X (1 .. lines[m]) : m \in Chat}
           f == [c \in Cached |-> <<c, 1>>]
<1>1. \A m \in Chat : lines[m] \in Nat /\ (m \in Cached => 1 .. lines[m] = {1}) /\ (m \notin Cached => 1 .. lines[m] = {})
  BY DEF DiskOK, Doubled, Cached
<1>2. R = {<<c, 1>> : c \in Cached}
  <2>1. ASSUME NEW z \in R PROVE z \in {<<c, 1>> : c \in Cached}
    <3>1. PICK m \in Chat : z \in {m} \X (1 .. lines[m])
      BY <2>1
    <3>2. z = <<m, 1>> /\ m \in Cached
      BY <1>1, <3>1
    <3> QED
      BY <3>2
  <2>2. ASSUME NEW c \in Cached PROVE <<c, 1>> \in R
    <3>1. c \in Chat /\ <<c, 1>> \in {c} \X (1 .. lines[c])
      BY <1>1 DEF Cached
    <3> QED
      BY <3>1
  <2> QED
    BY <2>1, <2>2
<1>3. f \in Bijection(Cached, R)
  <2> HIDE DEF R
  <2>1. \A c \in Cached : f[c] = <<c, 1>>
    OBVIOUS
  <2>2. f \in [Cached -> R]
    BY <1>2
  <2>3. \A c, d \in Cached : f[c] = f[d] => c = d
    BY <2>1
  <2>4. \A z \in R : \E c \in Cached : f[c] = z
    BY <1>2, <2>1
  <2> HIDE DEF f
  <2> QED
    <3>1. f \in Injection(Cached, R)
      BY <2>2, <2>3 DEF Injection, IsInjective
    <3>2. f \in Surjection(Cached, R)
      BY <2>2, <2>4 DEF Surjection
    <3> QED
      BY <3>1, <3>2 DEF Bijection
<1>4. IsFiniteSet(Cached)
  BY ChatIsFinite, FS_Subset DEF Cached
<1> HIDE DEF R, f
<1>5. ExistsBijection(Cached, R)
  BY <1>3 DEF ExistsBijection
<1>6. Cardinality(R) = Cardinality(Cached)
  BY <1>4, <1>5, FS_Bijection
<1> QED
  BY <1>6 DEF Rows, R

\* What IngestedOnce counts.
LEMMA DueIs == \A m \in Chat : Cardinality({m} \cap (Mail \ mailbox)) = Due(m)
<1>1. ASSUME NEW m \in Chat PROVE Cardinality({m} \cap (Mail \ mailbox)) = Due(m)
  <2>1. CASE m \in Mail \ mailbox
    BY <2>1, FS_Singleton DEF Due
  <2>2. CASE m \notin Mail \ mailbox
    BY <2>2, FS_EmptySet DEF Due
  <2> QED
    BY <2>1, <2>2
<1> QED
  BY <1>1

\* There is a number of rows.
LEMMA RowsType == DiskOK => Rows \in Nat
<1> SUFFICES ASSUME DiskOK PROVE Rows \in Nat
  OBVIOUS
<1> DEFINE Of(m) == {m} \X (1 .. lines[m])
           Q == {Of(m) : m \in Chat}
<1>1. ASSUME NEW m \in Chat PROVE IsFiniteSet(Of(m))
  <2>1. lines[m] \in Nat
    BY DEF DiskOK
  <2> QED
    <3>1. IsFiniteSet({m})
      BY FS_Singleton
    <3>2. 1 \in Int /\ lines[m] \in Int
      BY <2>1
    <3>3. IsFiniteSet(1 .. lines[m])
      BY <3>2, FS_Interval
    <3> QED
      BY <3>1, <3>3, FS_Product
<1>2. IsFiniteSet(Chat)
  BY ChatIsFinite
<1>3. IsFiniteSet(Q)
  <2> DEFINE g == [m \in Chat |-> Of(m)]
  <2>1. g \in Surjection(Chat, Q)
    <3>1. g \in [Chat -> Q] /\ \A z \in Q : \E m \in Chat : g[m] = z
      OBVIOUS
    <3> QED
      BY <3>1 DEF Surjection
  <2> QED
    BY <1>2, <2>1, FS_Surjection
<1>4. \A q \in Q : IsFiniteSet(q)
  BY <1>1
<1> HIDE DEF Q
<1>5. IsFiniteSet(UNION Q)
  BY <1>3, <1>4, FS_UNION
<1> QED
  BY <1>5, FS_CardinalityType DEF Rows, Q

\* How much to ask for is a number.
LEMMA WantIs == ASSUME DiskOK, NEW a \in Asks PROVE Want(a) \in Int
<1>1. a.limit \in Int /\ Rows \in Int /\ Most \in Int
  BY RowsType, HistoryAssumption
<1> QED
  <2>1. a.limit - Rows \in Int /\ 0 \in Int
    BY <1>1
  <2>2. Max({0, a.limit - Rows}) \in {0, a.limit - Rows}
    BY <2>1, PairIs
  <2> QED
    BY <1>1, <2>1, <2>2 DEF Want

\* A request begins at the anchor and asks for a page at most.
LEMMA RequestIs ==
  ASSUME WalkOK, left > 0
  PROVE  Request.id = requests + 1 /\ Request.anchor = anchor /\ Request.n \in 1 .. Page /\ Request.form = forms[try]
<1>1. Min({Page, left}) \in 1 .. Page
  <2>1. Page \in Int /\ Page > 0 /\ left \in Int
    BY HistoryAssumption DEF WalkOK
  <2>2. Min({Page, left}) \in {Page, left} /\ Min({Page, left}) <= Page
    BY <2>1, PairIs
  <2> QED
    BY <2>1, <2>2
<1> QED
  BY <1>1 DEF Request

\* What the phone says of what lies before its answer.
LEMMA VerdictIs ==
  ASSUME NEW r, r.anchor \in Chat, r.n \in 1 .. Page, NEW end \in Verdicts(r), NEW id
  PROVE  /\ Fits([msgs |-> Served(r), end |-> end, request |-> id], r.anchor)
         /\ Served(r) \subseteq Chat /\ end \in Ends
<1> DEFINE S == Served(r) \cup {r.anchor}
<1>1. S \in SUBSET (0 .. Size) /\ S # {} /\ Size \in Nat
  BY HistoryAssumption DEF Served, Chat
<1>2. Min(S) \in S /\ \A y \in S : Min(S) <= y
  <2> HIDE DEF S
  <2> QED
    BY <1>1, MinIs
<1>3. Served(r) = Before(r.anchor, r.n) /\ r.n \in 0 .. Page
  BY HistoryAssumption DEF Served, Before
<1>4. end \in Ends /\ (end = "nothing" => Min(S) = 1 \/ Min(S) \in Stubs)
  BY DEF Verdicts, Ends
<1> QED
  BY <1>2, <1>3, <1>4 DEF Fits, Served

\* The form that was understood goes to the front; all of them stay.
LEMMA ToFrontIs ==
  ASSUME FormsOK, NEW k \in DOMAIN Forms
  PROVE  /\ ToFront(k) \in [DOMAIN Forms -> {Forms[i] : i \in DOMAIN Forms}]
         /\ \A i, j \in DOMAIN ToFront(k) : ToFront(k)[i] = ToFront(k)[j] => i = j
<1>1. DOMAIN Forms = 1 .. Len(Forms) /\ Len(Forms) \in Nat /\ DOMAIN forms = DOMAIN Forms
  BY HistoryAssumption DEF FormsOK
<1>2. DOMAIN ToFront(k) = DOMAIN Forms
  BY <1>1 DEF ToFront
<1> DEFINE From(i) == IF i = 1 THEN k ELSE IF i <= k THEN i - 1 ELSE i
<1>3. \A i \in DOMAIN Forms : From(i) \in DOMAIN Forms /\ ToFront(k)[i] = forms[From(i)]
  BY <1>1 DEF ToFront
<1>4. \A i, j \in DOMAIN Forms : From(i) = From(j) => i = j
  BY <1>1
<1> HIDE DEF From
<1>5. ToFront(k) \in [DOMAIN Forms -> {Forms[i] : i \in DOMAIN Forms}]
  <2>1. \A i \in DOMAIN Forms : forms[i] \in {Forms[x] : x \in DOMAIN Forms}
    BY DEF FormsOK
  <2>2. \A i \in DOMAIN Forms : ToFront(k)[i] \in {Forms[x] : x \in DOMAIN Forms}
    BY <1>3, <2>1
  <2>3. ToFront(k) = [i \in DOMAIN Forms |-> ToFront(k)[i]]
    BY <1>1 DEF ToFront
  <2> QED
    BY <2>2, <2>3
<1>6. \A i, j \in DOMAIN Forms : forms[i] = forms[j] => i = j
  BY <1>1 DEF FormsOK
<1> QED
  BY <1>2, <1>3, <1>4, <1>5, <1>6

\* The verdict of a run of ingest is one of its notifications'.
LEMMA LastEndIs ==
  ASSUME DiskOK, NEW S \in SUBSET (1 .. Len(blobs))
  PROVE  LastEnd(S) = "none" \/ \E i \in S : LastEnd(S) = blobs[i].end
<1>1. CASE S # {}
  <2>1. S \in SUBSET (0 .. Len(blobs)) /\ Len(blobs) \in Nat
    BY DEF DiskOK
  <2> QED
    BY <1>1, <2>1, MaxIs DEF LastEnd
<1> QED
  BY <1>1 DEF LastEnd

\* The order that the forms are tried in at first.
LEMMA FormsAre ==
  /\ Forms \in [DOMAIN Forms -> {Forms[i] : i \in DOMAIN Forms}]
  /\ DOMAIN Forms = 1 .. Len(Forms) /\ Len(Forms) \in Nat \ {0}
<1>1. Forms \in Seq({"pn", "lid"}) /\ Forms # <<>>
  BY HistoryAssumption
<1>2. DOMAIN Forms = 1 .. Len(Forms) /\ Len(Forms) \in Nat
  BY <1>1
<1>3. Len(Forms) # 0
  BY <1>1
<1>4. Forms = [i \in DOMAIN Forms |-> Forms[i]]
  BY <1>1
<1> QED
  BY <1>2, <1>3, <1>4

\* Saved notifications.
LEMMA BlobsAre ==
  ASSUME DiskOK
  PROVE  /\ Len(blobs) \in Nat /\ DOMAIN blobs = 1 .. Len(blobs)
         /\ \A i \in 1 .. Len(blobs) : blobs[i] \in Replied /\ blobs[i].msgs \in SUBSET Chat /\ blobs[i].end \in Ends
<1>1. blobs \in Seq(Replied)
  BY DEF DiskOK
<1>2. Len(blobs) \in Nat /\ DOMAIN blobs = 1 .. Len(blobs)
  BY <1>1
<1>3. \A i \in 1 .. Len(blobs) : blobs[i] \in Replied
  BY <1>1
<1>4. \A b \in Replied : b.msgs \in SUBSET Chat /\ b.end \in Ends
  BY DEF Replied
<1> QED
  BY <1>2, <1>3, <1>4

\* Every step keeps the types.
LEMMA TypeStep ==
  ASSUME DiskOK, WalkOK, FormsOK, WorkOK, LiveOK, Wanting, AtAnchor, Empty, [Next]_vars
  PROVE  Typed'
<1> USE HistoryAssumption DEF Typed, vars, waitVars, walkVars, diskVars, liveHistory, historyVars, bounds
<1>1. ASSUME Connect PROVE Typed'
  <2>1. DiskOK'
    BY <1>1 DEF Connect, DiskOK
  <2>2. WalkOK'
    <3>1. Len(blobs) \in Nat
      BY DEF DiskOK
    <3> QED
      BY <1>1, <3>1 DEF Connect, WalkOK
  <2>3. FormsOK'
    BY <1>1, FormsAre DEF Connect, FormsOK
  <2>4. WorkOK'
    BY <1>1 DEF Connect, WorkOK, Runs
  <2> QED
    BY <2>1, <2>2, <2>3, <2>4
<1>2. ASSUME ConnectFails PROVE Typed'
  <2>1. DiskOK'
    <3>1. faults' \in 0 .. MaxFaults /\ UNCHANGED <<mailbox, lines, index, blobs, phone, requests>>
      BY <1>2 DEF ConnectFails, Fault, DiskOK
    <3> QED
      BY <3>1 DEF DiskOK
  <2>2. WalkOK'
    BY <1>2 DEF ConnectFails, Fault, WalkOK
  <2>3. FormsOK'
    BY <1>2 DEF ConnectFails, Fault, FormsOK
  <2>4. WorkOK'
    BY <1>2 DEF ConnectFails, Fault, WorkOK, Runs
  <2> QED
    BY <2>1, <2>2, <2>3, <2>4
<1>3. ASSUME NextPage PROVE Typed'
  <2>1. DiskOK'
    BY <1>3 DEF NextPage, Finished, DiskOK
  <2>2. WalkOK'
    <3>1. Oldest \in 0 .. Size
      <4>1. Cached # {}
        BY <1>3 DEF NextPage, Empty
      <4> QED
        BY <4>1, OldestIs DEF Cached, Chat
    <3>2. 1 \in DOMAIN Forms
      BY FormsAre
    <3>3. anchor' \in 0 .. Size /\ try' \in DOMAIN Forms
      <4>1. anchor' \in {anchor, Oldest} /\ try' \in {try, 1}
        BY <1>3 DEF NextPage
      <4>2. anchor \in 0 .. Size /\ try \in DOMAIN Forms
        BY DEF WalkOK
      <4> QED
        BY <3>1, <3>2, <4>1, <4>2
    <3>4. pc' \in {"closing", "ask"} /\ stop' \in {stop, "count", "since"}
      BY <1>3 DEF NextPage, Finished
    <3>5. UNCHANGED <<blobs, ask, link, first, left, sent, ingested, report, requests>>
      BY <1>3 DEF NextPage
    <3> QED
      BY <3>3, <3>4, <3>5 DEF WalkOK
  <2>3. FormsOK'
    BY <1>3 DEF NextPage, Finished, FormsOK
  <2>4. WorkOK'
    BY <1>3 DEF NextPage, Finished, WorkOK, Runs
  <2> QED
    BY <2>1, <2>2, <2>3, <2>4
<1>4. ASSUME Send PROVE Typed'
  <2>1. DiskOK'
    <3>1. left > 0 /\ requests' = requests + 1 /\ requests' \in 0 .. MaxRequests /\ phone' = phone \cup Understood
      BY <1>4 DEF Send, Wanting, DiskOK
    <3>2. anchor \in Chat
      BY <1>4 DEF Send, AtAnchor, Cached
    <3>3. Understood \subseteq [id : 1 .. requests', anchor : Chat, n : 1 .. Page, form : {Answers}]
      <4>1. ASSUME NEW r \in Understood PROVE r \in [id : 1 .. requests', anchor : Chat, n : 1 .. Page, form : {Answers}]
        <5>1. r = Request /\ r.form = Answers
          BY <4>1 DEF Understood
        <5>2. Request = [id |-> requests + 1, anchor |-> anchor, n |-> Request.n, form |-> Request.form]
          BY DEF Request
        <5>3. Request.n \in 1 .. Page /\ requests + 1 \in 1 .. requests'
          BY <3>1, RequestIs DEF DiskOK
        <5> QED
          BY <3>2, <5>1, <5>2, <5>3
      <4> QED
        BY <4>1
    <3>4. phone \subseteq [id : 1 .. requests', anchor : Chat, n : 1 .. Page, form : {Answers}]
      BY <3>1 DEF DiskOK
    <3>5. UNCHANGED <<mailbox, diskVars, faults>>
      BY <1>4 DEF Send
    <3> QED
      BY <3>1, <3>3, <3>4, <3>5 DEF DiskOK
  <2>2. WalkOK'
    <3>1. sent' = sent \cup {requests + 1} /\ requests' = requests + 1
      BY <1>4 DEF Send, Request
    <3>2. requests \in Nat /\ 1 .. requests \subseteq 1 .. requests' /\ requests + 1 \in 1 .. requests'
      BY <3>1 DEF DiskOK
    <3>3. sent' \subseteq 1 .. requests'
      BY <3>1, <3>2 DEF WalkOK
    <3>4. pc' = "wait" /\ UNCHANGED <<blobs, ask, link, first, try, anchor, left, ingested, stop, report>>
      BY <1>4 DEF Send
    <3> QED
      BY <3>3, <3>4 DEF WalkOK
  <2>3. FormsOK'
    BY <1>4 DEF Send, FormsOK
  <2>4. WorkOK'
    BY <1>4 DEF Send, WorkOK, Runs
  <2> QED
    BY <2>1, <2>2, <2>3, <2>4
<1>5. ASSUME SendRaises PROVE Typed'
  <2>1. DiskOK'
    BY <1>5 DEF SendRaises, Finished, DiskOK
  <2>2. WalkOK'
    BY <1>5 DEF SendRaises, Finished, WalkOK
  <2>3. FormsOK'
    BY <1>5 DEF SendRaises, Finished, FormsOK
  <2>4. WorkOK'
    BY <1>5 DEF SendRaises, Finished, WorkOK, Runs
  <2> QED
    BY <2>1, <2>2, <2>3, <2>4
<1>6. ASSUME TakeReplies PROVE Typed'
  <2>1. DiskOK'
    BY <1>6 DEF TakeReplies, StartWork, Off, DiskOK
  <2>2. WalkOK'
    <3>1. Replies \subseteq first .. Len(blobs)
      BY DEF Replies
    <3> QED
      BY <1>6, <3>1 DEF TakeReplies, StartWork, Off, WalkOK
  <2>3. FormsOK'
    BY <1>6 DEF TakeReplies, StartWork, Off, FormsOK
  <2>4. WorkOK'
    <3>1. ASSUME NEW todo \in SUBSET (1 .. Len(blobs))
          PROVE  [Off EXCEPT !.step = "fetch", !.todo = todo, !.seen = Cached, !.index = index] \in Runs
      BY DEF Off, Runs, Ends, Cached, DiskOK
    <3>2. Replies \in SUBSET (1 .. Len(blobs))
      BY <1>6, BlobsAre DEF Replies, WalkOK
    <3>3. [Off EXCEPT !.step = "fetch", !.todo = Replies, !.seen = Cached, !.index = index] \in Runs
      BY <3>1, <3>2
    <3>4. [Off EXCEPT !.step = "fetch", !.todo = Replies, !.seen = Cached, !.index = index].step = "fetch"
      BY DEF Off
    <3>5. blobs' = blobs
      BY <1>6 DEF TakeReplies, StartWork, Off
    <3> QED
      BY <1>6, <3>3, <3>4, <3>5 DEF TakeReplies, StartWork, WorkOK, Workers, Runs
  <2> QED
    BY <2>1, <2>2, <2>3, <2>4
<1>7. ASSUME NoReply PROVE Typed'
  <2>1. DiskOK'
    BY <1>7 DEF NoReply, Finished, DiskOK
  <2>2. WalkOK'
    <3>1. DOMAIN Forms = 1 .. Len(Forms) /\ Len(forms) = Len(Forms) /\ Len(Forms) \in Nat
      BY FormsAre DEF FormsOK
    <3>2. try' \in DOMAIN Forms
      BY <1>7, <3>1 DEF NoReply, Finished, WalkOK
    <3>3. pc' \in {"ask", "closing"} /\ stop' \in {stop, "no_reply"}
      BY <1>7 DEF NoReply, Finished
    <3>4. UNCHANGED <<blobs, ask, link, first, anchor, left, sent, ingested, report, requests>>
      BY <1>7 DEF NoReply
    <3> QED
      BY <3>2, <3>3, <3>4 DEF WalkOK
  <2>3. FormsOK'
    BY <1>7 DEF NoReply, Finished, FormsOK
  <2>4. WorkOK'
    BY <1>7 DEF NoReply, Finished, WorkOK, Runs
  <2> QED
    BY <2>1, <2>2, <2>3, <2>4
<1>8. ASSUME NEW w \in Workers, NEW fetched \in SUBSET work[w].todo, SaveIndex(w, fetched) PROVE Typed'
  <2>1. DiskOK'
    <3>1. /\ index' \in {work[w].index, work[w].index \cup {"chat"}} /\ faults' \in 0 .. MaxFaults
          /\ UNCHANGED <<mailbox, phone, lines, blobs, requests>>
      BY <1>8 DEF SaveIndex, Fault, Listed, DiskOK
    <3>2. work[w].index \in Listing
      BY DEF WorkOK, Runs
    <3> QED
      BY <3>1, <3>2 DEF DiskOK, Listing
  <2>2. WalkOK'
    BY <1>8 DEF SaveIndex, Fault, WalkOK
  <2>3. FormsOK'
    BY <1>8 DEF SaveIndex, Fault, FormsOK
  <2>4. WorkOK'
    <3>1. work[w] \in Runs /\ fetched \in SUBSET (1 .. Len(blobs))
      BY DEF WorkOK, Runs
    <3>2. LastEnd(fetched) \in Ends \cup {"none"}
      BY <3>1, LastEndIs, BlobsAre
    <3>3. Stored(work[w], Contents(fetched)) \in SUBSET Chat
      BY <3>1, BlobsAre DEF Stored, Contents
    <3>4. /\ work' = [work EXCEPT ![w] = [@ EXCEPT !.step = "append", !.todo = fetched, !.end = LastEnd(fetched),
                                                  !.new = Stored(work[w], Contents(fetched))]]
          /\ work[w].step = "fetch" /\ UNCHANGED <<blobs, pc>>
      BY <1>8 DEF SaveIndex
    <3>5. [work[w] EXCEPT !.step = "append", !.todo = fetched, !.end = LastEnd(fetched),
                          !.new = Stored(work[w], Contents(fetched))] \in Runs
      BY <3>1, <3>2, <3>3 DEF Runs
    <3> QED
      BY <3>4, <3>5 DEF WorkOK, Runs
  <2> QED
    BY <2>1, <2>2, <2>3, <2>4
<1>9. ASSUME PageStored PROVE Typed'
  <2>1. DiskOK'
    <3>1. \E w \in Workers : lines' = [m \in DOMAIN lines |-> lines[m] + IF m \in work[w].new THEN 1 ELSE 0]
      BY <1>9 DEF PageStored, AppendNew, Off, Finished, Workers
    <3>3. UNCHANGED <<mailbox, phone, index, blobs, requests, faults>>
      BY <1>9 DEF PageStored, AppendNew, Off, Finished
    <3>2. lines' \in [{0} \cup Chat -> Nat]
      <4>1. DOMAIN lines = {0} \cup Chat /\ \A m \in DOMAIN lines : lines[m] \in Nat
        BY DEF DiskOK
      <4> QED
        BY <3>1, <4>1
    <3> QED
      BY <3>2, <3>3 DEF DiskOK
  <2>2. WalkOK'
    <3>1. /\ forms' = ToFront(try) /\ left' \in Int /\ pc' \in {"walk", "closing"}
          /\ stop' \in {stop, "no_access", "no_older", "nothing_new"}
          /\ UNCHANGED <<blobs, ask, link, first, try, anchor, sent, ingested, report, requests>>
      <4>1. work["reader"].new \in SUBSET Chat
        BY DEF WorkOK, Workers, Runs
      <4>2. IsFiniteSet(Chat)
        BY FS_Interval DEF Chat
      <4>3. Cardinality(work["reader"].new) \in Int
        BY <4>1, <4>2, FS_Subset, FS_CardinalityType
      <4>4. left' = left - Cardinality(work["reader"].new)
        BY <1>9 DEF PageStored
      <4>5. left' \in Int
        BY <4>3, <4>4 DEF WalkOK
      <4> QED
        BY <1>9, <4>5 DEF PageStored, AppendNew, Off, Finished, StopReason
    <3>2. try \in DOMAIN Forms
      BY DEF WalkOK
    <3> QED
      BY <3>1, <3>2 DEF WalkOK
  <2>3. FormsOK'
    <3>1. forms' = ToFront(try) /\ try \in DOMAIN Forms
      BY <1>9 DEF PageStored, WalkOK
    <3> QED
      BY <3>1, ToFrontIs DEF FormsOK
  <2>4. WorkOK'
    <3>1. Off \in Runs
      BY DEF Off, Runs, Listing, Ends
    <3>2. /\ work' = [work EXCEPT !["reader"] = Off] /\ blobs' = blobs
          /\ pc' \in {"walk", "closing"}
      BY <1>9 DEF PageStored, AppendNew, Off, Finished, StopReason
    <3> QED
      BY <1>9, <3>1, <3>2 DEF WorkOK, Runs, Workers, Off
  <2> QED
    BY <2>1, <2>2, <2>3, <2>4
<1>10. ASSUME Close PROVE Typed'
  <2>1. DiskOK'
    BY <1>10 DEF Close, StartWork, Off, DiskOK
  <2>2. WalkOK'
    BY <1>10 DEF Close, StartWork, Off, WalkOK
  <2>3. FormsOK'
    BY <1>10 DEF Close, StartWork, Off, FormsOK
  <2>4. WorkOK'
    <3>1. CASE (first .. Len(blobs)) \ ingested = {}
      BY <1>10, <3>1 DEF Close, WorkOK, Runs
    <3>2. CASE (first .. Len(blobs)) \ ingested # {}
      <4> DEFINE run == [Off EXCEPT !.step = "fetch", !.todo = (first .. Len(blobs)) \ ingested, !.seen = Cached, !.index = index]
      <4>1. (first .. Len(blobs)) \ ingested \in SUBSET (1 .. Len(blobs))
        BY BlobsAre DEF WalkOK
      <4>2. run \in Runs /\ run.step = "fetch"
        BY <4>1 DEF Off, Runs, Ends, Cached, DiskOK
      <4>3. work' = [work EXCEPT !["reader"] = run] /\ pc' = "final" /\ blobs' = blobs
        BY <1>10, <3>2 DEF Close, StartWork
      <4> HIDE DEF run
      <4> QED
        BY <4>2, <4>3 DEF WorkOK, Workers, Runs
    <3> QED
      BY <3>1, <3>2
  <2> QED
    BY <2>1, <2>2, <2>3, <2>4
<1>11. ASSUME RestStored PROVE Typed'
  <2>1. DiskOK'
    <3>1. \E w \in Workers : lines' = [m \in DOMAIN lines |-> lines[m] + IF m \in work[w].new THEN 1 ELSE 0]
      BY <1>11 DEF RestStored, AppendNew, Off, Workers
    <3>3. UNCHANGED <<mailbox, phone, index, blobs, requests, faults>>
      BY <1>11 DEF RestStored, AppendNew, Off
    <3>2. lines' \in [{0} \cup Chat -> Nat]
      <4>1. DOMAIN lines = {0} \cup Chat /\ \A m \in DOMAIN lines : lines[m] \in Nat
        BY DEF DiskOK
      <4> QED
        BY <3>1, <4>1
    <3> QED
      BY <3>2, <3>3 DEF DiskOK
  <2>2. WalkOK'
    BY <1>11 DEF RestStored, AppendNew, Off, WalkOK
  <2>3. FormsOK'
    BY <1>11 DEF RestStored, AppendNew, Off, FormsOK
  <2>4. WorkOK'
    <3>1. Off \in Runs
      BY DEF Off, Runs, Listing, Ends
    <3>2. /\ work' = [work EXCEPT !["reader"] = Off] /\ blobs' = blobs
          /\ pc' = "report"
      BY <1>11 DEF RestStored, AppendNew, Off
    <3> QED
      BY <1>11, <3>1, <3>2 DEF WorkOK, Runs, Workers, Off
  <2> QED
    BY <2>1, <2>2, <2>3, <2>4
<1>12. ASSUME Report PROVE Typed'
  <2>1. DiskOK'
    BY <1>12 DEF Report, DiskOK
  <2>2. WalkOK'
    <3>1. 1 \in DOMAIN Forms
      BY FormsAre
    <3> QED
      BY <1>12, <3>1 DEF Report, WalkOK
  <2>3. FormsOK'
    BY <1>12, FormsAre DEF Report, FormsOK
  <2>4. WorkOK'
    BY <1>12 DEF Report, WorkOK, Runs
  <2> QED
    BY <2>1, <2>2, <2>3, <2>4
<1>13. ASSUME NEW r \in phone, NEW end \in Ends, Answer(r, end) PROVE Typed'
  <2>1. DiskOK'
    <3>1. /\ blobs' = Append(blobs, [msgs |-> Served(r), end |-> end, request |-> r.id]) /\ phone' \subseteq phone
          /\ UNCHANGED <<mailbox, lines, index, requests, faults>>
      BY <1>13 DEF Answer, Notify
    <3>2. [msgs |-> Served(r), end |-> end, request |-> r.id] \in Replied
      BY <1>13 DEF Replied, Served, Ends, DiskOK
    <3>3. blobs' \in Seq(Replied)
      <4>1. blobs \in Seq(Replied)
        BY DEF DiskOK
      <4> QED
        BY <3>1, <3>2, <4>1
    <3> QED
      BY <3>1, <3>3 DEF DiskOK
  <2>2. WalkOK'
    <3>1. Len(blobs') = Len(blobs) + 1 /\ UNCHANGED <<pc, ask, link, first, walkVars, stop, report, requests>>
      BY <1>13 DEF Answer, Notify, DiskOK
    <3>2. Len(blobs) \in Nat
      BY DEF DiskOK
    <3> QED
      BY <3>1, <3>2 DEF WalkOK
  <2>3. FormsOK'
    BY <1>13 DEF Answer, Notify, FormsOK
  <2>4. WorkOK'
    <3>1. Len(blobs') = Len(blobs) + 1 /\ UNCHANGED <<pc, work>>
      BY <1>13 DEF Answer, Notify, DiskOK
    <3>2. 1 .. Len(blobs) \subseteq 1 .. Len(blobs')
      BY <3>1 DEF DiskOK
    <3>3. Runs \subseteq Runs'
      BY <3>2 DEF Runs
    <3> QED
      BY <3>1, <3>3 DEF WorkOK
  <2> QED
    BY <2>1, <2>2, <2>3, <2>4
<1>14. ASSUME NEW bundle \in Bundles, Push(bundle) PROVE Typed'
  <2>1. DiskOK'
    <3>1. blobs' = Append(blobs, [msgs |-> bundle, end |-> "more", request |-> 0]) /\ UNCHANGED <<mailbox, phone, lines, index, requests, faults>>
      BY <1>14 DEF Push, Notify
    <3>2. [msgs |-> bundle, end |-> "more", request |-> 0] \in Replied
      BY DEF Replied, Ends
    <3>3. blobs' \in Seq(Replied)
      <4>1. blobs \in Seq(Replied)
        BY DEF DiskOK
      <4> QED
        BY <3>1, <3>2, <4>1
    <3> QED
      BY <3>1, <3>3 DEF DiskOK
  <2>2. WalkOK'
    <3>1. Len(blobs') = Len(blobs) + 1 /\ UNCHANGED <<pc, ask, link, first, walkVars, stop, report, requests>>
      BY <1>14 DEF Push, Notify, DiskOK
    <3>2. Len(blobs) \in Nat
      BY DEF DiskOK
    <3> QED
      BY <3>1, <3>2 DEF WalkOK
  <2>3. FormsOK'
    BY <1>14 DEF Push, Notify, FormsOK
  <2>4. WorkOK'
    <3>1. Len(blobs') = Len(blobs) + 1 /\ UNCHANGED <<pc, work>>
      BY <1>14 DEF Push, Notify, DiskOK
    <3>2. 1 .. Len(blobs) \subseteq 1 .. Len(blobs')
      BY <3>1 DEF DiskOK
    <3>3. Runs \subseteq Runs'
      BY <3>2 DEF Runs
    <3> QED
      BY <3>1, <3>3 DEF WorkOK
  <2> QED
    BY <2>1, <2>2, <2>3, <2>4
<1>15. ASSUME LoseLink PROVE Typed'
  <2>1. DiskOK'
    <3>1. faults' \in 0 .. MaxFaults /\ UNCHANGED <<mailbox, lines, index, blobs, phone, requests>>
      BY <1>15 DEF LoseLink, Fault, DiskOK
    <3> QED
      BY <3>1 DEF DiskOK
  <2>2. WalkOK'
    BY <1>15 DEF LoseLink, Fault, WalkOK
  <2>3. FormsOK'
    BY <1>15 DEF LoseLink, Fault, FormsOK
  <2>4. WorkOK'
    BY <1>15 DEF LoseLink, Fault, WorkOK, Runs
  <2> QED
    BY <2>1, <2>2, <2>3, <2>4
<1>16. ASSUME Crash PROVE Typed'
  <2>1. DiskOK'
    <3>1. faults' \in 0 .. MaxFaults /\ UNCHANGED <<mailbox, lines, index, blobs, phone, requests>>
      BY <1>16 DEF Crash, Fault, Off, DiskOK
    <3> QED
      BY <3>1 DEF DiskOK
  <2>2. WalkOK'
    <3>1. 1 \in DOMAIN Forms
      BY FormsAre
    <3> QED
      BY <1>16, <3>1 DEF Crash, WalkOK
  <2>3. FormsOK'
    BY <1>16, FormsAre DEF Crash, FormsOK
  <2>4. WorkOK'
    <3>1. Off \in Runs
      BY DEF Off, Runs, Listing, Ends
    <3> QED
      BY <1>16, <3>1 DEF Crash, WorkOK, Runs, Workers, Off
  <2> QED
    BY <2>1, <2>2, <2>3, <2>4
<1>17. ASSUME NEW a \in Asks, NEW extend \in BOOLEAN, StartRead(a, extend) PROVE Typed'
  <2>1. DiskOK'
    BY <1>17 DEF StartRead, DiskOK
  <2>2. WalkOK'
    <3>1. Want(a) \in Int
      BY WantIs
    <3> QED
      BY <1>17, <3>1 DEF StartRead, WalkOK
  <2>3. FormsOK'
    BY <1>17 DEF StartRead, FormsOK
  <2>4. WorkOK'
    BY <1>17 DEF StartRead, WorkOK, Runs
  <2> QED
    BY <2>1, <2>2, <2>3, <2>4
<1>18. ASSUME NEW m \in mailbox, Live(m) PROVE Typed'
  <2>1. DiskOK'
    <3>1. m \in {0} \cup Chat
      BY DEF DiskOK
    <3>2. /\ mailbox' \subseteq mailbox /\ UNCHANGED <<index, blobs, phone, requests>>
          /\ lines' = [lines EXCEPT ![m] = @ + 1] \/ lines' = lines
      BY <1>18 DEF Live
    <3>3. lines' \in [{0} \cup Chat -> Nat]
      <4>1. lines \in [{0} \cup Chat -> Nat] /\ lines[m] + 1 \in Nat
        BY <3>1 DEF DiskOK
      <4>2. [lines EXCEPT ![m] = @ + 1] \in [{0} \cup Chat -> Nat]
        BY <3>1, <4>1
      <4> QED
        BY <3>2, <4>1, <4>2
    <3>4. faults' \in 0 .. MaxFaults
      BY <1>18 DEF Live, Fault, DiskOK
    <3> QED
      BY <3>2, <3>3, <3>4 DEF DiskOK
  <2>2. WalkOK'
    BY <1>18 DEF Live, WalkOK
  <2>3. FormsOK'
    BY <1>18 DEF Live, FormsOK
  <2>4. WorkOK'
    BY <1>18 DEF Live, WorkOK, Runs
  <2> QED
    BY <2>1, <2>2, <2>3, <2>4
<1>19. ASSUME StartReplay PROVE Typed'
  <2>1. DiskOK'
    BY <1>19 DEF StartReplay, StartWork, Off, DiskOK
  <2>2. WalkOK'
    BY <1>19 DEF StartReplay, StartWork, Off, WalkOK
  <2>3. FormsOK'
    BY <1>19 DEF StartReplay, StartWork, Off, FormsOK
  <2>4. WorkOK'
    <3>1. ASSUME NEW todo \in SUBSET (1 .. Len(blobs))
          PROVE  [Off EXCEPT !.step = "fetch", !.todo = todo, !.seen = Cached, !.index = index] \in Runs
      BY DEF Off, Runs, Ends, Cached, DiskOK
    <3>2. DOMAIN blobs \in SUBSET (1 .. Len(blobs))
      BY <1>19, BlobsAre DEF Replies, WalkOK
    <3>3. [Off EXCEPT !.step = "fetch", !.todo = DOMAIN blobs, !.seen = Cached, !.index = index] \in Runs
      BY <3>1, <3>2
    <3>4. [Off EXCEPT !.step = "fetch", !.todo = DOMAIN blobs, !.seen = Cached, !.index = index].step = "fetch"
      BY DEF Off
    <3>5. blobs' = blobs
      BY <1>19 DEF StartReplay, StartWork, Off
    <3> QED
      BY <1>19, <3>3, <3>4, <3>5 DEF StartReplay, StartWork, WorkOK, Workers, Runs
  <2> QED
    BY <2>1, <2>2, <2>3, <2>4
<1>20. ASSUME ReplayStored PROVE Typed'
  <2>1. DiskOK'
    <3>1. \E w \in Workers : lines' = [m \in DOMAIN lines |-> lines[m] + IF m \in work[w].new THEN 1 ELSE 0]
      BY <1>20 DEF ReplayStored, AppendNew, Off, Workers
    <3>3. UNCHANGED <<mailbox, phone, index, blobs, requests, faults>>
      BY <1>20 DEF ReplayStored, AppendNew, Off
    <3>2. lines' \in [{0} \cup Chat -> Nat]
      <4>1. DOMAIN lines = {0} \cup Chat /\ \A m \in DOMAIN lines : lines[m] \in Nat
        BY DEF DiskOK
      <4> QED
        BY <3>1, <4>1
    <3> QED
      BY <3>2, <3>3 DEF DiskOK
  <2>2. WalkOK'
    BY <1>20 DEF ReplayStored, AppendNew, Off, WalkOK
  <2>3. FormsOK'
    BY <1>20 DEF ReplayStored, AppendNew, Off, FormsOK
  <2>4. WorkOK'
    <3>1. Off \in Runs
      BY DEF Off, Runs, Listing, Ends
    <3>2. /\ work' = [work EXCEPT !["replay"] = Off] /\ blobs' = blobs
          /\ pc' = pc
      BY <1>20 DEF ReplayStored, AppendNew, Off
    <3> QED
      BY <1>20, <3>1, <3>2 DEF WorkOK, Runs, Workers, Off
  <2> QED
    BY <2>1, <2>2, <2>3, <2>4
<1>21. CASE UNCHANGED vars
  BY <1>21 DEF DiskOK, WalkOK, FormsOK, WorkOK, Runs
<1>22. ASSUME Beside PROVE Typed'
  <2>1. DiskOK'
    <3>1. index' \in Listing
      <4>1. index' = index \/ (owed # "none" /\ index' = index \cup {owed})
        BY <1>22 DEF Beside, Upsert, UpsertFails, ListenerTakes, ListenerEnds, diskVars
      <4>2. owed \in {"none", "chat", "other"} /\ index \subseteq {"chat", "other"}
        BY DEF DiskOK, LiveOK, Listing
      <4> QED
        BY <4>1, <4>2 DEF Listing
    <3>2. faults' \in 0 .. MaxFaults
      BY <1>22 DEF Beside, Upsert, UpsertFails, ListenerTakes, ListenerEnds, Fault, DiskOK
    <3> QED
      BY <1>22, <3>1, <3>2, BesideKeeps DEF DiskOK
  <2>2. WalkOK'
    <3>1. UNCHANGED <<pc, ask, link, first, try, anchor, left, sent, requests, ingested, blobs, stop, report>>
      BY <1>22, BesideKeeps
    <3> QED
      BY <3>1 DEF WalkOK
  <2>3. FormsOK'
    BY <1>22, BesideKeeps DEF FormsOK
  <2>4. WorkOK'
    BY <1>22, BesideKeeps DEF WorkOK, Runs
  <2> QED
    BY <2>1, <2>2, <2>3, <2>4
<1> QED
  BY <1>1, <1>2, <1>3, <1>4, <1>5, <1>6, <1>7, <1>8, <1>9, <1>10, <1>11, <1>12, <1>13, <1>14,
     <1>15, <1>16, <1>17, <1>18, <1>19, <1>20, <1>21, <1>22 DEF Next, Read, Phone, Fetch, Workers, Ends, Beside

\* The lock of a listener, the row that is owed and the histories of both.
LEMMA LiveStep ==
  ASSUME DiskOK, LiveOK, [Next]_vars
  PROVE  LiveOK'
<1> USE DEF vars, waitVars, historyVars, liveHistory
<1>1. ASSUME NEW m \in mailbox, Live(m) PROVE LiveOK'
  BY <1>1 DEF Live, DiskOK, LiveOK
<1>2. ASSUME Beside PROVE LiveOK'
  BY <1>2 DEF Beside, Upsert, UpsertFails, Unwritten, ListenerTakes, ListenerEnds, LiveOK
<1>3. ASSUME Crash PROVE LiveOK'
  BY <1>3 DEF Crash, Unwritten, LiveOK
<1>4. CASE UNCHANGED <<owed, busy, clobbered, unlisted, dropped>>
  BY <1>4 DEF LiveOK
<1>5. ASSUME NEW w \in Workers, AppendNew(w) PROVE UNCHANGED <<clobbered, unlisted, dropped>>
  BY <1>5 DEF AppendNew
<1>6. PageStored \/ RestStored \/ ReplayStored => UNCHANGED <<owed, busy, clobbered, unlisted, dropped>>
  BY <1>5 DEF PageStored, RestStored, ReplayStored, Workers
<1> QED
  BY <1>1, <1>2, <1>3, <1>4, <1>6 DEF Next, Read, Phone, Fetch, Beside, Connect, ConnectFails, NextPage, Send,
     SendRaises, TakeReplies, NoReply, SaveIndex, Close, Report, Answer, Push, LoseLink, StartRead, StartReplay

\* Ingest, live messages and replays leave one line per message, and one more
\* for a live message; an index that lists the other chat keeps it.
LEMMA IngestStep ==
  ASSUME DiskOK, WalkOK, WorkOK, Once, Noticed, [Next]_vars
  PROVE  Ingest'
<1> USE HistoryAssumption DEF Ingest, vars, waitVars, walkVars, diskVars, liveHistory, historyVars, bounds
<1>1. ASSUME Connect PROVE Ingest'
  BY <1>1 DEF Connect, Once, Alone, Fresh, Due, Noticed
<1>2. ASSUME ConnectFails PROVE Ingest'
  BY <1>2 DEF ConnectFails, Fault, Once, Alone, Fresh, Due, Noticed
<1>3. ASSUME NextPage PROVE Ingest'
  BY <1>3 DEF NextPage, Finished, Once, Alone, Fresh, Due, Noticed
<1>4. ASSUME Send PROVE Ingest'
  BY <1>4 DEF Send, Once, Alone, Fresh, Due, Noticed
<1>5. ASSUME SendRaises PROVE Ingest'
  BY <1>5 DEF SendRaises, Finished, Once, Alone, Fresh, Due, Noticed
<1>6. ASSUME TakeReplies PROVE Ingest'
  <2>1. /\ StartWork("reader", Replies) /\ UNCHANGED <<mailbox, lines, index, clobbered, unlisted, owed>>
    BY <1>6 DEF TakeReplies
  <2>2. /\ work'["reader"] = [Off EXCEPT !.step = "fetch", !.todo = Replies, !.seen = Cached, !.index = index]
        /\ \A v \in Workers \ {"reader"} : work'[v] = work[v]
    BY <2>1 DEF StartWork, WorkOK, Workers
  <2>3. work'["reader"].step = "fetch" /\ work'["reader"].seen = Cached /\ work'["reader"].index = index
    BY <2>2 DEF Off
  <2>4. Once'
    <3>1. SUFFICES ASSUME overlap' = "no" PROVE Once'
      BY DEF Once
    <3>2. overlap = "no" /\ \A v \in Workers \ {"reader"} : work[v].step = "off"
      BY <2>1, <3>1 DEF StartWork
    <3>3. \A m \in Chat \ Cached : lines[m] <= Due(m)
      BY DEF Cached, Due, DiskOK
    <3>4. Alone'
      BY <2>2, <3>2 DEF Alone
    <3>5. Fresh'
      BY <2>1, <2>2, <2>3, <3>2, <3>3 DEF Fresh, Due
    <3> QED
      BY <2>1, <3>2, <3>4, <3>5 DEF Once, Due
  <2>5. Noticed'
    BY <2>1, <2>2, <2>3 DEF Noticed
  <2> QED
    BY <2>4, <2>5
<1>7. ASSUME NoReply PROVE Ingest'
  BY <1>7 DEF NoReply, Finished, Once, Alone, Fresh, Due, Noticed
<1>8. ASSUME NEW w \in Workers, NEW fetched \in SUBSET work[w].todo, SaveIndex(w, fetched) PROVE Ingest'
  <2>1. /\ work[w].step = "fetch" /\ UNCHANGED <<mailbox, lines, overlap, clobbered, unlisted, owed>>
        /\ index' = Listed(work[w], IF fetched = {} THEN {} ELSE {"chat"})
    BY <1>8 DEF SaveIndex
  <2>2. work'[w].step = "append" /\ work'[w].new = Contents(fetched) \ work[w].seen /\ \A v \in Workers \ {w} : work'[v] = work[v]
    BY <1>8 DEF SaveIndex, WorkOK, Runs, Stored
  <2>3. Contents(fetched) \subseteq Chat
    BY BlobsAre DEF Contents, WorkOK, Runs
  <2>4. Once'
    <3>1. SUFFICES ASSUME overlap = "no" PROVE Once'
      BY <2>1 DEF Once
    <3>2. Alone'
      BY <2>1, <2>2, <3>1 DEF Once, Alone
    <3>3. \A m \in work'[w].new : lines[m] <= Due(m)
      BY <2>1, <2>2, <2>3, <3>1 DEF Once, Fresh
    <3>4. Fresh'
      BY <2>1, <2>2, <3>1, <3>3 DEF Once, Fresh, Due
    <3> QED
      BY <2>1, <3>1, <3>2, <3>4 DEF Once, Due
  <2>5. Noticed'
    BY <2>1, <2>2 DEF Noticed, Listed
  <2> QED
    BY <2>4, <2>5
<1>9. ASSUME PageStored PROVE Ingest'
  <2>1. /\ lines' = [m \in DOMAIN lines |-> lines[m] + IF m \in work["reader"].new THEN 1 ELSE 0]
        /\ work' = [work EXCEPT !["reader"] = Off] /\ work["reader"].step = "append"
        /\ UNCHANGED <<mailbox, index, overlap, clobbered, unlisted, owed>>
    BY <1>9 DEF PageStored, AppendNew
  <2>2. DOMAIN lines = {0} \cup Chat /\ DOMAIN work = Workers /\ work["reader"].new \in SUBSET Chat /\ \A m \in Chat : lines[m] \in Nat
    BY DEF DiskOK, WorkOK, Workers, Runs
  <2>3. work'["reader"].step = "off" /\ \A v \in Workers \ {"reader"} : work'[v] = work[v]
    BY <2>1, <2>2 DEF Off, Workers
  <2>4. Once'
    <3>1. SUFFICES ASSUME overlap = "no" PROVE Once'
      BY <2>1 DEF Once
    <3>2. \A v \in Workers : work'[v].step = "off"
      BY <2>1, <2>3, <3>1 DEF Once, Alone, Workers
    <3>3. \A m \in Chat : lines'[m] <= 1 + Due(m)
      <4>1. TAKE m \in Chat
      <4>2. lines'[m] = lines[m] + (IF m \in work["reader"].new THEN 1 ELSE 0) /\ lines[m] \in Nat
        BY <2>1, <2>2
      <4>3. lines[m] <= 1 + Due(m) /\ (m \in work["reader"].new => lines[m] <= Due(m)) /\ Due(m) \in {0, 1}
        BY <2>1, <3>1 DEF Once, Fresh, Workers, Due
      <4> QED
        BY <4>2, <4>3
    <3> QED
      BY <2>1, <3>2, <3>3 DEF Once, Alone, Fresh, Due
  <2>5. Noticed'
    <3>1. lines'[0] = lines[0]
      <4>1. 0 \notin work["reader"].new /\ 0 \in DOMAIN lines /\ lines[0] \in Nat
        BY <2>2 DEF Chat, DiskOK
      <4> QED
        BY <2>1, <4>1
    <3> QED
      BY <2>1, <2>3, <3>1 DEF Noticed
  <2> QED
    BY <2>4, <2>5
<1>10. ASSUME Close PROVE Ingest'
  <2>a. CASE work' = work /\ overlap' = overlap
    BY <1>10, <2>a DEF Close, Once, Alone, Fresh, Due, Noticed
  <2>b. CASE (first .. Len(blobs)) \ ingested # {}
    <3>1. /\ StartWork("reader", (first .. Len(blobs)) \ ingested) /\ UNCHANGED <<mailbox, lines, index, clobbered, unlisted, owed>>
      BY <1>10, <2>b DEF Close
    <3>2. /\ work'["reader"] = [Off EXCEPT !.step = "fetch", !.todo = (first .. Len(blobs)) \ ingested, !.seen = Cached, !.index = index]
          /\ \A v \in Workers \ {"reader"} : work'[v] = work[v]
      BY <3>1 DEF StartWork, WorkOK, Workers
    <3>3. work'["reader"].step = "fetch" /\ work'["reader"].seen = Cached /\ work'["reader"].index = index
      BY <3>2 DEF Off
    <3>4. Once'
      <4>1. SUFFICES ASSUME overlap' = "no" PROVE Once'
        BY DEF Once
      <4>2. overlap = "no" /\ \A v \in Workers \ {"reader"} : work[v].step = "off"
        BY <3>1, <4>1 DEF StartWork
      <4>3. \A m \in Chat \ Cached : lines[m] <= Due(m)
        BY DEF Cached, Due, DiskOK
      <4>4. Alone'
        BY <3>2, <4>2 DEF Alone
      <4>5. Fresh'
        BY <3>1, <3>2, <3>3, <4>2, <4>3 DEF Fresh, Due
      <4> QED
        BY <3>1, <4>2, <4>4, <4>5 DEF Once, Due
    <3>5. Noticed'
      BY <3>1, <3>2, <3>3 DEF Noticed
    <3> QED
      BY <3>4, <3>5
  <2> QED
    BY <1>10, <2>a, <2>b DEF Close
<1>11. ASSUME RestStored PROVE Ingest'
  <2>1. /\ lines' = [m \in DOMAIN lines |-> lines[m] + IF m \in work["reader"].new THEN 1 ELSE 0]
        /\ work' = [work EXCEPT !["reader"] = Off] /\ work["reader"].step = "append"
        /\ UNCHANGED <<mailbox, index, overlap, clobbered, unlisted, owed>>
    BY <1>11 DEF RestStored, AppendNew
  <2>2. DOMAIN lines = {0} \cup Chat /\ DOMAIN work = Workers /\ work["reader"].new \in SUBSET Chat /\ \A m \in Chat : lines[m] \in Nat
    BY DEF DiskOK, WorkOK, Workers, Runs
  <2>3. work'["reader"].step = "off" /\ \A v \in Workers \ {"reader"} : work'[v] = work[v]
    BY <2>1, <2>2 DEF Off, Workers
  <2>4. Once'
    <3>1. SUFFICES ASSUME overlap = "no" PROVE Once'
      BY <2>1 DEF Once
    <3>2. \A v \in Workers : work'[v].step = "off"
      BY <2>1, <2>3, <3>1 DEF Once, Alone, Workers
    <3>3. \A m \in Chat : lines'[m] <= 1 + Due(m)
      <4>1. TAKE m \in Chat
      <4>2. lines'[m] = lines[m] + (IF m \in work["reader"].new THEN 1 ELSE 0) /\ lines[m] \in Nat
        BY <2>1, <2>2
      <4>3. lines[m] <= 1 + Due(m) /\ (m \in work["reader"].new => lines[m] <= Due(m)) /\ Due(m) \in {0, 1}
        BY <2>1, <3>1 DEF Once, Fresh, Workers, Due
      <4> QED
        BY <4>2, <4>3
    <3> QED
      BY <2>1, <3>2, <3>3 DEF Once, Alone, Fresh, Due
  <2>5. Noticed'
    <3>1. lines'[0] = lines[0]
      <4>1. 0 \notin work["reader"].new /\ 0 \in DOMAIN lines /\ lines[0] \in Nat
        BY <2>2 DEF Chat, DiskOK
      <4> QED
        BY <2>1, <4>1
    <3> QED
      BY <2>1, <2>3, <3>1 DEF Noticed
  <2> QED
    BY <2>4, <2>5
<1>12. ASSUME Report PROVE Ingest'
  BY <1>12 DEF Report, Once, Alone, Fresh, Due, Noticed
<1>13. ASSUME NEW r \in phone, NEW end \in Ends, Answer(r, end) PROVE Ingest'
  BY <1>13 DEF Answer, Notify, Once, Alone, Fresh, Due, Noticed
<1>14. ASSUME NEW bundle \in Bundles, Push(bundle) PROVE Ingest'
  BY <1>14 DEF Push, Notify, Once, Alone, Fresh, Due, Noticed
<1>15. ASSUME LoseLink PROVE Ingest'
  BY <1>15 DEF LoseLink, Fault, Once, Alone, Fresh, Due, Noticed
<1>16. ASSUME Crash PROVE Ingest'
  <2>1. work'["reader"].step = "off" /\ work'["replay"] = work["replay"] /\ UNCHANGED <<mailbox, lines, index, overlap, clobbered>>
    BY <1>16 DEF Crash, WorkOK, Workers, Off
  <2>2. unlisted' = "no" => owed # "other" /\ unlisted = "no"
    BY <1>16 DEF Crash, Unwritten
  <2> QED
    BY <2>1, <2>2 DEF Once, Alone, Fresh, Due, Noticed, Workers
<1>17. ASSUME NEW a \in Asks, NEW extend \in BOOLEAN, StartRead(a, extend) PROVE Ingest'
  BY <1>17 DEF StartRead, Once, Alone, Fresh, Due, Noticed
<1>18. ASSUME NEW m \in mailbox, Live(m) PROVE Ingest'
  <2>1. /\ m \in mailbox /\ mailbox' = mailbox \ {m} /\ UNCHANGED <<work, overlap, index, clobbered, unlisted>>
        /\ \/ lines' = [lines EXCEPT ![m] = @ + 1] /\ owed = "none" /\ (m = 0 => owed' = "other")
           \/ UNCHANGED <<lines, owed>>
    BY <1>18 DEF Live
  <2>2. DOMAIN lines = {0} \cup Chat /\ m \in Mail /\ mailbox \subseteq Mail /\ \A n \in Chat : lines[n] \in Nat
    BY <2>1 DEF DiskOK
  <2>3. \A n \in Chat : /\ Due(n) \in {0, 1} /\ Due(n)' \in {0, 1} /\ Due(n) <= Due(n)'
                        /\ n = m => Due(n) = 0 /\ Due(n)' = 1
    BY <2>1, <2>2 DEF Due
  <2>4. \A n \in Chat : lines'[n] = lines[n] \/ (n = m /\ lines'[n] = lines[n] + 1)
    BY <2>1, <2>2
  <2>5. Once'
    <3>1. SUFFICES ASSUME overlap = "no" PROVE Once'
      BY <2>1 DEF Once
    <3>2. \A n \in Chat : lines[n] <= Due(n) => lines'[n] <= Due(n)'
      BY <2>2, <2>3, <2>4
    <3>3. \A n \in Chat : lines[n] <= 1 + Due(n) => lines'[n] <= 1 + Due(n)'
      BY <2>2, <2>3, <2>4
    <3>4. \A w \in Workers : work[w].new \subseteq Chat
      BY DEF WorkOK, Runs
    <3>5. Fresh'
      BY <2>1, <3>1, <3>2, <3>4 DEF Once, Fresh
    <3> QED
      BY <2>1, <3>1, <3>3, <3>5 DEF Once, Alone
  <2>6. Noticed'
    <3>1. CASE m = 0
      BY <2>1, <3>1 DEF Noticed
    <3>2. CASE m # 0
      BY <2>1, <2>2, <3>2 DEF Noticed
    <3> QED
      BY <3>1, <3>2
  <2> QED
    BY <2>5, <2>6
<1>19. ASSUME StartReplay PROVE Ingest'
  <2>1. /\ StartWork("replay", DOMAIN blobs) /\ UNCHANGED <<mailbox, lines, index, clobbered, unlisted, owed>>
    BY <1>19 DEF StartReplay
  <2>2. /\ work'["replay"] = [Off EXCEPT !.step = "fetch", !.todo = DOMAIN blobs, !.seen = Cached, !.index = index]
        /\ \A v \in Workers \ {"replay"} : work'[v] = work[v]
    BY <2>1 DEF StartWork, WorkOK, Workers
  <2>3. work'["replay"].step = "fetch" /\ work'["replay"].seen = Cached /\ work'["replay"].index = index
    BY <2>2 DEF Off
  <2>4. Once'
    <3>1. SUFFICES ASSUME overlap' = "no" PROVE Once'
      BY DEF Once
    <3>2. overlap = "no" /\ \A v \in Workers \ {"replay"} : work[v].step = "off"
      BY <2>1, <3>1 DEF StartWork
    <3>3. \A m \in Chat \ Cached : lines[m] <= Due(m)
      BY DEF Cached, Due, DiskOK
    <3>4. Alone'
      BY <2>2, <3>2 DEF Alone
    <3>5. Fresh'
      BY <2>1, <2>2, <2>3, <3>2, <3>3 DEF Fresh, Due
    <3> QED
      BY <2>1, <3>2, <3>4, <3>5 DEF Once, Due
  <2>5. Noticed'
    BY <2>1, <2>2, <2>3 DEF Noticed
  <2> QED
    BY <2>4, <2>5
<1>20. ASSUME ReplayStored PROVE Ingest'
  <2>1. /\ lines' = [m \in DOMAIN lines |-> lines[m] + IF m \in work["replay"].new THEN 1 ELSE 0]
        /\ work' = [work EXCEPT !["replay"] = Off] /\ work["replay"].step = "append"
        /\ UNCHANGED <<mailbox, index, overlap, clobbered, unlisted, owed>>
    BY <1>20 DEF ReplayStored, AppendNew
  <2>2. DOMAIN lines = {0} \cup Chat /\ DOMAIN work = Workers /\ work["replay"].new \in SUBSET Chat /\ \A m \in Chat : lines[m] \in Nat
    BY DEF DiskOK, WorkOK, Workers, Runs
  <2>3. work'["replay"].step = "off" /\ \A v \in Workers \ {"replay"} : work'[v] = work[v]
    BY <2>1, <2>2 DEF Off, Workers
  <2>4. Once'
    <3>1. SUFFICES ASSUME overlap = "no" PROVE Once'
      BY <2>1 DEF Once
    <3>2. \A v \in Workers : work'[v].step = "off"
      BY <2>1, <2>3, <3>1 DEF Once, Alone, Workers
    <3>3. \A m \in Chat : lines'[m] <= 1 + Due(m)
      <4>1. TAKE m \in Chat
      <4>2. lines'[m] = lines[m] + (IF m \in work["replay"].new THEN 1 ELSE 0) /\ lines[m] \in Nat
        BY <2>1, <2>2
      <4>3. lines[m] <= 1 + Due(m) /\ (m \in work["replay"].new => lines[m] <= Due(m)) /\ Due(m) \in {0, 1}
        BY <2>1, <3>1 DEF Once, Fresh, Workers, Due
      <4> QED
        BY <4>2, <4>3
    <3> QED
      BY <2>1, <3>2, <3>3 DEF Once, Alone, Fresh, Due
  <2>5. Noticed'
    <3>1. lines'[0] = lines[0]
      <4>1. 0 \notin work["replay"].new /\ 0 \in DOMAIN lines /\ lines[0] \in Nat
        BY <2>2 DEF Chat, DiskOK
      <4> QED
        BY <2>1, <4>1
    <3> QED
      BY <2>1, <2>3, <3>1 DEF Noticed
  <2> QED
    BY <2>4, <2>5
<1>21. CASE UNCHANGED vars
  BY <1>21 DEF Once, Alone, Fresh, Due, Noticed
<1>22. ASSUME Beside PROVE Ingest'
  <2>1. UNCHANGED <<mailbox, lines, work, overlap>>
    BY <1>22, BesideKeeps
  <2>2. Once'
    BY <2>1 DEF Once, Alone, Fresh, Due
  <2>3. Noticed'
    <3>1. CASE Upsert
      <4>1. CASE owed = "other"
        BY <2>1, <3>1, <4>1 DEF Upsert, Noticed
      <4>2. CASE owed # "other"
        BY <2>1, <3>1, <4>2 DEF Upsert, Noticed
      <4> QED
        BY <4>1, <4>2
    <3>2. CASE UpsertFails
      BY <2>1, <3>2 DEF UpsertFails, Unwritten, Noticed
    <3>3. CASE ListenerTakes \/ ListenerEnds
      BY <2>1, <3>3 DEF ListenerTakes, ListenerEnds, Noticed
    <3> QED
      BY <1>22, <3>1, <3>2, <3>3 DEF Beside
  <2> QED
    BY <2>2, <2>3
<1> QED
  BY <1>1, <1>2, <1>3, <1>4, <1>5, <1>6, <1>7, <1>8, <1>9, <1>10, <1>11, <1>12, <1>13, <1>14,
     <1>15, <1>16, <1>17, <1>18, <1>19, <1>20, <1>21, <1>22 DEF Next, Read, Phone, Fetch, Workers, Ends, Beside

\* The same for two runs at the same time.
LEMMA ApartStep ==
  ASSUME DiskOK, WorkOK, Apart, [Next]_vars
  PROVE  Apart'
<1> USE DEF vars, waitVars, walkVars, diskVars, liveHistory, historyVars, bounds
<1>1. ASSUME NEW w \in Workers, NEW todo, StartWork(w, todo), UNCHANGED <<lines, mailbox>> PROVE Apart'
  <2>1. work'[w].step = "fetch" /\ work'[w].seen = Cached /\ \A v \in Workers \ {w} : work'[v] = work[v]
    BY <1>1 DEF StartWork, Off, WorkOK
  <2>2. ASSUME NEW m \in Chat PROVE (lines[m] + Taken("reader", m) + Taken("replay", m) <= 2 + Due(m))'
    <3>1. Taken(w, m)' = (IF lines[m] > 0 THEN 0 ELSE 1) /\ \A v \in Workers \ {w} : Taken(v, m)' = Taken(v, m)
      BY <2>1 DEF Taken, Cached
    <3>2. lines[m] \in Nat /\ lines'[m] = lines[m] /\ Due(m)' = Due(m) /\ Due(m) \in {0, 1}
      BY <1>1 DEF DiskOK, Due
    <3>3. Taken("reader", m) \in {0, 1} /\ Taken("replay", m) \in {0, 1}
      BY DEF Taken
    <3>4. lines[m] + Taken("reader", m) + Taken("replay", m) <= 2 + Due(m)
      BY DEF Apart
    <3>5. CASE w = "reader"
      BY <3>1, <3>2, <3>3, <3>4, <3>5 DEF Workers
    <3>6. CASE w = "replay"
      BY <3>1, <3>2, <3>3, <3>4, <3>6 DEF Workers
    <3> QED
      BY <3>5, <3>6 DEF Workers
  <2> QED
    BY <2>2 DEF Apart
<1>2. ASSUME NEW w \in Workers, AppendNew(w), UNCHANGED mailbox PROVE Apart'
  <2>1. /\ work[w].step = "append" /\ work[w].new \in SUBSET Chat
        /\ lines' = [m \in DOMAIN lines |-> lines[m] + IF m \in work[w].new THEN 1 ELSE 0]
        /\ DOMAIN lines = {0} \cup Chat
    BY <1>2 DEF AppendNew, DiskOK, WorkOK, Runs
  <2>2. work'[w].step = "off" /\ \A v \in Workers \ {w} : work'[v] = work[v]
    BY <1>2 DEF AppendNew, Off, WorkOK
  <2>3. ASSUME NEW m \in Chat PROVE (lines[m] + Taken("reader", m) + Taken("replay", m) <= 2 + Due(m))'
    <3>1. lines'[m] = lines[m] + Taken(w, m) /\ Taken(w, m)' = 0
      BY <2>1, <2>2 DEF Taken
    <3>2. \A v \in Workers \ {w} : Taken(v, m)' = Taken(v, m)
      BY <2>2 DEF Taken
    <3>3. lines[m] \in Nat /\ Due(m)' = Due(m) /\ Due(m) \in {0, 1}
      BY <1>2 DEF DiskOK, Due
    <3>4. Taken("reader", m) \in {0, 1} /\ Taken("replay", m) \in {0, 1}
      BY DEF Taken
    <3>5. lines[m] + Taken("reader", m) + Taken("replay", m) <= 2 + Due(m)
      BY DEF Apart
    <3>6. CASE w = "reader"
      BY <3>1, <3>2, <3>3, <3>4, <3>5, <3>6 DEF Workers
    <3>7. CASE w = "replay"
      BY <3>1, <3>2, <3>3, <3>4, <3>5, <3>7 DEF Workers
    <3> QED
      BY <3>6, <3>7 DEF Workers
  <2> QED
    BY <2>3 DEF Apart
<1>3. ASSUME NEW w \in Workers, NEW fetched \in SUBSET work[w].todo, SaveIndex(w, fetched) PROVE Apart'
  <2>1. work[w].step = "fetch" /\ UNCHANGED <<lines, mailbox>>
    BY <1>3 DEF SaveIndex
  <2>2. work'[w].step = "append" /\ work'[w].new = Contents(fetched) \ work[w].seen /\ \A v \in Workers \ {w} : work'[v] = work[v]
    BY <1>3 DEF SaveIndex, WorkOK, Runs, Stored
  <2>3. ASSUME NEW m \in Chat PROVE (lines[m] + Taken("reader", m) + Taken("replay", m) <= 2 + Due(m))'
    <3>1. \A v \in Workers : Taken(v, m) \in {0, 1} /\ Taken(v, m)' \in {0, 1} /\ Taken(v, m)' <= Taken(v, m)
      <4>1. TAKE v \in Workers
      <4>2. CASE v = w
        BY <2>1, <2>2, <4>2 DEF Taken
      <4>3. CASE v # w
        BY <2>2, <4>3 DEF Taken
      <4> QED
        BY <4>2, <4>3
    <3>2. lines[m] \in Nat /\ lines'[m] = lines[m] /\ Due(m)' = Due(m) /\ Due(m) \in {0, 1}
      BY <2>1 DEF DiskOK, Due
    <3>3. lines[m] + Taken("reader", m) + Taken("replay", m) <= 2 + Due(m)
      BY DEF Apart
    <3>4. "reader" \in Workers /\ "replay" \in Workers
      BY DEF Workers
    <3> QED
      BY <3>1, <3>2, <3>3, <3>4
  <2> QED
    BY <2>3 DEF Apart
<1>4. ASSUME NEW m \in mailbox, Live(m) PROVE Apart'
  <2>1. /\ m \in {0} \cup Chat /\ m \in Mail /\ mailbox' = mailbox \ {m} /\ work' = work
        /\ lines' = [lines EXCEPT ![m] = @ + 1] \/ lines' = lines
    BY <1>4, HistoryAssumption DEF Live, DiskOK
  <2>2. ASSUME NEW n \in Chat PROVE (lines[n] + Taken("reader", n) + Taken("replay", n) <= 2 + Due(n))'
    <3>1. Taken("reader", n)' = Taken("reader", n) /\ Taken("replay", n)' = Taken("replay", n)
      BY <2>1 DEF Taken
    <3>2. Taken("reader", n) \in {0, 1} /\ Taken("replay", n) \in {0, 1}
      BY DEF Taken
    <3>3. /\ lines[n] \in Nat /\ Due(n) \in {0, 1} /\ Due(n)' \in {0, 1} /\ Due(n) <= Due(n)'
          /\ n = m => Due(n) = 0 /\ Due(n)' = 1
      BY <2>1 DEF Due, DiskOK
    <3>4. lines'[n] = lines[n] \/ (n = m /\ lines'[n] = lines[n] + 1)
      BY <2>1 DEF DiskOK
    <3>5. lines[n] + Taken("reader", n) + Taken("replay", n) <= 2 + Due(n)
      BY DEF Apart
    <3> QED
      BY <3>1, <3>2, <3>3, <3>4, <3>5
  <2> QED
    BY <2>2 DEF Apart
<1>5. ASSUME Crash PROVE Apart'
  <2>1. work'["reader"].step = "off" /\ work'["replay"] = work["replay"] /\ UNCHANGED <<mailbox, lines>>
    BY <1>5 DEF Crash, WorkOK, Workers, Off
  <2>2. ASSUME NEW m \in Chat PROVE (lines[m] + Taken("reader", m) + Taken("replay", m) <= 2 + Due(m))'
    <3>1. Taken("reader", m)' = 0 /\ Taken("replay", m)' = Taken("replay", m)
      BY <2>1 DEF Taken
    <3>2. /\ lines[m] \in Nat /\ lines'[m] = lines[m] /\ Due(m)' = Due(m) /\ Due(m) \in {0, 1}
          /\ Taken("reader", m) \in {0, 1} /\ Taken("replay", m) \in {0, 1}
      BY <2>1 DEF DiskOK, Due, Taken
    <3>3. lines[m] + Taken("reader", m) + Taken("replay", m) <= 2 + Due(m)
      BY DEF Apart
    <3> QED
      BY <3>1, <3>2, <3>3
  <2> QED
    BY <2>2 DEF Apart
<1>6. CASE UNCHANGED <<lines, work, mailbox>>
  BY <1>6 DEF Apart, Taken, Due
<1>7. TakeReplies \/ StartReplay => Apart'
  BY <1>1 DEF TakeReplies, StartReplay, Workers
<1>8. Close => Apart'
  <2> SUFFICES ASSUME Close PROVE Apart'
    OBVIOUS
  <2>1. UNCHANGED <<lines, mailbox>> /\ (work' = work \/ \E todo : StartWork("reader", todo))
    BY DEF Close
  <2> QED
    BY <1>1, <1>6, <2>1 DEF Workers
<1>9. PageStored \/ RestStored \/ ReplayStored => Apart'
  BY <1>2 DEF PageStored, RestStored, ReplayStored, Workers
<1>10. ASSUME Beside PROVE Apart'
  BY <1>6, <1>10, BesideKeeps
<1> QED
  BY <1>3, <1>4, <1>5, <1>6, <1>7, <1>8, <1>9, <1>10 DEF Next, Read, Phone, Fetch, Workers, Beside, Connect, ConnectFails,
     NextPage, Send, SendRaises, NoReply, Report, Answer, Push, LoseLink, StartRead

\* What a change to none of it keeps.
LEMMA CoverKept ==
  ASSUME Folded, Anchored, NoHoles, MailIsNewer, UNCHANGED <<lines, mailbox, blobs, bundled, aside, dropped, work, phone>>
  PROVE  (Folded /\ Anchored /\ NoHoles /\ MailIsNewer)'
<1>1. Cached' = Cached /\ \A S : Contents(S)' = Contents(S)
  BY DEF Cached, Contents
<1>2. Folded'
  BY <1>1 DEF Folded
<1>3. Anchored'
  BY <1>1 DEF Anchored
<1>4. NoHoles'
  BY <1>1 DEF NoHoles, Solid
<1>5. MailIsNewer'
  BY <1>1 DEF MailIsNewer, Lasting
<1> QED
  BY <1>2, <1>3, <1>4, <1>5

\* Appending what a run found keeps the cache whole.
LEMMA CoverAppended ==
  ASSUME DiskOK, WorkOK, Folded, Anchored, NoHoles, MailIsNewer, Empty, NEW w \in Workers, AppendNew(w), UNCHANGED <<mailbox, phone>>
  PROVE  (Folded /\ Anchored /\ NoHoles /\ MailIsNewer)' /\ Cached' = Cached \cup work[w].new /\ (Cached = {} => Cached' = {})
<1> DEFINE run == work[w]
<1>1. /\ run.step = "append" /\ run.new \in SUBSET Chat /\ run.todo \in SUBSET (1 .. Len(blobs))
      /\ lines' = [m \in DOMAIN lines |-> lines[m] + IF m \in run.new THEN 1 ELSE 0]
      /\ UNCHANGED <<blobs, mailbox, phone, dropped>>
  BY DEF AppendNew, WorkOK, Runs, liveHistory
<1>2. work'[w].step = "off" /\ \A v \in Workers \ {w} : work'[v] = work[v]
  BY DEF AppendNew, Off, WorkOK
<1>3. bundled \subseteq bundled' /\ Contents({i \in run.todo : blobs[i].request = 0}) \cap run.new \subseteq bundled'
  BY DEF AppendNew
<1>4. aside' \subseteq aside \cup run.new
  BY DEF AppendNew
<1>5. Cached' = Cached \cup run.new
  <2>1. \A m \in Chat : lines[m] \in Nat /\ lines'[m] = lines[m] + IF m \in run.new THEN 1 ELSE 0
    BY <1>1 DEF DiskOK
  <2>2. \A m \in Chat : lines'[m] > 0 <=> lines[m] > 0 \/ m \in run.new
    BY <2>1
  <2> HIDE DEF run
  <2> QED
    BY <1>1, <2>2 DEF Cached
<1>6. \A S : Contents(S)' = Contents(S)
  BY <1>1 DEF Contents
<1>7. run.new \subseteq Contents(run.todo) /\ Contents(run.todo) \subseteq Cached \cup run.new
  BY <1>1 DEF Folded
<1>8. Cached = {} => Cached' = {}
  <2> SUFFICES ASSUME Cached = {} PROVE Cached' = {}
    OBVIOUS
  <2>1. Len(blobs) = 0
    BY DEF Empty
  <2>2. run.todo = {}
    <3>1. 1 .. 0 = {}
      OBVIOUS
    <3> QED
      BY <1>1, <2>1, <3>1
  <2> QED
    BY <1>5, <1>7, <2>2 DEF Contents
<1> HIDE DEF run
<1>9. Folded'
  BY <1>2, <1>5, <1>6 DEF Folded
<1>10. Anchored'
  BY <1>1, <1>5 DEF Anchored
<1>11. NoHoles'
  <2> SUFFICES ASSUME NEW c \in Cached', NEW m \in Chat, c < m PROVE m \in Cached' \cup mailbox' \cup dropped' \/ \E b \in bundled' : b < m
    BY DEF NoHoles, Solid
  <2>1. CASE c \in Cached
    BY <1>1, <1>3, <1>5, <2>1 DEF NoHoles, Solid
  <2>2. CASE c \notin Cached
    <3>1. c \in run.new /\ c \in Chat
      BY <1>1, <1>5, <2>2
    <3>2. PICK i \in run.todo : c \in blobs[i].msgs
      BY <1>7, <3>1 DEF Contents
    <3>3. CASE blobs[i].request = 0
      <4>1. c \in Contents({j \in run.todo : blobs[j].request = 0})
        BY <3>2, <3>3 DEF Contents
      <4> QED
        BY <1>3, <3>1, <4>1
    <3>4. CASE blobs[i].request # 0
      <4>1. PICK a \in Cached : Fits(blobs[i], a)
        BY <1>1, <3>2, <3>4, BlobsAre DEF Anchored
      <4>2. PICK n \in 0 .. Page : blobs[i].msgs = Before(a, n)
        BY <4>1 DEF Fits
      <4>3. a \in Int /\ m \in Int /\ c \in Int /\ n \in Int /\ c < a /\ a - c <= n
        BY <3>2, <4>1, <4>2 DEF Before, Cached, Chat
      <4>4. CASE m < a
        <5>1. m \in blobs[i].msgs
          BY <4>2, <4>3, <4>4 DEF Before
        <5>2. m \in Contents(run.todo)
          BY <3>2, <5>1 DEF Contents
        <5> QED
          BY <1>5, <1>7, <5>2
      <4>5. CASE m = a
        BY <1>5, <4>1, <4>5
      <4>6. CASE m > a
        BY <1>1, <1>3, <1>5, <4>1, <4>3, <4>6 DEF NoHoles, Solid
      <4> QED
        BY <4>3, <4>4, <4>5, <4>6
    <3> QED
      BY <3>3, <3>4
  <2> QED
    BY <2>1, <2>2
<1>12. MailIsNewer'
  <2> SUFFICES ASSUME Cached' # {}, NEW m \in mailbox' \ {0} PROVE \E x \in Cached' : Lasting(x)' /\ x < m
    BY DEF MailIsNewer
  <2>1. PICK x \in Cached : Lasting(x) /\ x < m
    BY <1>1, <1>8 DEF MailIsNewer
  <2>2. x \notin run.new /\ x \notin aside
    BY <1>1, <2>1 DEF Lasting, run
  <2>3. Lasting(x)'
    BY <1>2, <1>4, <1>5, <2>1, <2>2 DEF Lasting
  <2> QED
    BY <1>5, <2>1, <2>3
<1> QED
  BY <1>5, <1>8, <1>9, <1>10, <1>11, <1>12 DEF run

\* A run of ingest begins with all that is cached.
LEMMA CoverStarted ==
  ASSUME WorkOK, Folded, Anchored, NoHoles, MailIsNewer, NEW w \in Workers, NEW todo, StartWork(w, todo),
         UNCHANGED <<lines, mailbox, blobs, bundled, aside, dropped, phone>>
  PROVE  (Folded /\ Anchored /\ NoHoles /\ MailIsNewer)' /\ Cached' = Cached
<1>1. Cached' = Cached /\ \A S : Contents(S)' = Contents(S)
  BY DEF Cached, Contents
<1>2. work'[w].step = "fetch" /\ work'[w].seen = Cached /\ \A v \in Workers \ {w} : work'[v] = work[v]
  BY DEF StartWork, Off, WorkOK
<1>3. Folded'
  BY <1>1, <1>2 DEF Folded
<1>4. Anchored'
  BY <1>1 DEF Anchored
<1>5. NoHoles'
  BY <1>1 DEF NoHoles, Solid
<1>6. MailIsNewer'
  <2>1. ASSUME NEW x \in Cached, Lasting(x) PROVE Lasting(x)'
    BY <1>1, <1>2, <2>1 DEF Lasting
  <2> QED
    BY <1>1, <2>1 DEF MailIsNewer
<1> QED
  BY <1>1, <1>3, <1>4, <1>5, <1>6

\* A notification that begins at a cached message, or was pushed, fits.
LEMMA CoverNotified ==
  ASSUME DiskOK, WorkOK, Folded, Anchored, NoHoles, MailIsNewer, NEW b, b.request # 0 => \E a \in Cached : Fits(b, a),
         blobs' = Append(blobs, b), phone' \subseteq phone, UNCHANGED <<lines, mailbox, bundled, aside, dropped, work>>
  PROVE  (Folded /\ Anchored /\ NoHoles /\ MailIsNewer)' /\ Cached' = Cached
<1>1. Cached' = Cached
  BY DEF Cached
<1>2. /\ Len(blobs) \in Nat /\ DOMAIN blobs' = 1 .. Len(blobs) + 1
      /\ blobs'[Len(blobs) + 1] = b /\ \A i \in 1 .. Len(blobs) : blobs'[i] = blobs[i]
  BY DEF DiskOK
<1>3. \A w \in Workers : Contents(work[w].todo)' = Contents(work[w].todo)
  <2> TAKE w \in Workers
  <2>1. work[w].todo \in SUBSET (1 .. Len(blobs))
    BY DEF WorkOK, Runs
  <2> QED
    BY <1>2, <2>1 DEF Contents
<1>4. Folded'
  BY <1>1, <1>3 DEF Folded
<1>5. Anchored'
  <2>1. ASSUME NEW i \in DOMAIN blobs', blobs'[i].request # 0 PROVE \E a \in Cached' : Fits(blobs'[i], a)
    <3>1. CASE i \in 1 .. Len(blobs)
      <4>1. \E a \in Cached : Fits(blobs[i], a)
        BY <1>2, <2>1, <3>1, BlobsAre DEF Anchored
      <4> QED
        BY <1>1, <1>2, <3>1, <4>1
    <3>2. CASE i = Len(blobs) + 1
      BY <1>1, <1>2, <2>1, <3>2
    <3> QED
      BY <1>2, <3>1, <3>2
  <2> QED
    BY <1>1, <2>1 DEF Anchored
<1>6. NoHoles'
  BY <1>1 DEF NoHoles, Solid
<1>7. MailIsNewer'
  BY <1>1 DEF MailIsNewer, Lasting
<1> QED
  BY <1>1, <1>4, <1>5, <1>6, <1>7

\* Nothing that a step brings leaves a hole in the cache.
LEMMA CoverStep ==
  ASSUME DiskOK, WalkOK, WorkOK, AtAnchor, Folded, Anchored, NoHoles, MailIsNewer, Empty, Linked,
         [Next]_vars
  PROVE  Cover'
<1> USE HistoryAssumption DEF Cover, vars, waitVars, walkVars, diskVars, liveHistory, historyVars, bounds
<1>1. ASSUME Connect PROVE Cover'
  <2>1. UNCHANGED <<lines, mailbox, blobs, bundled, aside, dropped, work, phone>>
    BY <1>1 DEF Connect
  <2>2. (Folded /\ Anchored /\ NoHoles /\ MailIsNewer)'
    BY <2>1, CoverKept
  <2>3. Empty' /\ Linked'
    BY <1>1, <2>1 DEF Connect, Empty, Linked, Online, Cached
  <2> QED
    BY <2>2, <2>3
<1>2. ASSUME ConnectFails PROVE Cover'
  <2>1. UNCHANGED <<lines, mailbox, blobs, bundled, aside, dropped, work, phone>>
    BY <1>2 DEF ConnectFails, Fault
  <2>2. (Folded /\ Anchored /\ NoHoles /\ MailIsNewer)'
    BY <2>1, CoverKept
  <2>3. Empty' /\ Linked'
    BY <1>2, <2>1 DEF ConnectFails, Fault, Empty, Linked, Online, Cached
  <2> QED
    BY <2>2, <2>3
<1>3. ASSUME NextPage PROVE Cover'
  <2>1. UNCHANGED <<lines, mailbox, blobs, bundled, aside, dropped, work, phone>>
    BY <1>3 DEF NextPage, Finished
  <2>2. (Folded /\ Anchored /\ NoHoles /\ MailIsNewer)'
    BY <2>1, CoverKept
  <2>3. Empty' /\ Linked'
    BY <1>3, <2>1 DEF NextPage, Finished, Empty, Linked, Online, Cached
  <2> QED
    BY <2>2, <2>3
<1>4. ASSUME Send PROVE Cover'
  <2>1. /\ UNCHANGED <<lines, mailbox, blobs, bundled, aside, dropped, work, link>> /\ phone' = phone \cup Understood
        /\ pc = "ask" /\ pc' = "wait"
    BY <1>4 DEF Send
  <2>2. Cached' = Cached /\ \A S : Contents(S)' = Contents(S)
    BY <2>1 DEF Cached, Contents
  <2>3. \A r \in phone' : r.anchor \in Cached
    BY <2>1 DEF Understood, Request, Anchored, AtAnchor
  <2>4. Folded' /\ Anchored'
    BY <2>1, <2>2, <2>3 DEF Folded, Anchored
  <2>5. NoHoles'
    BY <2>1, <2>2 DEF NoHoles, Solid
  <2>6. MailIsNewer'
    BY <2>1, <2>2 DEF MailIsNewer, Lasting
  <2>7. Empty' /\ Linked'
    BY <2>1, <2>2 DEF Empty, Linked, Online
  <2> QED
    BY <2>4, <2>5, <2>6, <2>7
<1>5. ASSUME SendRaises PROVE Cover'
  <2>1. UNCHANGED <<lines, mailbox, blobs, bundled, aside, dropped, work, phone>>
    BY <1>5 DEF SendRaises, Finished
  <2>2. (Folded /\ Anchored /\ NoHoles /\ MailIsNewer)'
    BY <2>1, CoverKept
  <2>3. Empty' /\ Linked'
    BY <1>5, <2>1 DEF SendRaises, Finished, Empty, Linked, Online, Cached
  <2> QED
    BY <2>2, <2>3
<1>6. ASSUME TakeReplies PROVE Cover'
  <2>1. StartWork("reader", Replies) /\ UNCHANGED <<lines, mailbox, blobs, bundled, aside, dropped, phone>>
    BY <1>6 DEF TakeReplies
  <2>2. (Folded /\ Anchored /\ NoHoles /\ MailIsNewer)' /\ Cached' = Cached
    BY <2>1, CoverStarted DEF Workers
  <2>3. Empty' /\ Linked'
    BY <1>6, <2>2 DEF TakeReplies, Empty, Linked, Online
  <2> QED
    BY <2>2, <2>3
<1>7. ASSUME NoReply PROVE Cover'
  <2>1. UNCHANGED <<lines, mailbox, blobs, bundled, aside, dropped, work, phone>>
    BY <1>7 DEF NoReply, Finished
  <2>2. (Folded /\ Anchored /\ NoHoles /\ MailIsNewer)'
    BY <2>1, CoverKept
  <2>3. Empty' /\ Linked'
    BY <1>7, <2>1 DEF NoReply, Finished, Empty, Linked, Online, Cached
  <2> QED
    BY <2>2, <2>3
<1>8. ASSUME NEW w \in Workers, NEW fetched \in SUBSET work[w].todo, SaveIndex(w, fetched) PROVE Cover'
  <2>1. /\ work[w].step = "fetch" /\ UNCHANGED <<lines, mailbox, blobs, bundled, aside, dropped, phone, pc, link>>
    BY <1>8 DEF SaveIndex
  <2>2. /\ work'[w].step = "append" /\ work'[w].todo = fetched /\ work'[w].new = Contents(fetched) \ work[w].seen
        /\ \A v \in Workers \ {w} : work'[v] = work[v]
    BY <1>8 DEF SaveIndex, WorkOK, Runs, Stored
  <2>3. Cached' = Cached /\ \A S : Contents(S)' = Contents(S)
    BY <2>1 DEF Cached, Contents
  <2>4. Folded'
    BY <2>1, <2>2, <2>3 DEF Folded
  <2>5. Anchored'
    BY <2>1, <2>3 DEF Anchored
  <2>6. NoHoles'
    BY <2>1, <2>3 DEF NoHoles, Solid
  <2>7. MailIsNewer'
    <3>1. ASSUME NEW x \in Cached, Lasting(x) PROVE Lasting(x)'
      BY <2>1, <2>2, <2>3, <3>1 DEF Lasting
    <3> QED
      BY <2>1, <2>3, <3>1 DEF MailIsNewer
  <2>8. Empty' /\ Linked'
    BY <2>1, <2>3 DEF Empty, Linked, Online
  <2> QED
    BY <2>4, <2>5, <2>6, <2>7, <2>8
<1>9. ASSUME PageStored PROVE Cover'
  <2>1. AppendNew("reader") /\ UNCHANGED <<mailbox, phone, link>>
    BY <1>9 DEF PageStored
  <2>2. (Folded /\ Anchored /\ NoHoles /\ MailIsNewer)' /\ (Cached' = {} => Cached = {})
    BY <2>1, CoverAppended DEF Workers
  <2>3. Empty' /\ Linked'
    BY <1>9, <2>2 DEF PageStored, AppendNew, Finished, Empty, Linked, Online
  <2> QED
    BY <2>2, <2>3
<1>10. ASSUME Close PROVE Cover'
  <2>1. UNCHANGED <<lines, mailbox, blobs, bundled, aside, dropped, phone>>
    BY <1>10 DEF Close
  <2>2. (Folded /\ Anchored /\ NoHoles /\ MailIsNewer)'
    <3>1. CASE (first .. Len(blobs)) \ ingested = {}
      <4>1. work' = work
        BY <1>10, <3>1 DEF Close
      <4> QED
        BY <2>1, <4>1, CoverKept
    <3>2. CASE (first .. Len(blobs)) \ ingested # {}
      <4>1. StartWork("reader", (first .. Len(blobs)) \ ingested)
        BY <1>10, <3>2 DEF Close
      <4> QED
        BY <2>1, <4>1, CoverStarted DEF Workers
    <3> QED
      BY <3>1, <3>2
  <2>3. Empty' /\ Linked'
    BY <1>10, <2>1 DEF Close, Empty, Linked, Online, Cached
  <2> QED
    BY <2>2, <2>3
<1>11. ASSUME RestStored PROVE Cover'
  <2>1. AppendNew("reader") /\ UNCHANGED <<mailbox, phone, link>>
    BY <1>11 DEF RestStored
  <2>2. (Folded /\ Anchored /\ NoHoles /\ MailIsNewer)' /\ (Cached' = {} => Cached = {})
    BY <2>1, CoverAppended DEF Workers
  <2>3. Empty' /\ Linked'
    BY <1>11, <2>2 DEF RestStored, AppendNew, Finished, Empty, Linked, Online
  <2> QED
    BY <2>2, <2>3
<1>12. ASSUME Report PROVE Cover'
  <2>1. UNCHANGED <<lines, mailbox, blobs, bundled, aside, dropped, work, phone>>
    BY <1>12 DEF Report
  <2>2. (Folded /\ Anchored /\ NoHoles /\ MailIsNewer)'
    BY <2>1, CoverKept
  <2>3. Empty' /\ Linked'
    BY <1>12, <2>1 DEF Report, Empty, Linked, Online, Cached
  <2> QED
    BY <2>2, <2>3
<1>13. ASSUME NEW r \in phone, NEW end \in Ends, Answer(r, end) PROVE Cover'
  <2> DEFINE b == [msgs |-> Served(r), end |-> end, request |-> r.id]
  <2>1. /\ blobs' = Append(blobs, b) /\ phone' \subseteq phone /\ Online
        /\ UNCHANGED <<lines, mailbox, bundled, aside, dropped, work, pc, link>>
    BY <1>13 DEF Answer, Notify
  <2>2. Fits(b, r.anchor) /\ r.anchor \in Cached
    <3>1. r.anchor \in Chat /\ r.n \in 1 .. Page
      BY DEF DiskOK
    <3> QED
      BY <1>13, <3>1, VerdictIs DEF Answer, Anchored
  <2> HIDE DEF b
  <2>3. (Folded /\ Anchored /\ NoHoles /\ MailIsNewer)' /\ Cached' = Cached
    BY <2>1, <2>2, CoverNotified
  <2>4. Empty' /\ Linked'
    BY <2>1, <2>2, <2>3 DEF Empty, Linked, Online
  <2> QED
    BY <2>3, <2>4
<1>14. ASSUME NEW bundle \in Bundles, Push(bundle) PROVE Cover'
  <2> DEFINE b == [msgs |-> bundle, end |-> "more", request |-> 0]
  <2>1. /\ blobs' = Append(blobs, b) /\ Online
        /\ UNCHANGED <<lines, mailbox, bundled, aside, dropped, work, phone, pc, link>>
    BY <1>14 DEF Push, Notify
  <2>2. b.request = 0
    OBVIOUS
  <2> HIDE DEF b
  <2>3. (Folded /\ Anchored /\ NoHoles /\ MailIsNewer)' /\ Cached' = Cached
    BY <2>1, <2>2, CoverNotified
  <2>4. Cached # {}
    BY <2>1 DEF Linked, Empty
  <2>5. Empty' /\ Linked'
    BY <2>1, <2>3, <2>4 DEF Empty, Linked, Online
  <2> QED
    BY <2>3, <2>5
<1>15. ASSUME LoseLink PROVE Cover'
  <2>1. UNCHANGED <<lines, mailbox, blobs, bundled, aside, dropped, work, phone>>
    BY <1>15 DEF LoseLink, Fault
  <2>2. (Folded /\ Anchored /\ NoHoles /\ MailIsNewer)'
    BY <2>1, CoverKept
  <2>3. Empty' /\ Linked'
    BY <1>15, <2>1 DEF LoseLink, Fault, Empty, Linked, Online, Cached
  <2> QED
    BY <2>2, <2>3
<1>16. ASSUME Crash PROVE Cover'
  <2>1. /\ UNCHANGED <<lines, mailbox, blobs, bundled, aside, dropped, phone>>
        /\ work'["reader"].step = "off" /\ work'["replay"] = work["replay"] /\ pc' = "idle" /\ link' = "down"
    BY <1>16 DEF Crash, WorkOK, Workers, Off
  <2>2. Cached' = Cached /\ \A S : Contents(S)' = Contents(S)
    BY <2>1 DEF Cached, Contents
  <2>3. Folded'
    BY <2>1, <2>2 DEF Folded, Workers
  <2>4. Anchored'
    BY <2>1, <2>2 DEF Anchored
  <2>5. NoHoles'
    BY <2>1, <2>2 DEF NoHoles, Solid
  <2>6. MailIsNewer'
    <3>1. ASSUME NEW x \in Cached, Lasting(x) PROVE Lasting(x)'
      BY <2>1, <2>2, <3>1 DEF Lasting, Workers
    <3> QED
      BY <2>1, <2>2, <3>1 DEF MailIsNewer
  <2>7. Empty' /\ Linked'
    BY <2>1, <2>2 DEF Empty, Linked, Online
  <2> QED
    BY <2>3, <2>4, <2>5, <2>6, <2>7
<1>17. ASSUME NEW a \in Asks, NEW extend \in BOOLEAN, StartRead(a, extend) PROVE Cover'
  <2>1. UNCHANGED <<lines, mailbox, blobs, bundled, aside, dropped, work, phone>>
    BY <1>17 DEF StartRead
  <2>2. (Folded /\ Anchored /\ NoHoles /\ MailIsNewer)'
    BY <2>1, CoverKept
  <2>3. Empty' /\ Linked'
    BY <1>17, <2>1 DEF StartRead, Empty, Linked, Online, Cached
  <2> QED
    BY <2>2, <2>3
<1>18. ASSUME NEW m \in mailbox, Live(m) PROVE Cover'
  <2>1. /\ m \in mailbox /\ mailbox' = mailbox \ {m} /\ Online
        /\ \/ lines' = [lines EXCEPT ![m] = @ + 1] /\ dropped' = dropped
           \/ lines' = lines /\ dropped' = dropped \cup {m}
        /\ UNCHANGED <<blobs, bundled, aside, work, phone, pc, link>>
    BY <1>18 DEF Live
  <2>2. DOMAIN lines = {0} \cup Chat /\ m \in {0} \cup Chat /\ \A n \in DOMAIN lines : lines[n] \in Nat
    BY <2>1, HistoryAssumption DEF DiskOK
  <2>3. \/ Cached' = Cached \cup ({m} \ {0}) /\ dropped' = dropped
        \/ Cached' = Cached /\ dropped' = dropped \cup {m}
    <3>1. CASE lines' = [lines EXCEPT ![m] = @ + 1] /\ dropped' = dropped
      <4>1. \A n \in Chat : lines'[n] = IF n = m THEN lines[n] + 1 ELSE lines[n]
        BY <2>2, <3>1
      <4>2. \A n \in Chat : lines'[n] > 0 <=> lines[n] > 0 \/ n = m
        BY <2>2, <4>1
      <4> QED
        BY <2>2, <3>1, <4>2 DEF Cached, Chat
    <3>2. CASE lines' = lines /\ dropped' = dropped \cup {m}
      BY <3>2 DEF Cached
    <3> QED
      BY <2>1, <3>1, <3>2
  <2>4. Cached # {} /\ \A S : Contents(S)' = Contents(S)
    BY <2>1 DEF Linked, Empty, Contents
  <2>5. Folded'
    BY <2>1, <2>3, <2>4 DEF Folded
  <2>6. Anchored'
    BY <2>1, <2>3 DEF Anchored
  <2>7. NoHoles'
    <3> SUFFICES ASSUME NEW c \in Cached', NEW n \in Chat, c < n PROVE n \in Cached' \cup mailbox' \cup dropped' \/ \E b \in bundled' : b < n
      BY DEF NoHoles, Solid
    <3>1. PICK x \in Cached : x < n
      <4>1. CASE c \in Cached
        BY <4>1
      <4>2. CASE c = m /\ m # 0
        <5>1. PICK x \in Cached : x < m
          BY <2>1, <2>4, <4>2 DEF MailIsNewer
        <5>2. x \in Int /\ m \in Int /\ n \in Int
          BY <2>2 DEF Cached, Chat
        <5> QED
          BY <4>2, <5>1, <5>2
      <4> QED
        BY <2>3, <4>1, <4>2
    <3>2. n \in Cached \cup mailbox \cup dropped \/ \E b \in bundled : b < n
      BY <3>1 DEF NoHoles, Solid
    <3>3. n = m => n \in Cached' \cup dropped'
      BY <2>3 DEF Chat
    <3> QED
      BY <2>1, <2>3, <3>2, <3>3
  <2>8. MailIsNewer'
    <3>1. ASSUME NEW x \in Cached, Lasting(x) PROVE Lasting(x)'
      BY <2>1, <2>3, <3>1 DEF Lasting
    <3> QED
      BY <2>1, <2>3, <2>4, <3>1 DEF MailIsNewer
  <2>9. Empty' /\ Linked'
    BY <2>1, <2>3, <2>4 DEF Empty, Linked, Online
  <2> QED
    BY <2>5, <2>6, <2>7, <2>8, <2>9
<1>19. ASSUME StartReplay PROVE Cover'
  <2>1. StartWork("replay", DOMAIN blobs) /\ UNCHANGED <<lines, mailbox, blobs, bundled, aside, dropped, phone>>
    BY <1>19 DEF StartReplay
  <2>2. (Folded /\ Anchored /\ NoHoles /\ MailIsNewer)' /\ Cached' = Cached
    BY <2>1, CoverStarted DEF Workers
  <2>3. Empty' /\ Linked'
    BY <1>19, <2>2 DEF StartReplay, Empty, Linked, Online
  <2> QED
    BY <2>2, <2>3
<1>20. ASSUME ReplayStored PROVE Cover'
  <2>1. AppendNew("replay") /\ UNCHANGED <<mailbox, phone, link>>
    BY <1>20 DEF ReplayStored
  <2>2. (Folded /\ Anchored /\ NoHoles /\ MailIsNewer)' /\ (Cached' = {} => Cached = {})
    BY <2>1, CoverAppended DEF Workers
  <2>3. Empty' /\ Linked'
    BY <1>20, <2>2 DEF ReplayStored, AppendNew, Finished, Empty, Linked, Online
  <2> QED
    BY <2>2, <2>3
<1>21. CASE UNCHANGED vars
  <2>1. (Folded /\ Anchored /\ NoHoles /\ MailIsNewer)'
    BY <1>21, CoverKept
  <2>2. Empty' /\ Linked'
    BY <1>21 DEF Empty, Linked, Online, Cached
  <2> QED
    BY <2>1, <2>2
<1>22. ASSUME Beside PROVE Cover'
  <2>1. (Folded /\ Anchored /\ NoHoles /\ MailIsNewer)'
    BY <1>22, BesideKeeps, CoverKept
  <2>2. Empty' /\ Linked'
    BY <1>22, BesideKeeps DEF Empty, Linked, Online, Cached
  <2> QED
    BY <2>1, <2>2
<1> QED
  BY <1>1, <1>2, <1>3, <1>4, <1>5, <1>6, <1>7, <1>8, <1>9, <1>10, <1>11, <1>12, <1>13, <1>14,
     <1>15, <1>16, <1>17, <1>18, <1>19, <1>20, <1>21, <1>22 DEF Next, Read, Phone, Fetch, Workers, Ends, Beside

\* What a change to none of it keeps.
LEMMA WalkKept ==
  ASSUME Wanting, Pending, Named, Storing, work'["reader"] = work["reader"],
         UNCHANGED <<phone, blobs, pc, first, forms, try, anchor, left, requests, sent, ingested>>
  PROVE  (Wanting /\ Pending /\ Named /\ Storing)'
<1>1. Open' = Open /\ Replies' = Replies /\ Tried' = Tried
  BY DEF Open, Replies, Tried
<1>2. Wanting' /\ Named'
  BY DEF Wanting, Named
<1>3. Pending'
  BY <1>1 DEF Pending
<1>4. Storing'
  BY DEF Storing
<1> QED
  BY <1>2, <1>3, <1>4

\* Outside the walk nothing waits.
LEMMA WalkOver ==
  ASSUME Named, pc' \notin {"walk", "ask", "wait", "ingest"}, UNCHANGED <<blobs, requests>>
  PROVE  (AtAnchor /\ Wanting /\ Pending /\ Named /\ Storing)'
  BY DEF AtAnchor, Wanting, Pending, Named, Storing

\* What is saved for another reader, or before it is asked for, changes no page.
LEMMA Appended ==
  ASSUME DiskOK, WalkOK, WorkOK, NEW b, blobs' = Append(blobs, b), UNCHANGED <<first, sent, ingested, work>>
  PROVE  /\ Len(blobs) \in Nat /\ DOMAIN blobs' = 1 .. Len(blobs) + 1 /\ blobs'[Len(blobs) + 1] = b
         /\ \A i \in 1 .. Len(blobs) : blobs'[i] = blobs[i]
         /\ Replies' = Replies \cup (IF b.request \in sent THEN {Len(blobs) + 1} ELSE {})
         /\ Replies \subseteq 1 .. Len(blobs) /\ work["reader"].todo \subseteq 1 .. Len(blobs)
<1>1. /\ Len(blobs) \in Nat /\ DOMAIN blobs' = 1 .. Len(blobs) + 1 /\ blobs'[Len(blobs) + 1] = b
      /\ \A i \in 1 .. Len(blobs) : blobs'[i] = blobs[i]
      /\ Len(blobs') = Len(blobs) + 1
  BY DEF DiskOK
<1>2. first \in 1 .. Len(blobs) + 1 /\ ingested \subseteq first .. Len(blobs)
  BY DEF WalkOK
<1>3. first .. Len(blobs) + 1 = (first .. Len(blobs)) \cup {Len(blobs) + 1} /\ Len(blobs) + 1 \notin ingested
  BY <1>1, <1>2
<1>4. first .. Len(blobs) \subseteq 1 .. Len(blobs)
  BY <1>1, <1>2
<1>5. Replies' = Replies \cup (IF b.request \in sent THEN {Len(blobs) + 1} ELSE {})
  <2>1. Replies' = {i \in first .. Len(blobs) + 1 : blobs'[i].request \in sent} \ ingested
    BY <1>1 DEF Replies
  <2>2. ASSUME NEW i \in first .. Len(blobs) PROVE blobs'[i] = blobs[i]
    BY <1>1, <1>4
  <2> QED
    BY <1>1, <1>3, <2>1, <2>2 DEF Replies
<1>6. Replies \subseteq 1 .. Len(blobs)
  BY <1>4 DEF Replies
<1>7. work["reader"].todo \subseteq 1 .. Len(blobs)
  BY DEF WorkOK, Runs, Workers
<1> QED
  BY <1>1, <1>5, <1>6, <1>7

\* A page begins at the oldest message and stores the answer about it, whichever
\* answers came late or never.
LEMMA WalkStep ==
  ASSUME DiskOK, WalkOK, FormsOK, WorkOK, Folded, Anchored, NoHoles, MailIsNewer, Empty, AtAnchor,
         Wanting, Pending, Named, Storing, [Next]_vars
  PROVE  Walk'
<1> USE HistoryAssumption DEF Walk, vars, waitVars, walkVars, diskVars, liveHistory, historyVars, bounds
<1>1. ASSUME Connect PROVE Walk'
  <2>1. pc' = "walk" /\ sent' = {} /\ UNCHANGED <<blobs, requests>>
    BY <1>1 DEF Connect
  <2>2. Open' = {} /\ Replies' = {}
    BY <2>1 DEF Open, Replies
  <2> QED
    BY <2>1, <2>2 DEF AtAnchor, Wanting, Pending, Named, Storing
<1>2. ASSUME ConnectFails PROVE Walk'
  <2>1. pc' \notin {"walk", "ask", "wait", "ingest"} /\ UNCHANGED <<blobs, requests>>
    BY <1>2 DEF ConnectFails, Fault
  <2> QED
    BY <2>1, WalkOver
<1>3. ASSUME NextPage PROVE Walk'
  <2>1. /\ pc = "walk" /\ pc' \in {"closing", "ask"} /\ (pc' = "ask" => ~(left <= 0) /\ anchor' = Oldest)
        /\ UNCHANGED <<phone, lines, aside, blobs, first, forms, left, requests, sent, ingested, work>>
    BY <1>3 DEF NextPage, Finished
  <2>2. CASE pc' = "closing"
    BY <2>1, <2>2, WalkOver
  <2>3. CASE pc' = "ask"
    <3>1. left \in Int /\ left > 0
      BY <2>1, <2>3 DEF WalkOK
    <3>2. Cached' = Cached /\ Oldest \in Cached /\ \A c \in Cached : Oldest <= c
      <4>1. Cached # {}
        BY <2>1 DEF Empty
      <4> QED
        BY <2>1, <4>1, OldestIs DEF Cached
    <3>3. AtAnchor'
      BY <2>1, <2>3, <3>2 DEF AtAnchor
    <3>4. Open' = {} /\ Replies' = {}
      BY <2>1 DEF Pending, Open, Replies
    <3> QED
      BY <2>1, <2>3, <3>1, <3>3, <3>4 DEF Wanting, Pending, Named, Storing
  <2> QED
    BY <2>1, <2>2, <2>3
<1>4. ASSUME Send PROVE Walk'
  <2>1. /\ pc = "ask" /\ pc' = "wait" /\ requests' = requests + 1 /\ phone' = phone \cup Understood
        /\ sent' = sent \cup {requests + 1}
        /\ UNCHANGED <<lines, aside, blobs, first, forms, try, anchor, left, ingested, work>>
    BY <1>4 DEF Send, Request
  <2>2. requests \in Nat /\ \A r \in phone : r.id \in 1 .. requests
    BY DEF DiskOK
  <2>3. AtAnchor' /\ Wanting' /\ Storing'
    BY <2>1 DEF AtAnchor, Wanting, Storing, Cached
  <2>4. Named'
    BY <2>1, <2>2 DEF Named
  <2>5. Open' = Open \cup Understood
    <3>1. \A r \in Understood : r.id = requests + 1
      BY DEF Understood, Request
    <3>2. \A r \in phone : r.id # requests + 1
      BY <2>2
    <3> QED
      BY <2>1, <3>1, <3>2 DEF Open
  <2>6. Replies' = Replies
    <3>1. \A i \in first .. Len(blobs) : blobs[i].request # requests + 1
      <4> TAKE i \in first .. Len(blobs)
      <4>1. i \in DOMAIN blobs
        BY BlobsAre DEF WalkOK
      <4> QED
        BY <2>2, <4>1 DEF Named
    <3> QED
      BY <2>1, <3>1 DEF Replies
  <2>7. try \in Nat \ {0} /\ try \in DOMAIN forms /\ Tried = 1 .. try - 1 /\ Tried' = 1 .. try
    <3>1. DOMAIN forms = 1 .. Len(Forms) /\ Len(Forms) \in Nat /\ try \in DOMAIN Forms
      BY FormsAre DEF WalkOK, FormsOK
    <3>2. Tried = 1 .. try - 1 /\ Tried' = 1 .. try
      BY <2>1 DEF Tried
    <3> QED
      BY FormsAre, <3>1, <3>2
  <2>8. \A r \in Understood : r.anchor = anchor /\ r = Request /\ forms[try] = Answers
    BY DEF Understood, Request
  <2>9. Pending'
    <3>1. CASE Understood = {}
      <4>1. Open' = Open
        BY <2>5, <3>1
      <4>2. Tried \subseteq Tried'
        BY <2>7
      <4> QED
        BY <2>1, <2>6, <4>1, <4>2 DEF Pending
    <3>2. CASE Understood # {}
      <4>1. forms[try] = Answers
        BY <2>8, <3>2
      <4>2. \A i \in Tried : forms[i] # Answers
        <5>1. \A i \in Tried : i \in DOMAIN forms /\ i # try
          <6>1. DOMAIN forms = 1 .. Len(Forms) /\ Len(Forms) \in Nat
            BY FormsAre DEF FormsOK
          <6>2. try <= Len(Forms)
            BY <2>7, <6>1
          <6> QED
            BY <2>7, <6>1, <6>2
        <5> QED
          BY <2>7, <4>1, <5>1 DEF FormsOK
      <4>3. Open = {} /\ Replies = {}
        BY <2>1, <4>2 DEF Pending
      <4>4. Open' = Understood /\ Replies' = {}
        BY <2>5, <2>6, <4>3
      <4>5. try \in Tried'
        BY <2>7
      <4> QED
        BY <2>1, <2>8, <4>1, <4>4, <4>5 DEF Pending
    <3> QED
      BY <3>1, <3>2
  <2> QED
    BY <2>3, <2>4, <2>9
<1>5. ASSUME SendRaises PROVE Walk'
  <2>1. pc' \notin {"walk", "ask", "wait", "ingest"} /\ UNCHANGED <<blobs, requests>>
    BY <1>5 DEF SendRaises, Finished
  <2> QED
    BY <2>1, WalkOver
<1>6. ASSUME TakeReplies PROVE Walk'
  <2>1. /\ pc = "wait" /\ pc' = "ingest" /\ Replies # {} /\ ingested' = ingested \cup Replies
        /\ UNCHANGED <<phone, lines, aside, blobs, first, forms, try, anchor, left, requests, sent>>
    BY <1>6 DEF TakeReplies
  <2>2. work'["reader"].todo = Replies /\ work'["reader"].step = "fetch"
    BY <1>6 DEF TakeReplies, StartWork, WorkOK, Workers, Off
  <2>3. Open' = {} /\ Replies' = {}
    BY <2>1 DEF Pending, Open, Replies
  <2>4. (\A i \in Replies : Fits(blobs[i], anchor)) /\ (\A i, j \in Replies : i = j)
    BY <2>1 DEF Pending
  <2>5. Storing'
    BY <2>1, <2>2, <2>4 DEF Storing
  <2> QED
    BY <2>1, <2>3, <2>5 DEF AtAnchor, Wanting, Pending, Named, Cached
<1>7. ASSUME NoReply PROVE Walk'
  <2>1. /\ pc = "wait" /\ pc' \in {"ask", "closing"} /\ (pc' = "ask" => try' = try + 1)
        /\ UNCHANGED <<phone, lines, aside, blobs, first, forms, anchor, left, requests, sent, ingested, work>>
    BY <1>7 DEF NoReply, Finished
  <2>2. CASE pc' = "closing"
    BY <2>1, <2>2, WalkOver
  <2>3. CASE pc' = "ask"
    <3>1. Open' = Open /\ Replies' = Replies
      BY <2>1 DEF Open, Replies
    <3>2. Tried' = Tried
      BY <2>1, <2>3, FormsAre DEF Tried, WalkOK
    <3>3. Pending'
      BY <2>1, <2>3, <3>1, <3>2 DEF Pending
    <3> QED
      BY <2>1, <2>3, <3>3 DEF AtAnchor, Wanting, Named, Storing, Cached
  <2> QED
    BY <2>1, <2>2, <2>3
<1>8. ASSUME NEW w \in Workers, NEW fetched \in SUBSET work[w].todo, SaveIndex(w, fetched) PROVE Walk'
  <2>1. UNCHANGED <<lines, aside, phone, blobs, pc, first, forms, try, anchor, left, requests, sent, ingested>>
    BY <1>8 DEF SaveIndex
  <2>2. AtAnchor'
    BY <2>1 DEF AtAnchor, Cached
  <2>3. CASE w = "replay"
    <3>1. work'["reader"] = work["reader"]
      BY <1>8, <2>3 DEF SaveIndex, WorkOK, Workers
    <3> QED
      BY <2>1, <2>2, <3>1, WalkKept
  <2>4. CASE w = "reader"
    <3>1. work'["reader"].step = "append" /\ work'["reader"].todo = fetched /\ work'["reader"].end = LastEnd(fetched)
      BY <1>8, <2>4 DEF SaveIndex, WorkOK, Runs, Workers
    <3>2. LastEnd(fetched) = "none" \/ \E i \in fetched : LastEnd(fetched) = blobs[i].end
      BY <2>4, LastEndIs DEF WorkOK, Runs, Workers
    <3>3. Storing'
      BY <2>1, <2>4, <3>1, <3>2 DEF Storing
    <3>4. Open' = Open /\ Replies' = Replies /\ Tried' = Tried
      BY <2>1 DEF Open, Replies, Tried
    <3>5. Pending'
      BY <2>1, <3>4 DEF Pending
    <3> QED
      BY <2>1, <2>2, <3>3, <3>5 DEF Wanting, Named
  <2> QED
    BY <2>3, <2>4 DEF Workers
<1>9. ASSUME PageStored PROVE Walk'
  <2>1. /\ pc = "ingest" /\ pc' \in {"walk", "closing"}
        /\ UNCHANGED <<phone, blobs, first, requests, sent, ingested>>
    BY <1>9 DEF PageStored, AppendNew, Finished
  <2>2. CASE pc' = "closing"
    BY <2>1, <2>2, WalkOver
  <2>3. CASE pc' = "walk"
    <3>1. Open' = {} /\ Replies' = {}
      BY <2>1 DEF Pending, Open, Replies
    <3> QED
      BY <2>1, <2>3, <3>1 DEF AtAnchor, Wanting, Pending, Named, Storing
  <2> QED
    BY <2>1, <2>2, <2>3
<1>10. ASSUME Close PROVE Walk'
  <2>1. pc' \notin {"walk", "ask", "wait", "ingest"} /\ UNCHANGED <<blobs, requests>>
    BY <1>10 DEF Close
  <2> QED
    BY <2>1, WalkOver
<1>11. ASSUME RestStored PROVE Walk'
  <2>1. pc' \notin {"walk", "ask", "wait", "ingest"} /\ UNCHANGED <<blobs, requests>>
    BY <1>11 DEF RestStored, AppendNew, Off
  <2> QED
    BY <2>1, WalkOver
<1>12. ASSUME Report PROVE Walk'
  <2>1. pc' \notin {"walk", "ask", "wait", "ingest"} /\ UNCHANGED <<blobs, requests>>
    BY <1>12 DEF Report
  <2> QED
    BY <2>1, WalkOver
<1>13. ASSUME NEW r \in phone, NEW end \in Ends, Answer(r, end) PROVE Walk'
  <2> DEFINE b == [msgs |-> Served(r), end |-> end, request |-> r.id]
  <2>1. /\ blobs' = Append(blobs, b) /\ phone' = phone \ {r}
        /\ UNCHANGED <<lines, aside, pc, first, forms, try, anchor, left, requests, sent, ingested, work>>
    BY <1>13 DEF Answer, Notify
  <2>2. b.request = r.id /\ r.id \in 0 .. requests /\ r \in phone
    BY DEF DiskOK
  <2>3. Fits(b, r.anchor)
    <3>1. r.anchor \in Chat /\ r.n \in 1 .. Page
      BY DEF DiskOK
    <3> QED
      BY <1>13, <3>1, VerdictIs DEF Answer
  <2> HIDE DEF b
  <2>4. /\ Len(blobs) \in Nat /\ DOMAIN blobs' = 1 .. Len(blobs) + 1 /\ blobs'[Len(blobs) + 1] = b
        /\ \A i \in 1 .. Len(blobs) : blobs'[i] = blobs[i]
        /\ Replies' = Replies \cup (IF b.request \in sent THEN {Len(blobs) + 1} ELSE {})
        /\ Replies \subseteq 1 .. Len(blobs) /\ work["reader"].todo \subseteq 1 .. Len(blobs)
    BY <2>1, Appended
  <2>5. AtAnchor' /\ Wanting'
    BY <2>1 DEF AtAnchor, Wanting, Cached
  <2>6. Named'
    <3>1. DOMAIN blobs = 1 .. Len(blobs)
      BY BlobsAre
    <3>2. \A i \in 1 .. Len(blobs) : blobs'[i].request \in 0 .. requests
      BY <2>4, <3>1 DEF Named
    <3>3. \A i \in 1 .. Len(blobs) + 1 : i \in 1 .. Len(blobs) \/ i = Len(blobs) + 1
      BY <2>4
    <3> QED
      BY <2>1, <2>2, <2>4, <3>2, <3>3 DEF Named
  <2>7. Storing'
    <3>1. \A i \in work["reader"].todo : blobs'[i] = blobs[i]
      BY <2>4
    <3> QED
      BY <2>1, <3>1 DEF Storing
  <2>8. Pending'
    <3>1. Tried' = Tried
      BY <2>1 DEF Tried
    <3>2. CASE r.id \notin sent
      <4>1. Open' = Open /\ Replies' = Replies
        BY <2>1, <2>2, <2>4, <3>2 DEF Open
      <4>2. \A i \in Replies : blobs'[i] = blobs[i]
        BY <2>4
      <4> QED
        BY <2>1, <3>1, <4>1, <4>2 DEF Pending
    <3>3. CASE r.id \in sent
      <4>1. r \in Open
        BY <2>2, <3>3 DEF Open
      <4>2. pc \notin {"walk", "ingest"}
        BY <4>1 DEF Pending
      <4>3. CASE pc \in {"ask", "wait"}
        <5>1. Open = {r} /\ Replies = {} /\ r.anchor = anchor /\ \E i \in Tried : forms[i] = Answers
          BY <4>1, <4>3 DEF Pending
        <5>2. Open' = {}
          <6>1. Open' = Open \ {r}
            BY <2>1 DEF Open
          <6> QED
            BY <5>1, <6>1
        <5>3. Replies' = {Len(blobs) + 1}
          BY <2>2, <2>4, <3>3, <5>1
        <5>4. \A i \in Replies' : Fits(blobs'[i], anchor)
          BY <2>3, <2>4, <5>1, <5>3
        <5> QED
          BY <2>1, <3>1, <4>3, <5>1, <5>2, <5>3, <5>4 DEF Pending
      <4>4. CASE pc \notin {"walk", "ingest", "ask", "wait"}
        BY <2>1, <4>4 DEF Pending
      <4> QED
        BY <4>2, <4>3, <4>4
    <3> QED
      BY <3>2, <3>3
  <2> QED
    BY <2>5, <2>6, <2>7, <2>8
<1>14. ASSUME NEW bundle \in Bundles, Push(bundle) PROVE Walk'
  <2> DEFINE b == [msgs |-> bundle, end |-> "more", request |-> 0]
  <2>1. /\ blobs' = Append(blobs, b) /\ phone' = phone
        /\ UNCHANGED <<lines, aside, pc, first, forms, try, anchor, left, requests, sent, ingested, work>>
    BY <1>14 DEF Push, Notify
  <2>2. b.request = 0 /\ 0 \in 0 .. requests /\ 0 \notin sent
    BY DEF DiskOK, WalkOK
  <2> HIDE DEF b
  <2>4. /\ Len(blobs) \in Nat /\ DOMAIN blobs' = 1 .. Len(blobs) + 1 /\ blobs'[Len(blobs) + 1] = b
        /\ \A i \in 1 .. Len(blobs) : blobs'[i] = blobs[i]
        /\ Replies' = Replies \cup (IF b.request \in sent THEN {Len(blobs) + 1} ELSE {})
        /\ Replies \subseteq 1 .. Len(blobs) /\ work["reader"].todo \subseteq 1 .. Len(blobs)
    BY <2>1, Appended
  <2>5. AtAnchor' /\ Wanting'
    BY <2>1 DEF AtAnchor, Wanting, Cached
  <2>6. Named'
    <3>1. DOMAIN blobs = 1 .. Len(blobs)
      BY BlobsAre
    <3>2. \A i \in 1 .. Len(blobs) : blobs'[i].request \in 0 .. requests
      BY <2>4, <3>1 DEF Named
    <3>3. \A i \in 1 .. Len(blobs) + 1 : i \in 1 .. Len(blobs) \/ i = Len(blobs) + 1
      BY <2>4
    <3> QED
      BY <2>1, <2>2, <2>4, <3>2, <3>3 DEF Named
  <2>7. Storing'
    <3>1. \A i \in work["reader"].todo : blobs'[i] = blobs[i]
      BY <2>4
    <3> QED
      BY <2>1, <3>1 DEF Storing
  <2>8. Pending'
    <3>1. Open' = Open /\ Replies' = Replies /\ Tried' = Tried
      BY <2>1, <2>2, <2>4 DEF Open, Tried
    <3>2. \A i \in Replies : blobs'[i] = blobs[i]
      BY <2>4
    <3> QED
      BY <2>1, <3>1, <3>2 DEF Pending
  <2> QED
    BY <2>5, <2>6, <2>7, <2>8
<1>15. ASSUME LoseLink PROVE Walk'
  <2>1. /\ work'["reader"] = work["reader"]
        /\ UNCHANGED <<phone, blobs, pc, first, forms, try, anchor, left, requests, sent, ingested>>
    BY <1>15 DEF LoseLink, Fault
  <2>2. AtAnchor'
    BY <1>15, <2>1 DEF LoseLink, Fault, AtAnchor, Cached
  <2> QED
    BY <2>1, <2>2, WalkKept
<1>16. ASSUME Crash PROVE Walk'
  <2>1. pc' \notin {"walk", "ask", "wait", "ingest"} /\ UNCHANGED <<blobs, requests>>
    BY <1>16 DEF Crash, Fault, Off
  <2> QED
    BY <2>1, WalkOver
<1>17. ASSUME NEW a \in Asks, NEW extend \in BOOLEAN, StartRead(a, extend) PROVE Walk'
  <2>1. pc' \notin {"walk", "ask", "wait", "ingest"} /\ UNCHANGED <<blobs, requests>>
    BY <1>17 DEF StartRead
  <2> QED
    BY <2>1, WalkOver
<1>18. ASSUME NEW m \in mailbox, Live(m) PROVE Walk'
  <2>1. /\ work'["reader"] = work["reader"]
        /\ UNCHANGED <<phone, blobs, pc, first, forms, try, anchor, left, requests, sent, ingested>>
    BY <1>18 DEF Live
  <2>2. AtAnchor'
    <3> SUFFICES ASSUME pc \in {"ask", "wait", "ingest"} PROVE anchor \in Cached' /\ \A c \in Cached' : anchor <= c \/ c \in aside
      BY <1>18, <2>1 DEF Live, AtAnchor
    <3>1. /\ m \in mailbox /\ (lines' = [lines EXCEPT ![m] = @ + 1] \/ lines' = lines)
      BY <1>18 DEF Live
    <3>2. DOMAIN lines = {0} \cup Chat /\ m \in {0} \cup Chat /\ \A n \in DOMAIN lines : lines[n] \in Nat
      BY <3>1, HistoryAssumption DEF DiskOK
    <3>3. Cached' = Cached \cup ({m} \ {0}) \/ Cached' = Cached
      <4>1. CASE lines' = [lines EXCEPT ![m] = @ + 1]
        <5>1. \A n \in Chat : lines'[n] = IF n = m THEN lines[n] + 1 ELSE lines[n]
          BY <3>2, <4>1
        <5>2. \A n \in Chat : lines'[n] > 0 <=> lines[n] > 0 \/ n = m
          BY <3>2, <5>1
        <5> QED
          BY <3>2, <5>2 DEF Cached, Chat
      <4>2. CASE lines' = lines
        BY <4>2 DEF Cached
      <4> QED
        BY <3>1, <4>1, <4>2
    <3>4. anchor \in Cached /\ \A c \in Cached : anchor <= c \/ c \in aside
      BY DEF AtAnchor
    <3>5. m # 0 => anchor <= m
      <4> SUFFICES ASSUME m # 0 PROVE anchor <= m
        OBVIOUS
      <4>1. PICK x \in Cached : Lasting(x) /\ x < m
        BY <3>1, <3>4 DEF MailIsNewer
      <4>2. anchor <= x
        BY <3>4, <4>1 DEF Lasting
      <4>3. anchor \in Int /\ x \in Int /\ m \in Int
        BY <3>2, <3>4 DEF Cached, Chat
      <4> QED
        BY <4>1, <4>2, <4>3
    <3> QED
      BY <3>3, <3>4, <3>5
  <2> QED
    BY <2>1, <2>2, WalkKept
<1>19. ASSUME StartReplay PROVE Walk'
  <2>1. /\ work'["reader"] = work["reader"]
        /\ UNCHANGED <<phone, blobs, pc, first, forms, try, anchor, left, requests, sent, ingested>>
    BY <1>19 DEF StartReplay, StartWork, Off, WorkOK, Workers
  <2>2. AtAnchor'
    BY <1>19, <2>1 DEF StartReplay, StartWork, Off, AtAnchor, Cached
  <2> QED
    BY <2>1, <2>2, WalkKept
<1>20. ASSUME ReplayStored PROVE Walk'
  <2>1. /\ work'["reader"] = work["reader"]
        /\ UNCHANGED <<phone, blobs, pc, first, forms, try, anchor, left, requests, sent, ingested>>
    BY <1>20 DEF ReplayStored, AppendNew, Off, WorkOK, Workers
  <2>2. AtAnchor'
    <3>1. AppendNew("replay") /\ UNCHANGED <<mailbox, phone>> /\ "replay" \in Workers
      BY <1>20 DEF ReplayStored, Workers
    <3>2. Cached' = Cached \cup work["replay"].new
      BY <3>1, CoverAppended
    <3>3. aside' = aside \cup work["replay"].new
      BY <3>1 DEF AppendNew
    <3> QED
      BY <2>1, <3>2, <3>3 DEF AtAnchor
  <2> QED
    BY <2>1, <2>2, WalkKept
<1>21. CASE UNCHANGED vars
  <2>1. AtAnchor'
    BY <1>21 DEF AtAnchor, Cached
  <2> QED
    BY <1>21, <2>1, WalkKept
<1>22. ASSUME Beside PROVE Walk'
  <2>1. AtAnchor'
    BY <1>22, BesideKeeps DEF AtAnchor, Cached
  <2> QED
    BY <1>22, <2>1, BesideKeeps, WalkKept
<1> QED
  BY <1>1, <1>2, <1>3, <1>4, <1>5, <1>6, <1>7, <1>8, <1>9, <1>10, <1>11, <1>12, <1>13, <1>14,
     <1>15, <1>16, <1>17, <1>18, <1>19, <1>20, <1>21, <1>22 DEF Next, Read, Phone, Fetch, Workers, Ends, Beside

\* Only a message older than all that are cached changes the oldest one.
LEMMA OldestMoves ==
  ASSUME DiskOK, NEW S \in SUBSET Chat, Cached' = Cached \cup S, Cached = {} => S = {}
  PROVE  /\ Oldest' = Oldest \/ Oldest' \in S
         /\ Cached # {} => Oldest' <= Oldest
<1>1. CASE Cached = {}
  <2>1. Cached' = Cached
    BY <1>1
  <2> QED
    BY <1>1, <2>1 DEF Oldest
<1>2. CASE Cached # {}
  <2>1. Oldest \in Cached /\ \A c \in Cached : Oldest <= c
    BY <1>2, OldestIs
  <2>2. Oldest' \in Cached' /\ \A c \in Cached' : Oldest' <= c
    <3>1. Cached' \in SUBSET (0 .. Size) /\ Cached' # {} /\ Size \in Nat
      BY <1>2, HistoryAssumption DEF Cached, Chat
    <3> QED
      BY <3>1, MinIs DEF Oldest
  <2>3. Oldest \in Int /\ Oldest' \in Int
    BY <2>1, <2>2 DEF Cached, Chat
  <2> QED
    BY <2>1, <2>2, <2>3
<1> QED
  BY <1>1, <1>2

\* A verdict and a report about what is cached stay true.
LEMMA ToldKept ==
  ASSUME Verdict, Reported, UNCHANGED <<lines, aside, stop, report, ask>>,
         pc' \in {"closing", "final", "report"} => pc \in {"closing", "final", "report"},
         pc' = "idle" => pc = "idle"
  PROVE  (Verdict /\ Reported)'
<1>1. Cached' = Cached /\ Doubled' = Doubled
  BY DEF Cached, Doubled
<1>2. Oldest' = Oldest
  BY <1>1 DEF Oldest
<1> QED
  BY <1>1, <1>2 DEF Verdict, Settled, Reported

\* A reason other than the phone's word is no verdict.
LEMMA ToldNothing ==
  ASSUME pc' # "idle", pc' \in {"closing", "final", "report"} => stop' # "no_older"
  PROVE  (Verdict /\ Reported)'
  BY DEF Verdict, Reported

\* What comes beside the walk is no part of it.
LEMMA ToldAppended ==
  ASSUME DiskOK, WalkOK, WorkOK, Folded, Anchored, NoHoles, MailIsNewer, Empty, Verdict, Reported, NEW w \in Workers, AppendNew(w),
         UNCHANGED <<mailbox, phone, stop, report, ask>>, aside' = aside \cup work[w].new,
         pc' \in {"closing", "final", "report"} => pc \in {"closing", "final", "report"},
         pc' = "idle" => pc = "idle"
  PROVE  (Verdict /\ Reported)'
<1>1. Cached' = Cached \cup work[w].new /\ (Cached = {} => Cached' = {})
  BY CoverAppended
<1>2. work[w].new \in SUBSET Chat
  BY DEF WorkOK, Runs
<1>3. Oldest' = Oldest \/ Oldest' \in work[w].new
  BY <1>1, <1>2, OldestMoves
<1>4. Cached # {} => Oldest' <= Oldest /\ Oldest' \in Int /\ Oldest \in Int
  <2> SUFFICES ASSUME Cached # {} PROVE Oldest' <= Oldest /\ Oldest' \in Int /\ Oldest \in Int
    OBVIOUS
  <2>1. Oldest' <= Oldest
    BY <1>1, <1>2, OldestMoves
  <2>2. Oldest \in Chat
    BY OldestIs DEF Cached
  <2>3. Oldest' \in Chat
    BY <1>2, <1>3, <2>2
  <2> QED
    BY <2>1, <2>2, <2>3 DEF Chat
<1>5. Verdict'
  BY <1>3 DEF Verdict, Settled
<1>6. Cardinality(Cached) \in Nat /\ Cardinality(Cached') \in Nat /\ Cardinality(Cached) <= Cardinality(Cached')
  <2>1. IsFiniteSet(Cached')
    BY ChatIsFinite, FS_Subset DEF Cached
  <2>2. IsFiniteSet(Cached) /\ Cardinality(Cached) <= Cardinality(Cached')
    BY <1>1, <2>1, FS_Subset
  <2> QED
    BY <2>1, <2>2, FS_CardinalityType
<1>7. Doubled \subseteq Doubled'
  <2>1. /\ lines' = [m \in DOMAIN lines |-> lines[m] + IF m \in work[w].new THEN 1 ELSE 0]
        /\ \A m \in Chat : m \in DOMAIN lines /\ lines[m] \in Nat
    BY DEF AppendNew, DiskOK
  <2>2. \A m \in Chat : lines[m] > 1 => lines'[m] > 1
    BY <2>1
  <2> QED
    BY <2>2 DEF Doubled
<1>8. Reported'
  <2> SUFFICES ASSUME pc = "idle"
               PROVE  /\ report.complete = "yes" => Oldest' = 1 \/ Oldest' \in aside'
                      /\ (report.complete = "no" /\ report.note = "no") =>
                           /\ Cardinality(Cached') >= ask.limit \/ Doubled' # {}
                           /\ ask.since # 0 => Cached' # {} /\ Oldest' <= ask.since
    BY DEF Reported
  <2>1. report.complete = "yes" => Oldest' = 1 \/ Oldest' \in aside'
    BY <1>3 DEF Reported
  <2> SUFFICES ASSUME report.complete = "no", report.note = "no"
               PROVE  /\ Cardinality(Cached') >= ask.limit \/ Doubled' # {}
                      /\ ask.since # 0 => Cached' # {} /\ Oldest' <= ask.since
    BY <2>1
  <2>2. Cardinality(Cached) >= ask.limit \/ Doubled # {}
    BY DEF Reported
  <2>3. ask.since # 0 => Cached # {} /\ Oldest <= ask.since
    BY DEF Reported
  <2>4. ask.limit \in Nat /\ ask.since \in Nat
    BY HistoryAssumption DEF WalkOK
  <2>5. Cardinality(Cached') >= ask.limit \/ Doubled' # {}
    BY <1>6, <1>7, <2>2, <2>4
  <2> QED
    BY <1>1, <1>4, <2>3, <2>4, <2>5
<1> QED
  BY <1>5, <1>8

\* The phone's verdict is about the oldest message when the read reports, and
\* the report stays true of the cache.
LEMMA ReportStep ==
  ASSUME DiskOK, WalkOK, WorkOK, Folded, Anchored, NoHoles, MailIsNewer, Empty, Linked, AtAnchor,
         Storing, Verdict, Reported, [Next]_vars
  PROVE  Told'
<1> USE HistoryAssumption DEF Told, vars, waitVars, walkVars, diskVars, liveHistory, historyVars, bounds
<1>1. ASSUME Connect PROVE Told'
  <2>1. /\ UNCHANGED <<lines, aside, stop, report, ask>>
        /\ pc' \in {"closing", "final", "report"} => pc \in {"closing", "final", "report"}
        /\ pc' = "idle" => pc = "idle"
    BY <1>1 DEF Connect
  <2> QED
    BY <2>1, ToldKept
<1>2. ASSUME ConnectFails PROVE Told'
  <2>1. pc' # "idle" /\ (pc' \in {"closing", "final", "report"} => stop' # "no_older")
    BY <1>2 DEF ConnectFails, Fault
  <2> QED
    BY <2>1, ToldNothing
<1>3. ASSUME NextPage PROVE Told'
  <2>1. pc' # "idle" /\ (pc' \in {"closing", "final", "report"} => stop' # "no_older")
    BY <1>3 DEF NextPage, Finished
  <2> QED
    BY <2>1, ToldNothing
<1>4. ASSUME Send PROVE Told'
  <2>1. /\ UNCHANGED <<lines, aside, stop, report, ask>>
        /\ pc' \in {"closing", "final", "report"} => pc \in {"closing", "final", "report"}
        /\ pc' = "idle" => pc = "idle"
    BY <1>4 DEF Send
  <2> QED
    BY <2>1, ToldKept
<1>5. ASSUME SendRaises PROVE Told'
  <2>1. pc' # "idle" /\ (pc' \in {"closing", "final", "report"} => stop' # "no_older")
    BY <1>5 DEF SendRaises, Finished
  <2> QED
    BY <2>1, ToldNothing
<1>6. ASSUME TakeReplies PROVE Told'
  <2>1. /\ UNCHANGED <<lines, aside, stop, report, ask>>
        /\ pc' \in {"closing", "final", "report"} => pc \in {"closing", "final", "report"}
        /\ pc' = "idle" => pc = "idle"
    BY <1>6 DEF TakeReplies, StartWork, Off
  <2> QED
    BY <2>1, ToldKept
<1>7. ASSUME NoReply PROVE Told'
  <2>1. pc' # "idle" /\ (pc' \in {"closing", "final", "report"} => stop' # "no_older")
    BY <1>7 DEF NoReply, Finished
  <2> QED
    BY <2>1, ToldNothing
<1>8. ASSUME NEW w \in Workers, NEW fetched \in SUBSET work[w].todo, SaveIndex(w, fetched) PROVE Told'
  <2>1. /\ UNCHANGED <<lines, aside, stop, report, ask>>
        /\ pc' \in {"closing", "final", "report"} => pc \in {"closing", "final", "report"}
        /\ pc' = "idle" => pc = "idle"
    BY <1>8 DEF SaveIndex, Fault
  <2> QED
    BY <2>1, ToldKept
<1>9. ASSUME PageStored PROVE Told'
  <2> DEFINE run == work["reader"]
  <2>1. /\ pc = "ingest" /\ AppendNew("reader") /\ UNCHANGED <<mailbox, phone, blobs, aside>> /\ run.step = "append"
        /\ pc' \in {"walk", "closing"} /\ (pc' = "closing" /\ stop' = "no_older" => run.end = "nothing")
    <3>1. /\ pc = "ingest" /\ AppendNew("reader") /\ UNCHANGED <<mailbox, phone>>
          /\ IF StopReason(Cardinality(run.new), run.end) = "none" THEN pc' = "walk" /\ UNCHANGED stop
             ELSE Finished(StopReason(Cardinality(run.new), run.end))
      BY <1>9 DEF PageStored
    <3>2. UNCHANGED <<blobs, aside>> /\ run.step = "append"
      BY <3>1 DEF AppendNew
    <3>3. \A got, end : StopReason(got, end) = "no_older" => end = "nothing"
      BY DEF StopReason
    <3> QED
      BY <3>1, <3>2, <3>3 DEF Finished
  <2>2. CASE pc' = "closing" /\ stop' = "no_older"
    <3>1. run.end = "nothing" /\ run.todo \in SUBSET (1 .. Len(blobs))
      BY <2>1, <2>2 DEF WorkOK, Runs, Workers
    <3>2. PICK i \in run.todo : run.end = blobs[i].end
      BY <2>1, <3>1 DEF Storing
    <3>3. Fits(blobs[i], anchor) /\ run.todo = {i}
      BY <2>1, <3>2 DEF Storing
    <3>4. PICK low \in blobs[i].msgs \cup {anchor} :
            (\A m \in blobs[i].msgs \cup {anchor} : low <= m) /\ (low = 1 \/ low \in Stubs)
      BY <3>1, <3>2, <3>3 DEF Fits
    <3>5. Cached' = Cached \cup run.new
      BY <2>1, CoverAppended DEF Workers
    <3>6. run.new \subseteq blobs[i].msgs /\ blobs[i].msgs \subseteq Cached \cup run.new
      <4>1. Contents(run.todo) = blobs[i].msgs
        BY <3>3 DEF Contents
      <4> QED
        BY <2>1, <4>1 DEF Folded, Workers
    <3>7. anchor \in Cached /\ \A c \in Cached : anchor <= c \/ c \in aside
      BY <2>1 DEF AtAnchor
    <3>8. low \in Cached' /\ Cached' \subseteq Chat
      BY <3>4, <3>5, <3>6, <3>7 DEF Cached
    <3>9. Oldest' \in Cached' /\ \A c \in Cached' : Oldest' <= c
      <4>1. Cached' \in SUBSET (0 .. Size) /\ Cached' # {} /\ Size \in Nat
        BY <3>8, HistoryAssumption DEF Chat
      <4> QED
        BY <4>1, MinIs DEF Oldest
    <3>10. Oldest' \in Int /\ low \in Int /\ anchor \in Int /\ Oldest' <= low
      BY <3>7, <3>8, <3>9 DEF Chat, Cached
    <3>11. Oldest' = low \/ Oldest' \in aside
      <4>1. CASE Oldest' \in run.new
        BY <3>4, <3>6, <3>10, <4>1
      <4>2. CASE Oldest' \in Cached
        <5>1. low <= anchor
          BY <3>4
        <5> QED
          BY <3>7, <3>10, <4>2, <5>1
      <4> QED
        BY <3>5, <3>9, <4>1, <4>2
    <3> HIDE DEF run
    <3>12. Settled'
      BY <2>1, <3>4, <3>11 DEF Settled
    <3> QED
      BY <2>1, <3>12 DEF Verdict, Reported
  <2>3. CASE ~(pc' = "closing" /\ stop' = "no_older")
    BY <2>1, <2>3, ToldNothing
  <2> QED
    BY <2>2, <2>3
<1>10. ASSUME Close PROVE Told'
  <2>1. /\ UNCHANGED <<lines, aside, stop, report, ask>>
        /\ pc' \in {"closing", "final", "report"} => pc \in {"closing", "final", "report"}
        /\ pc' = "idle" => pc = "idle"
    BY <1>10 DEF Close
  <2> QED
    BY <2>1, ToldKept
<1>11. ASSUME RestStored PROVE Told'
  <2>1. AppendNew("reader") /\ UNCHANGED <<mailbox, phone, stop, report, ask>> /\ "reader" \in Workers
    BY <1>11 DEF RestStored, Workers
  <2>2. aside' = aside \cup work["reader"].new
    BY <1>11 DEF RestStored, AppendNew
  <2>3. /\ pc' \in {"closing", "final", "report"} => pc \in {"closing", "final", "report"}
        /\ pc' = "idle" => pc = "idle"
    BY <1>11 DEF RestStored
  <2> QED
    BY <2>1, <2>2, <2>3, ToldAppended
<1>12. ASSUME Report PROVE Told'
  <2>1. /\ pc = "report" /\ pc' = "idle" /\ UNCHANGED <<lines, aside, ask>>
        /\ report'.complete = (IF Complete THEN "yes" ELSE "no")
        /\ report'.note = (IF Short(ask) /\ ~Complete THEN "yes" ELSE "no")
    BY <1>12 DEF Report
  <2>2. Cached' = Cached /\ Doubled' = Doubled
    BY <2>1 DEF Cached, Doubled
  <2>3. Oldest' = Oldest
    BY <2>2 DEF Oldest
  <2>4. Verdict'
    BY <2>1 DEF Verdict
  <2>5. report'.complete = "yes" => Oldest' = 1 \/ Oldest' \in aside'
    <3> SUFFICES ASSUME Complete PROVE Oldest = 1 \/ Oldest \in aside
      BY <2>1, <2>3
    <3> QED
      BY <2>1 DEF Complete, Verdict, Settled
  <2>6. ASSUME report'.complete = "no", report'.note = "no"
        PROVE  /\ Cardinality(Cached) >= ask.limit \/ Doubled # {}
               /\ ask.since # 0 => Cached # {} /\ Oldest <= ask.since
    <3>1. ~Short(ask)
      BY <2>1, <2>6
    <3>2. ask.limit \in Nat /\ ask.since \in Nat /\ Rows \in Nat
      BY RowsType DEF WalkOK
    <3>3. Rows >= ask.limit
      BY <3>1, <3>2 DEF Short
    <3>4. Doubled = {} => Cardinality(Cached) >= ask.limit
      BY <3>3, RowsIs
    <3>5. ask.since # 0 => Cached # {} /\ Oldest <= ask.since
      <4> SUFFICES ASSUME ask.since # 0 PROVE Cached # {} /\ Oldest <= ask.since
        OBVIOUS
      <4>1. Cached # {} /\ ~(Oldest > ask.since)
        BY <3>1 DEF Short
      <4>2. Oldest \in Int
        BY <4>1, OldestIs DEF Cached, Chat
      <4> QED
        BY <3>2, <4>1, <4>2
    <3> QED
      BY <3>4, <3>5
  <2>7. Reported'
    BY <2>1, <2>2, <2>3, <2>5, <2>6 DEF Reported
  <2> QED
    BY <2>4, <2>7
<1>13. ASSUME NEW r \in phone, NEW end \in Ends, Answer(r, end) PROVE Told'
  <2>1. /\ UNCHANGED <<lines, aside, stop, report, ask>>
        /\ pc' \in {"closing", "final", "report"} => pc \in {"closing", "final", "report"}
        /\ pc' = "idle" => pc = "idle"
    BY <1>13 DEF Answer, Notify
  <2> QED
    BY <2>1, ToldKept
<1>14. ASSUME NEW bundle \in Bundles, Push(bundle) PROVE Told'
  <2>1. /\ UNCHANGED <<lines, aside, stop, report, ask>>
        /\ pc' \in {"closing", "final", "report"} => pc \in {"closing", "final", "report"}
        /\ pc' = "idle" => pc = "idle"
    BY <1>14 DEF Push, Notify
  <2> QED
    BY <2>1, ToldKept
<1>15. ASSUME LoseLink PROVE Told'
  <2>1. /\ UNCHANGED <<lines, aside, stop, report, ask>>
        /\ pc' \in {"closing", "final", "report"} => pc \in {"closing", "final", "report"}
        /\ pc' = "idle" => pc = "idle"
    BY <1>15 DEF LoseLink, Fault
  <2> QED
    BY <2>1, ToldKept
<1>16. ASSUME Crash PROVE Told'
  <2>1. pc' = "idle" /\ report'.complete = "no" /\ report'.note = "yes"
    BY <1>16 DEF Crash
  <2> QED
    BY <2>1 DEF Verdict, Reported
<1>17. ASSUME NEW a \in Asks, NEW extend \in BOOLEAN, StartRead(a, extend) PROVE Told'
  <2>1. pc' # "idle" /\ (pc' \in {"closing", "final", "report"} => stop' # "no_older")
    BY <1>17 DEF StartRead
  <2> QED
    BY <2>1, ToldNothing
<1>18. ASSUME NEW m \in mailbox, Live(m) PROVE Told'
  <2>1. /\ m \in mailbox /\ (lines' = [lines EXCEPT ![m] = @ + 1] \/ lines' = lines) /\ Online
        /\ UNCHANGED <<aside, stop, report, ask, pc>>
    BY <1>18 DEF Live
  <2>2. DOMAIN lines = {0} \cup Chat /\ m \in {0} \cup Chat /\ \A n \in DOMAIN lines : lines[n] \in Nat
    BY <2>1, HistoryAssumption DEF DiskOK
  <2>3. \E S \in SUBSET ({m} \ {0}) : Cached' = Cached \cup S
    <3>1. CASE lines' = [lines EXCEPT ![m] = @ + 1]
      <4>1. \A n \in Chat : lines'[n] = IF n = m THEN lines[n] + 1 ELSE lines[n]
        BY <2>2, <3>1
      <4>2. \A n \in Chat : lines'[n] > 0 <=> lines[n] > 0 \/ n = m
        BY <2>2, <4>1
      <4>3. Cached' = Cached \cup ({m} \ {0})
        BY <2>2, <4>2 DEF Cached, Chat
      <4> QED
        BY <4>3
    <3>2. CASE lines' = lines
      <4>1. Cached' = Cached \cup {}
        BY <3>2 DEF Cached
      <4> QED
        BY <4>1
    <3> QED
      BY <2>1, <3>1, <3>2
  <2>4. Cached # {} /\ pc # "idle"
    BY <2>1 DEF Linked, Empty
  <2>5. m # 0 => \E x \in Cached : x < m
    BY <2>1, <2>4 DEF MailIsNewer
  <2>6. Oldest' = Oldest
    <3>1. Oldest \in Cached /\ \A c \in Cached : Oldest <= c
      BY <2>4, OldestIs
    <3>2. PICK S \in SUBSET Chat : S \subseteq {m} \ {0} /\ Cached' = Cached \cup S
      <4>1. PICK S \in SUBSET ({m} \ {0}) : Cached' = Cached \cup S
        BY <2>3
      <4>2. S \in SUBSET Chat
        BY <2>2, <4>1
      <4> QED
        BY <4>1, <4>2
    <3>3. Oldest' = Oldest \/ Oldest' \in {m} \ {0}
      BY <2>4, <3>2, OldestMoves
    <3>4. Oldest' <= Oldest
      BY <2>4, <3>2, OldestMoves
    <3>5. m # 0 => Oldest < m
      <4> SUFFICES ASSUME m # 0 PROVE Oldest < m
        OBVIOUS
      <4>1. PICK x \in Cached : x < m
        BY <2>5
      <4>2. Oldest \in Int /\ x \in Int /\ m \in Int /\ Oldest <= x
        BY <2>2, <3>1 DEF Cached, Chat
      <4> QED
        BY <4>1, <4>2
    <3>6. Oldest \in Int /\ m \in Int
      BY <2>2, <3>1 DEF Cached, Chat
    <3> QED
      BY <3>3, <3>4, <3>5, <3>6
  <2>7. Verdict'
    BY <2>1, <2>6 DEF Verdict, Settled
  <2>8. Reported'
    BY <2>1, <2>4 DEF Reported
  <2> QED
    BY <2>7, <2>8
<1>19. ASSUME StartReplay PROVE Told'
  <2>1. /\ UNCHANGED <<lines, aside, stop, report, ask>>
        /\ pc' \in {"closing", "final", "report"} => pc \in {"closing", "final", "report"}
        /\ pc' = "idle" => pc = "idle"
    BY <1>19 DEF StartReplay, StartWork, Off
  <2> QED
    BY <2>1, ToldKept
<1>20. ASSUME ReplayStored PROVE Told'
  <2>1. AppendNew("replay") /\ UNCHANGED <<mailbox, phone, stop, report, ask>> /\ "replay" \in Workers
    BY <1>20 DEF ReplayStored, Workers
  <2>2. aside' = aside \cup work["replay"].new
    BY <1>20 DEF ReplayStored, AppendNew
  <2>3. /\ pc' \in {"closing", "final", "report"} => pc \in {"closing", "final", "report"}
        /\ pc' = "idle" => pc = "idle"
    BY <1>20 DEF ReplayStored
  <2> QED
    BY <2>1, <2>2, <2>3, ToldAppended
<1>21. CASE UNCHANGED vars
  BY <1>21, ToldKept
<1>22. ASSUME Beside PROVE Told'
  BY <1>22, BesideKeeps, ToldKept
<1> QED
  BY <1>1, <1>2, <1>3, <1>4, <1>5, <1>6, <1>7, <1>8, <1>9, <1>10, <1>11, <1>12, <1>13, <1>14,
     <1>15, <1>16, <1>17, <1>18, <1>19, <1>20, <1>21, <1>22 DEF Next, Read, Phone, Fetch, Workers, Ends, Beside

\* Before the first read there is the cache that was found, and no more.
LEMMA InitInv == Init => IInv
<1> SUFFICES ASSUME Init PROVE IInv
  OBVIOUS
<1> USE HistoryAssumption
<1>1. PICK c \in Caches : lines = [m \in {0} \cup Chat |-> IF m \in c THEN 1 ELSE 0]
  BY DEF Init
<1>2. Cached = c /\ c \subseteq Chat
  BY <1>1 DEF Cached
<1>3. blobs = <<>> /\ Len(blobs) = 0 /\ DOMAIN blobs = {}
  <2>1. blobs = <<>>
    BY DEF Init
  <2>2. Len(<<>>) = 0 /\ DOMAIN <<>> = {}
    OBVIOUS
  <2> QED
    BY <2>1, <2>2
<1>4. \A w \in Workers : work[w] = Off /\ work[w].step = "off"
  BY DEF Init, Off
<1>5. DiskOK
  <2>1. lines \in [{0} \cup Chat -> Nat] /\ blobs \in Seq(Replied)
    BY <1>1, <1>3
  <2>2. requests \in 0 .. MaxRequests /\ faults \in 0 .. MaxFaults
    BY DEF Init
  <2> QED
    BY <2>1, <2>2 DEF Init, DiskOK, Listing
<1>6. WalkOK
  <2>1. 1 \in DOMAIN Forms /\ 0 \in 0 .. Size /\ first \in 1 .. Len(blobs) + 1
    BY <1>3, FormsAre DEF Init
  <2> QED
    BY <2>1 DEF Init, WalkOK
<1>7. FormsOK
  BY FormsAre DEF Init, FormsOK
<1>8. WorkOK
  <2>1. Off \in Runs
    BY DEF Off, Runs, Listing, Ends
  <2> QED
    BY <1>4, <2>1 DEF Init, WorkOK, Workers
<1>9. Ingest
  <2>1. \A m \in Chat : lines[m] <= 1 + Due(m)
    BY <1>1 DEF Due
  <2>2. lines[0] = 0
    BY <1>1, <1>2 DEF Chat
  <2> QED
    BY <1>4, <2>1, <2>2 DEF Ingest, Once, Alone, Fresh, Noticed
<1>14. Apart
  <2>1. \A m \in Chat : lines[m] \in {0, 1} /\ Taken("reader", m) = 0 /\ Taken("replay", m) = 0 /\ Due(m) \in {0, 1}
    BY <1>1, <1>4 DEF Taken, Due, Workers
  <2> QED
    BY <2>1 DEF Apart
<1>10. Cover
  <2>1. Folded
    BY <1>4 DEF Folded
  <2>2. Anchored
    BY <1>3 DEF Init, Anchored
  <2>3. NoHoles
    <3> SUFFICES ASSUME NEW x \in Cached, NEW m \in Chat, x < m PROVE m \in Cached \cup mailbox
      BY DEF NoHoles, Solid
    <3>1. x .. Size \subseteq c \cup Mail
      BY <1>2
    <3>2. m \in x .. Size
      BY <1>2 DEF Chat
    <3> QED
      BY <1>2, <3>1, <3>2 DEF Init
  <2>4. MailIsNewer
    <3>1. \A x \in Cached : Lasting(x)
      BY <1>4 DEF Init, Lasting
    <3> QED
      BY <1>2, <3>1 DEF Init, MailIsNewer
  <2>5. Empty /\ Linked
    BY <1>3 DEF Init, Empty, Linked, Online
  <2> QED
    BY <2>1, <2>2, <2>3, <2>4, <2>5 DEF Cover
<1>11. Walk
  BY <1>3 DEF Init, Walk, AtAnchor, Wanting, Pending, Named, Storing
<1>12. Told
  BY DEF Init, Told, Verdict, Reported
<1>13. LiveOK
  BY DEF Init, LiveOK
<1> QED
  BY <1>5, <1>6, <1>7, <1>8, <1>9, <1>10, <1>11, <1>12, <1>13, <1>14, TypeParts DEF IInv, Typed

\* Every step keeps the invariant.
LEMMA StepInv == IInv /\ [Next]_vars => IInv'
<1> SUFFICES ASSUME IInv, [Next]_vars PROVE IInv'
  OBVIOUS
<1>1. Typed'
  BY TypeParts, TypeStep DEF IInv, Typed, Walk, Cover
<1>2. Ingest'
  BY TypeParts, IngestStep DEF IInv, Typed, Ingest
<1>8. Apart'
  BY TypeParts, ApartStep DEF IInv, Typed
<1>3. Cover'
  BY TypeParts, CoverStep DEF IInv, Typed, Cover, Walk
<1>4. Walk'
  BY TypeParts, WalkStep DEF IInv, Typed, Cover, Walk
<1>5. Told'
  BY TypeParts, ReportStep DEF IInv, Typed, Cover, Walk, Told
<1>6. LiveOK'
  BY TypeParts, LiveStep DEF IInv, Typed
<1>7. TypeOK'
  BY <1>1, <1>6 DEF TypeOK, Typed, DiskOK, WalkOK, FormsOK, WorkOK, LiveOK
<1> QED
  BY <1>2, <1>3, <1>4, <1>5, <1>7, <1>8 DEF IInv

\* The invariant holds throughout.
THEOREM Invariance == Spec => []IInv
<1> USE InitInv, StepInv
<1> QED
  BY PTL DEF Spec

\* Types, and the reader runs an ingest only while it stores a page or what is
\* left of a connection.
THEOREM TypeCorrect == Spec => []TypeOK
<1>1. IInv => TypeOK
  BY DEF IInv
<1> QED
  BY <1>1, Invariance, PTL

\* known_message_ids: a message of the chat has one line, and one more for a
\* live delivery, for a chat of any size, any overlap of bundles, answers and
\* replays, and any crash; one more yet if two runs of ingest overlapped.
THEOREM StoredOnce == Spec => []IngestedOnce
<1>1. IInv => IngestedOnce
  <2> SUFFICES ASSUME IInv, NEW m \in Chat PROVE lines[m] <= (IF overlap = "no" THEN 1 ELSE 2) + Due(m)
    BY DueIs DEF IngestedOnce
  <2>1. overlap = "no" => lines[m] <= 1 + Due(m)
    BY DEF IInv, Ingest, Once
  <2>2. lines[m] + Taken("reader", m) + Taken("replay", m) <= 2 + Due(m)
    BY DEF IInv, Apart
  <2>3. lines[m] \in Nat /\ Due(m) \in {0, 1} /\ Taken("reader", m) \in {0, 1} /\ Taken("replay", m) \in {0, 1}
    BY DEF IInv, TypeOK, Due, Taken
  <2> QED
    BY <2>1, <2>2, <2>3
<1> QED
  BY <1>1, Invariance, PTL

\* No ingest drops the other chat from chats.json: it is listed as soon as its
\* row is written, but for one written while an ingest ran; a row that raised,
\* or was cut off by a crash, is named apart.
THEOREM OtherChatsListed == Spec => []ChatsAreListed
<1>1. IInv => ChatsAreListed
  BY DEF IInv, Ingest, Noticed, ChatsAreListed
<1> QED
  BY <1>1, Invariance, PTL

\* _coverage: whatever was late, lost, answered in the other form or not to be
\* downloaded, "complete" means that the first message is there or that an older
\* one came beside the walk, nothing is missing from the oldest message on but
\* above a pushed bundle or what could not be appended, and a report without a note has what was asked for.
THEOREM HonestCoverage == Spec => []CoverageIsHonest
<1>1. IInv => CoverageIsHonest
  <2> SUFFICES ASSUME IInv, pc = "idle"
               PROVE  /\ report.complete = "yes" => Oldest = 1 \/ Oldest \in aside
                      /\ \A m \in Missing : Cached = {} \/ m < Oldest \/ \E b \in bundled : b < m
                      /\ (report.complete = "no" /\ report.note = "no") =>
                           /\ Cardinality(Cached) >= ask.limit \/ Doubled # {}
                           /\ ask.since # 0 => Oldest <= ask.since
    BY DEF CoverageIsHonest
  <2>1. Reported /\ NoHoles
    BY DEF IInv, Told, Cover
  <2>2. ASSUME NEW m \in Missing, Cached # {} PROVE m < Oldest \/ \E b \in bundled : b < m
    <3>1. Oldest \in Cached
      BY <2>2, OldestIs
    <3>2. m \in Chat /\ m \notin Cached \cup mailbox \cup dropped /\ m # Oldest
      BY <3>1 DEF Missing
    <3>3. m \in Int /\ Oldest \in Int
      BY <3>1, <3>2 DEF Chat, Cached
    <3>4. Oldest < m => \E b \in bundled : b < m
      BY <2>1, <3>1, <3>2 DEF NoHoles, Solid
    <3> QED
      BY <3>2, <3>3, <3>4
  <2> QED
    BY <2>1, <2>2 DEF Reported
<1> QED
  BY <1>1, Invariance, PTL
=============================================================================
