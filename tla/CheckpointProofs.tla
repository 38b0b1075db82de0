-------------------------- MODULE CheckpointProofs --------------------------
(***************************************************************************)
(* Proofs about Checkpoint, for any files, calls, edits, turns and bounds: *)
(* type correctness, records that can be restored, edits of the user that  *)
(* survive a rollback, Atomic rollbacks without a trace, and clean ones    *)
(* that give back what there was.                                          *)
(***************************************************************************)
EXTENDS Checkpoint, SequenceFacts, TLAPS

-----------------------------------------------------------------------------
(* The parts of the invariant. *)

\* The contents there have been so far.
Known == Call \cup {Orig, Absent} \cup edits
Restoring == pc \in {"apply", "undoing"}
Calling == pc \in {"call", "captured", "protected"}

\* A content of the user is nowhere before its edit.
Fresh ==
    /\ \A k \in File : {file[k], before[k], plan.was[k]} \subseteq Known
    /\ \A c \in Call : \A e \in rec[c].files : {e.before, e.after} \subseteq Known
    /\ \A i \in DOMAIN plan.todo : plan.todo[i].before \in Known

\* What undoing e makes of a path it writes.
Value(e, k) == IF e.from \in {None, k} THEN e.before ELSE Absent

\* A record has one entry at most for a path, and it leads back to what was there.
Shaped ==
    \A c \in Call :
        /\ \A d, e \in rec[c].files : WritePaths(d) \cap WritePaths(e) # {} => d = e
        /\ \A e \in rec[c].files : \A k \in WritePaths(e) : Value(e, k) = Seen(rec[c].was[k])

\* A call that was made has one line at most.
Journaled ==
    /\ Recorded \subseteq made
    /\ \A i \in DOMAIN journal : IsCheckpoint(journal[i]) => \E c \in Call : journal[i].ids = {c}
    /\ \A i, j \in DOMAIN journal :
           IsCheckpoint(journal[i]) /\ IsCheckpoint(journal[j]) /\ i # j
               => journal[i].ids # journal[j].ids

\* The blobs of a record are there before its line is.
Held(es) == \A e \in es : {e.before, e.after} \subseteq blobs \cup {Absent}
InCall ==
    /\ Calling => cur \in made /\ cur \notin Recorded
    /\ pc = "call" => \A k \in File : Seen(before[k]) \in blobs \cup {Absent}
    /\ pc \in {"captured", "protected"} => Held(rec[cur].files)
    /\ pc = "protected" => cur \in refs

\* A quiet file has what the user wrote, which no record left there.
Quiet ==
    /\ \A k \in quiet :
           /\ file[k] \in edits
           /\ \A c \in Call : \A e \in rec[c].files : e.path = k => e.after # file[k]
    /\ pc = "call" => \A k \in quiet : before[k] = file[k]

\* No rollback writes a quiet file.
Planned ==
    Restoring =>
        /\ plan.ids # {}
        /\ \A i \in DOMAIN plan.todo : WritePaths(plan.todo[i]) \cap quiet = {}
        /\ (plan.backup \cup plan.left) \cap quiet = {}

\* An Atomic one writes what it has a backup of.
BackedUp ==
    /\ pc = "apply" /\ plan.atomic =>
           /\ \A i \in DOMAIN plan.todo : WritePaths(plan.todo[i]) \subseteq plan.backup
           /\ ~plan.dirty => \A k \in File \ plan.backup : file[k] = plan.was[k]
    /\ pc = "undoing" /\ ~plan.dirty /\ ~plan.failed =>
           \A k \in File \ plan.left : file[k] = plan.was[k]

\* The last entry that writes a path brings its original back.
Touching(ids, k) == {c \in ids : \E e \in rec[c].files : k \in WritePaths(e)}
ToBe(f, todo, x, k) ==
    \/ \E i \in DOMAIN todo :
           /\ k \in WritePaths(todo[i])
           /\ \A j \in DOMAIN todo : j > i => k \notin WritePaths(todo[j])
           /\ x \in {Value(todo[i], k)} \cup Large
    \/ /\ \A i \in DOMAIN todo : k \notin WritePaths(todo[i])
       /\ x \in {f[k]} \cup Large
WillBe ==
    pc = "apply" /\ plan.clean /\ ~plan.single /\ ~plan.dirty =>
        \A k \in File :
            Touching(plan.ids, k) # {} => ToBe(file, plan.todo, Original(plan.ids, k), k)

IInv ==
    /\ TypeOK /\ Journaled /\ Fresh /\ Shaped /\ InCall /\ RecordsRestorable
    /\ Quiet /\ Planned /\ BackedUp /\ WillBe

-----------------------------------------------------------------------------
(* The journal. *)

\* The rows appended are rows.
LEMMA RowTypes ==
    /\ Torn \in Row
    /\ \A c \in Call : CheckpointRow(c) \in Row
    /\ \A ids \in SUBSET Call : \A clean \in BOOLEAN : RollbackRow(ids, clean) \in Row
BY DEF Torn, CheckpointRow, RollbackRow, Row

\* The row spoils the line without its newline.
Spoilt(row) ==
    /\ journal # <<>> /\ Len(AppendRow(row)) = Len(journal)
    /\ \A i \in 1..Len(journal) - 1 : AppendRow(row)[i] = journal[i]
    /\ ~IsCheckpoint(journal[Len(journal)]) /\ ~IsCheckpoint(AppendRow(row)[Len(journal)])
    /\ journal[Len(journal)].kind # "rollback" /\ AppendRow(row)[Len(journal)].kind # "rollback"

\* A row is added after the others, or spoils that line.
LEMMA AppendRowFacts ==
    ASSUME journal \in Seq(Row), NEW row \in Row
    PROVE  /\ AppendRow(row) \in Seq(Row)
           /\ AppendRow(row) = Append(journal, row) \/ Spoilt(row)
<1> DEFINE n == Len(journal)
           kind == IF row.kind = "torn" THEN "torn" ELSE "bad"
           spoilt == [journal[n] EXCEPT !.kind = kind]
<1>1. CASE journal # <<>> /\ Last(journal).kind = "torn"
  <2>1. n \in 1..Len(journal) /\ journal[n] \in Row /\ journal[n].kind = "torn"
    BY <1>1 DEF Last
  <2>2. AppendRow(row) = [journal EXCEPT ![n] = spoilt]  BY <1>1 DEF AppendRow
  <2>3. spoilt \in Row /\ spoilt.kind \in {"torn", "bad"}  BY <2>1 DEF Row
  <2> HIDE DEF spoilt
  <2>4. /\ AppendRow(row) \in Seq(Row) /\ Len(AppendRow(row)) = n
        /\ AppendRow(row)[n] = spoilt
        /\ \A i \in 1..n - 1 : AppendRow(row)[i] = journal[i]
    BY <2>1, <2>2, <2>3
  <2>5. Spoilt(row)  BY <1>1, <2>1, <2>3, <2>4 DEF Spoilt, IsCheckpoint
  <2> QED BY <2>4, <2>5
<1>2. CASE ~(journal # <<>> /\ Last(journal).kind = "torn")
  <2>1. AppendRow(row) = Append(journal, row)  BY <1>2 DEF AppendRow
  <2> QED BY <2>1
<1> QED BY <1>1, <1>2

\* What the checkpoint rows of a journal say, for any sequence of rows.
Ids(s) == UNION {s[i].ids : i \in {j \in DOMAIN s : IsCheckpoint(s[j])}}
OneEach(s) ==
    /\ \A i \in DOMAIN s : IsCheckpoint(s[i]) => \E c \in Call : s[i].ids = {c}
    /\ \A i, j \in DOMAIN s :
           IsCheckpoint(s[i]) /\ IsCheckpoint(s[j]) /\ i # j => s[i].ids # s[j].ids

\* Rows of another kind change nothing of that.
LEMMA AppendOther ==
    ASSUME journal \in Seq(Row), NEW row \in Row, ~IsCheckpoint(row), OneEach(journal)
    PROVE  Ids(AppendRow(row)) = Ids(journal) /\ OneEach(AppendRow(row))
<1> DEFINE j == AppendRow(row)
           n == Len(journal)
           A == {i \in DOMAIN j : IsCheckpoint(j[i])}
           B == {i \in DOMAIN journal : IsCheckpoint(journal[i])}
<1>0. j \in Seq(Row) /\ n \in Nat /\ DOMAIN journal = 1..n /\ DOMAIN j = 1..Len(j)
  BY AppendRowFacts
<1>1. A = B /\ \A i \in A : j[i] = journal[i]
  <2>1. CASE j = Append(journal, row)
    <3>1. Len(j) = n + 1 /\ j[n + 1] = row /\ \A i \in 1..n : j[i] = journal[i]
      BY <1>0, <2>1
    <3> HIDE DEF j, n
    <3> QED BY <1>0, <3>1
  <2>2. CASE Spoilt(row)
    <3>1. /\ Len(j) = n /\ \A i \in 1..n - 1 : j[i] = journal[i]
          /\ ~IsCheckpoint(journal[n]) /\ ~IsCheckpoint(j[n])
      BY <2>2 DEF Spoilt
    <3> HIDE DEF j, n
    <3> QED BY <1>0, <3>1
  <2> QED BY <2>1, <2>2, AppendRowFacts
<1> HIDE DEF j, A, B
<1>2. Ids(j) = Ids(journal)
  <2>1. Ids(j) = UNION {j[i].ids : i \in A} /\ Ids(journal) = UNION {journal[i].ids : i \in B}
    BY DEF Ids, A, B
  <2> QED BY <1>1, <2>1
<1>3. OneEach(j)
  <2>1. \A i \in DOMAIN j : IsCheckpoint(j[i]) => i \in DOMAIN journal /\ IsCheckpoint(journal[i])
                                                  /\ j[i] = journal[i]
    BY <1>1 DEF A, B
  <2> QED BY <2>1 DEF OneEach
<1> QED BY <1>2, <1>3 DEF j

\* A new checkpoint adds its id.
LEMMA AppendCheckpoint ==
    ASSUME journal \in Seq(Row), NEW c \in Call, OneEach(journal), c \notin Ids(journal)
    PROVE  Ids(AppendRow(CheckpointRow(c))) \subseteq Ids(journal) \cup {c}
           /\ OneEach(AppendRow(CheckpointRow(c)))
<1> DEFINE row == CheckpointRow(c)
           j == AppendRow(row)
           n == Len(journal)
<1>0. /\ j \in Seq(Row) /\ n \in Nat /\ DOMAIN journal = 1..n /\ DOMAIN j = 1..Len(j)
      /\ row.ids = {c} /\ IsCheckpoint(row)
  BY AppendRowFacts, RowTypes DEF CheckpointRow, IsCheckpoint
<1>1. ASSUME NEW i \in DOMAIN j, IsCheckpoint(j[i])
      PROVE  \/ j[i].ids = {c} /\ i = n + 1
             \/ i \in DOMAIN journal /\ IsCheckpoint(journal[i]) /\ j[i] = journal[i]
  <2>1. CASE j = Append(journal, row)
    <3>1. Len(j) = n + 1 /\ j[n + 1] = row /\ \A a \in 1..n : j[a] = journal[a]
      BY <1>0, <2>1
    <3> HIDE DEF j, n, row
    <3> QED BY <1>0, <1>1, <3>1
  <2>2. CASE Spoilt(row)
    <3>1. /\ Len(j) = n /\ \A a \in 1..n - 1 : j[a] = journal[a]
          /\ ~IsCheckpoint(journal[n]) /\ ~IsCheckpoint(j[n])
      BY <2>2 DEF Spoilt
    <3> HIDE DEF j, n
    <3> QED BY <1>0, <1>1, <3>1
  <2>3. row \in Row  BY RowTypes
  <2> QED BY <2>1, <2>2, <2>3, AppendRowFacts
<1>2. \A i \in DOMAIN journal : IsCheckpoint(journal[i]) => journal[i].ids # {c}
  BY DEF Ids
<1> HIDE DEF j, n
<1>3. Ids(j) \subseteq Ids(journal) \cup {c}  BY <1>1 DEF Ids
<1>4. OneEach(j)
  <2>1. ASSUME NEW i \in DOMAIN j, IsCheckpoint(j[i]) PROVE \E d \in Call : j[i].ids = {d}
    BY <1>1, <2>1 DEF OneEach
  <2>2. ASSUME NEW a \in DOMAIN j, NEW b \in DOMAIN j, IsCheckpoint(j[a]), IsCheckpoint(j[b]), a # b
        PROVE  j[a].ids # j[b].ids
    <3>1. \/ j[a].ids = {c} /\ a = n + 1
          \/ a \in DOMAIN journal /\ IsCheckpoint(journal[a]) /\ j[a] = journal[a]
      BY <1>1, <2>2
    <3>2. \/ j[b].ids = {c} /\ b = n + 1
          \/ b \in DOMAIN journal /\ IsCheckpoint(journal[b]) /\ j[b] = journal[b]
      BY <1>1, <2>2
    <3> QED BY <3>1, <3>2, <2>2, <1>2 DEF OneEach
  <2> QED BY <2>1, <2>2 DEF OneEach
<1> QED BY <1>3, <1>4 DEF j

\* Rows whose checkpoints are in the journal.
Among(s) ==
    /\ s \in Seq(Row) /\ OneEach(s) /\ Ids(s) \subseteq Ids(journal)

\* The rows a cleanup keeps are such rows.
LEMMA KeptFacts ==
    ASSUME journal \in Seq(Row), OneEach(journal)
    PROVE  Among(Kept)
<1> DEFINE stays(row) == IsCheckpoint(row) /\ ~(row.ids \subseteq old \ refs)
           S == {row \in Row : stays(row)}
           ids == UNION {journal[i].ids : i \in {j \in DOMAIN journal : stays(journal[j])}}
           R == {row \in Row : row.kind = "rollback" /\ row.ids \cap ids # {}}
           s == Only(journal, S)
           t == Only(journal, R)
           n == Len(journal)
<1>1. Kept = s \o t  BY Zenon DEF Kept
<1>2. \A row \in S : IsCheckpoint(row)  OBVIOUS
<1>3. \A row \in R : ~IsCheckpoint(row)  BY DEF IsCheckpoint
<1> HIDE DEF S, R
<1>4. s \in Seq(Row) /\ \E at : Places(at, journal, S, s)  BY OnlyPlaces, Zenon
<1>5. t \in Seq(Row) /\ \E at : Places(at, journal, R, t)  BY OnlyPlaces, Zenon
<1>6. PICK at : Places(at, journal, S, s)  BY <1>4
<1>7. \A i \in 1..Len(t) : ~IsCheckpoint(t[i])  BY <1>3, <1>5 DEF Places
<1> HIDE DEF s, t
<1>8. /\ Kept \in Seq(Row) /\ Len(Kept) = Len(s) + Len(t)
      /\ \A i \in 1..Len(s) : Kept[i] = s[i]
      /\ \A i \in 1..Len(t) : Kept[Len(s) + i] = t[i]
  BY <1>1, <1>4, <1>5, ConcatAt
<1>9. ASSUME NEW i \in DOMAIN Kept, IsCheckpoint(Kept[i])
      PROVE  i \in 1..Len(s) /\ at[i] \in 1..n /\ Kept[i] = journal[at[i]]
  <2>1. Len(s) \in Nat /\ Len(t) \in Nat /\ i \in 1..Len(s) + Len(t)
    BY <1>4, <1>5, <1>8, <1>9
  <2>2. i \notin 1..Len(s) => i - Len(s) \in 1..Len(t) /\ i = Len(s) + (i - Len(s))  BY <2>1
  <2>3. i \in 1..Len(s)  BY <2>2, <1>7, <1>8, <1>9
  <2> QED BY <2>3, <1>6, <1>8 DEF Places
<1>10. \A a, b \in 1..Len(s) : a # b => at[a] # at[b]
  <2> SUFFICES ASSUME NEW a \in 1..Len(s), NEW b \in 1..Len(s), a # b PROVE at[a] # at[b]
    OBVIOUS
  <2>1. Len(s) \in Nat /\ n \in Nat /\ at[a] \in 1..n /\ at[b] \in 1..n  BY <1>4, <1>6 DEF Places
  <2>2. (a < b => at[a] < at[b]) /\ (b < a => at[b] < at[a])  BY <1>6 DEF Places
  <2>3. at[a] \in Int /\ at[b] \in Int /\ a \in Int /\ b \in Int /\ (a < b \/ b < a)
    BY <2>1
  <2> QED BY <2>2, <2>3
<1>11. DOMAIN journal = 1..n  OBVIOUS
<1>12. Ids(Kept) \subseteq Ids(journal)  BY <1>9, <1>11 DEF Ids
<1>13. OneEach(Kept)
  <2>1. ASSUME NEW i \in DOMAIN Kept, IsCheckpoint(Kept[i]) PROVE \E c \in Call : Kept[i].ids = {c}
    BY <1>9, <1>11, <2>1 DEF OneEach
  <2>2. ASSUME NEW a \in DOMAIN Kept, NEW b \in DOMAIN Kept, IsCheckpoint(Kept[a]),
               IsCheckpoint(Kept[b]), a # b
        PROVE  Kept[a].ids # Kept[b].ids
    <3>1. /\ a \in 1..Len(s) /\ at[a] \in 1..n /\ Kept[a] = journal[at[a]]
          /\ b \in 1..Len(s) /\ at[b] \in 1..n /\ Kept[b] = journal[at[b]]
      BY <1>9, <2>2
    <3>2. at[a] # at[b]  BY <3>1, <1>10, <2>2
    <3> QED BY <3>1, <3>2, <1>11, <2>2 DEF OneEach
  <2> QED BY <2>1, <2>2 DEF OneEach
<1> QED BY <1>8, <1>12, <1>13 DEF Among

\* So are those of a rewrite that was interrupted.
LEMMA PrefixAmong ==
    ASSUME NEW s, Among(s), NEW n \in 0..Len(s)
    PROVE  Among(SubSeq(s, 1, n)) /\ Among(Append(SubSeq(s, 1, n), Torn))
<1> DEFINE t == SubSeq(s, 1, n)
           u == Append(t, Torn)
<1>1. s \in Seq(Row) /\ Len(s) \in Nat /\ n \in Nat /\ n <= Len(s)  BY DEF Among
<1>2. t \in Seq(Row) /\ Len(t) = n /\ \A i \in 1..n : t[i] = s[i] /\ i \in DOMAIN s
  BY <1>1
<1> HIDE DEF t
<1>3. Torn \in Row /\ ~IsCheckpoint(Torn)  BY DEF Torn, Row, IsCheckpoint
<1>4. u \in Seq(Row) /\ DOMAIN u = 1..n + 1 /\ u[n + 1] = Torn /\ \A i \in 1..n : u[i] = t[i]
  BY <1>1, <1>2, <1>3
<1>5. DOMAIN t = 1..n  BY <1>2
<1> HIDE DEF u
<1>6. \A i \in DOMAIN u : IsCheckpoint(u[i]) => i \in DOMAIN s /\ u[i] = s[i]
  BY <1>1, <1>2, <1>3, <1>4
<1>7. \A i \in DOMAIN t : t[i] = s[i] /\ i \in DOMAIN s  BY <1>2, <1>5
<1>8. Ids(t) \subseteq Ids(s) /\ Ids(u) \subseteq Ids(s)  BY <1>6, <1>7 DEF Ids
<1>9. OneEach(t)  BY <1>7 DEF OneEach, Among
<1>10. OneEach(u)  BY <1>6 DEF OneEach, Among
<1> QED BY <1>2, <1>4, <1>8, <1>9, <1>10 DEF Among, t, u

\* The calls that are listed, each once.
Lists(l) ==
    /\ l \in Seq(Recorded)
    /\ \A i, j \in 1..Len(l) : l[i] = l[j] => i = j
\* Listed has calls that are recorded, none twice.
LEMMA ListedFacts ==
    ASSUME journal \in Seq(Row), OneEach(journal)
    PROVE  Lists(Listed) /\ Recorded \subseteq Call
<1> DEFINE S == {row \in Row : IsCheckpoint(row)}
           rows == Only(journal, S)
           n == Len(journal)
<1>1. \A row \in Row : row \in S <=> IsCheckpoint(row)  OBVIOUS
<1>2. Listed = [i \in DOMAIN rows |-> CHOOSE c \in rows[i].ids : TRUE]  BY Zenon DEF Listed
<1> HIDE DEF S
<1>3. rows \in Seq(Row) /\ \E at : Places(at, journal, S, rows)  BY OnlyPlaces, Zenon
<1>4. PICK at : Places(at, journal, S, rows)  BY <1>3
<1> HIDE DEF rows
<1>5. /\ DOMAIN rows = 1..Len(rows) /\ Len(rows) \in Nat /\ DOMAIN journal = 1..n
      /\ DOMAIN Listed = 1..Len(rows)
  BY <1>2, <1>3
<1>6. ASSUME NEW i \in 1..Len(rows)
      PROVE  /\ at[i] \in 1..n /\ rows[i] = journal[at[i]] /\ IsCheckpoint(journal[at[i]])
             /\ rows[i].ids = {Listed[i]} /\ Listed[i] \in Recorded
  <2>1. at[i] \in 1..n /\ rows[i] = journal[at[i]] /\ rows[i] \in S  BY <1>4 DEF Places
  <2>2. IsCheckpoint(journal[at[i]])  BY <2>1, <1>1, <1>3, <1>5
  <2>3. \E c \in Call : rows[i].ids = {c}  BY <2>1, <2>2, <1>5 DEF OneEach
  <2>4. Listed[i] = CHOOSE c \in rows[i].ids : TRUE  BY <1>2, <1>5
  <2>5. rows[i].ids = {Listed[i]}  BY <2>3, <2>4
  <2> QED BY <2>1, <2>2, <2>5, <1>5 DEF Recorded
<1>7. Listed \in Seq(Recorded) /\ Len(Listed) = Len(rows)
  <2>1. Listed \in [1..Len(rows) -> Recorded]  BY <1>2, <1>5, <1>6
  <2> QED BY <2>1, <1>5
<1>8. ASSUME NEW i \in 1..Len(rows), NEW j \in 1..Len(rows), Listed[i] = Listed[j] PROVE i = j
  <2>0. /\ at[i] \in DOMAIN journal /\ IsCheckpoint(journal[at[i]])
        /\ at[j] \in DOMAIN journal /\ IsCheckpoint(journal[at[j]])
        /\ journal[at[i]].ids = journal[at[j]].ids
    BY <1>5, <1>6, <1>8
  <2>1. at[i] = at[j]  BY <2>0 DEF OneEach
  <2>2. at[i] \in Nat /\ (i < j => at[i] < at[j]) /\ (j < i => at[j] < at[i])
    BY <1>4, <1>6 DEF Places
  <2>3. i \in Nat /\ j \in Nat  BY <1>5
  <2> QED BY <2>1, <2>2, <2>3
<1>9. Recorded \subseteq Call  BY <1>5 DEF Recorded, OneEach
<1> QED BY <1>7, <1>8, <1>9 DEF Lists

-----------------------------------------------------------------------------
(* The preflight. *)

\* What the constants leave apart.
LEMMA Apart ==
    /\ Call \cap Edit = {} /\ Orig \notin Edit /\ Absent \notin Edit /\ None \notin Edit
    /\ Orig \notin Call /\ Absent \notin Call /\ None \notin Call
    /\ Orig # Absent /\ None \notin File /\ IsFiniteSet(File) /\ File \subseteq Nat
    /\ Present \subseteq File /\ Large \subseteq Content
BY CheckpointAssumption

\* An entry writes files.
LEMMA WritePathsType ==
    \A e \in Entry : WritePaths(e) \subseteq File /\ e.path \in WritePaths(e)
                     /\ (e.from # None => e.from \in WritePaths(e))
BY Apart DEF WritePaths, Entry

\* Undoing an entry gives the files it writes their values and leaves the others.
LEMMA UndoneFacts ==
    ASSUME NEW e \in Entry, NEW tree \in Tree
    PROVE  /\ Undone(e, tree) \in Tree
           /\ \A k \in File : Undone(e, tree)[k] = IF k \in WritePaths(e) THEN Value(e, k) ELSE tree[k]
<1>1. /\ e.path \in File /\ e.from \in File \cup {None} /\ e.before \in Content \cup {Absent}
      /\ tree \in [File -> Content \cup {Absent}]
  BY DEF Entry, Tree
<1>2. CASE e.from = None
  <2>1. Undone(e, tree) = [tree EXCEPT ![e.path] = e.before]  BY <1>2 DEF Undone
  <2>2. \A k \in File : k \in WritePaths(e) <=> k = e.path  BY <1>1, <1>2, Apart DEF WritePaths
  <2>3. Value(e, e.path) = e.before  BY <1>2 DEF Value
  <2> QED BY <1>1, <2>1, <2>2, <2>3 DEF Tree
<1>3. CASE e.from # None
  <2>1. e.from \in File
        /\ Undone(e, tree) = [tree EXCEPT ![e.path] = Absent, ![e.from] = e.before]
    BY <1>1, <1>3 DEF Undone
  <2>2. \A k \in File : k \in WritePaths(e) <=> k = e.path \/ k = e.from
    BY <1>1, <1>3, Apart DEF WritePaths
  <2>3. \A k \in File : Value(e, k) = IF k = e.from THEN e.before ELSE Absent
    BY <1>3, Apart DEF Value
  <2> QED BY <1>1, <2>1, <2>2, <2>3 DEF Tree
<1> QED BY <1>2, <1>3

\* The states of the walk.
States == [tree : Tree, todo : Seq(Entry), clean : BOOLEAN]
Stepped(e, s) ==
    IF Conflicting(e, s.tree) THEN [s EXCEPT !.clean = FALSE]
    ELSE [s EXCEPT !.tree = Undone(e, @), !.todo = Append(@, e)]
Started == [tree |-> file, todo |-> <<>>, clean |-> TRUE]
WalkStep(walk, entries, i) == IF i = 0 THEN Started ELSE Stepped(entries[i], walk[i - 1])
Walking(entries) == CHOOSE walk : walk = [i \in 0..Len(entries) |-> WalkStep(walk, entries, i)]

\* A step of the walk leads from state to state, and undoes what does not conflict.
LEMMA SteppedFacts ==
    ASSUME NEW e \in Entry, NEW s \in States
    PROVE  /\ Stepped(e, s) \in States
           /\ Conflicting(e, s.tree) => Stepped(e, s).tree = s.tree /\ Stepped(e, s).todo = s.todo
                                        /\ Stepped(e, s).clean = FALSE
           /\ ~Conflicting(e, s.tree) => Stepped(e, s).tree = Undone(e, s.tree)
                                         /\ Stepped(e, s).todo = Append(s.todo, e)
                                         /\ Stepped(e, s).clean = s.clean
<1>1. s.tree \in Tree /\ s.todo \in Seq(Entry) /\ s.clean \in BOOLEAN  BY DEF States
<1>2. Undone(e, s.tree) \in Tree  BY <1>1, UndoneFacts
<1>3. Append(s.todo, e) \in Seq(Entry)  BY <1>1
<1> QED BY <1>1, <1>2, <1>3 DEF Stepped, States

\* Walk is the last of the states that one step after the other leads to.
LEMMA WalkDef ==
    ASSUME file \in Tree, NEW entries \in Seq(Entry)
    PROVE  /\ Walk(entries) = Walking(entries)[Len(entries)]
           /\ \A i \in 0..Len(entries) :
                  Walking(entries)[i] = WalkStep(Walking(entries), entries, i)
<1> DEFINE n == Len(entries)
           D == [i \in 0..n |-> [s \in States |-> IF i = 0 THEN s ELSE Stepped(entries[i], s)]]
<1>1. n \in Nat /\ \A i \in 1..n : entries[i] \in Entry  OBVIOUS
<1>2. D \in [0..n -> [States -> States]]
  <2>1. ASSUME NEW i \in 0..n, NEW s \in States
        PROVE  (IF i = 0 THEN s ELSE Stepped(entries[i], s)) \in States
    <3>1. i # 0 => i \in 1..n  BY <1>1
    <3> HIDE DEF n
    <3> QED BY <1>1, <3>1, SteppedFacts
  <2> QED BY <2>1
<1>3. Started \in States
  <2>1. <<>> \in Seq(Entry)  OBVIOUS
  <2> QED BY <2>1 DEF Started, States
<1>4. PICK g \in [0..n -> States] :
          \A i \in 0..n : g[i] = IF i = 0 THEN Started ELSE D[i][g[i - 1]]
  <2>1. n \in Nat /\ 0 \in Nat  BY <1>1
  <2> HIDE DEF D, n
  <2>2. \E g \in [0..n -> States] : Recurs(g, 0, n, Started, D)
    BY <1>2, <1>3, <2>1, RecursionExists
  <2> QED BY <2>2 DEF Recurs
<1>5. ASSUME NEW i \in 0..n PROVE g[i] = WalkStep(g, entries, i)
  <2>1. CASE i = 0  BY <2>1, <1>4 DEF WalkStep
  <2>2. CASE i # 0
    <3>1. i - 1 \in 0..n /\ g[i - 1] \in States  BY <2>2, <1>1
    <3>2. D[i][g[i - 1]] = Stepped(entries[i], g[i - 1])  BY <2>2, <3>1
    <3> HIDE DEF D, n
    <3> QED BY <1>4, <2>2, <3>2 DEF WalkStep
  <2> QED BY <2>1, <2>2
<1>6. g = [i \in 0..n |-> WalkStep(g, entries, i)]  BY <1>5
<1>7. Walking(entries) = [i \in 0..n |-> WalkStep(Walking(entries), entries, i)]
  <2> HIDE DEF D, n
  <2> QED BY <1>6 DEF Walking, n
<1>8. Walk(entries) = Walking(entries)[n]
  BY Zenon DEF Walk, Walking, WalkStep, Stepped, Started
<1>9. \A j \in 0..n : Walking(entries)[j] = WalkStep(Walking(entries), entries, j)
  <2> HIDE DEF n
  <2> QED BY <1>7, Zenon
<1> QED BY <1>8, <1>9

\* A walk over i entries: what is left to undo are entries, all of them when nothing
\* conflicts, and none that writes a file which is there and which none of them left so.
Spared(entries, Q) ==
    \A k \in Q : /\ k \in File /\ file[k] # Absent
                 /\ \A i \in 1..Len(entries) : entries[i].path = k => entries[i].after # file[k]
Walked(s, entries, i, Q) ==
    /\ s \in States
    /\ \A k \in Q : s.tree[k] = file[k]
    /\ \A a \in 1..Len(s.todo) :
           /\ \E j \in 1..i : s.todo[a] = entries[j]
           /\ WritePaths(s.todo[a]) \cap Q = {}
    /\ s.clean => Len(s.todo) = i /\ \A a \in 1..i : s.todo[a] = entries[a]
\* One more entry is walked.
LEMMA WalkedStep ==
    ASSUME file \in Tree, NEW entries \in Seq(Entry), NEW Q, Spared(entries, Q),
           NEW i \in Nat, i + 1 <= Len(entries), NEW s, Walked(s, entries, i, Q)
    PROVE  Walked(Stepped(entries[i + 1], s), entries, i + 1, Q)
<1> DEFINE e == entries[i + 1]
           t == Stepped(e, s)
<1>1. e \in Entry /\ i + 1 \in 1..Len(entries)  OBVIOUS
<1>2. s \in States /\ s.tree \in Tree /\ s.todo \in Seq(Entry) /\ Len(s.todo) \in Nat
  BY DEF Walked, States
<1>3. \A j \in 1..i : j \in 1..i + 1  OBVIOUS
<1>4. i + 1 \in 1..i + 1 /\ e = entries[i + 1]  OBVIOUS
<1> HIDE DEF e, t
<1>5. /\ t \in States
      /\ Conflicting(e, s.tree) => t.tree = s.tree /\ t.todo = s.todo /\ t.clean = FALSE
      /\ ~Conflicting(e, s.tree) => t.tree = Undone(e, s.tree) /\ t.todo = Append(s.todo, e)
                                    /\ t.clean = s.clean
  BY <1>1, <1>2, SteppedFacts DEF t
<1>6. CASE Conflicting(e, s.tree)
  BY <1>3, <1>5, <1>6 DEF Walked, t, e
<1>7. CASE ~Conflicting(e, s.tree)
  <2>1. s.tree[e.path] = e.after /\ (e.from = None \/ s.tree[e.from] = Absent)
    BY <1>7 DEF Conflicting, Changed
  <2>2. \A k \in Q : k # e.path /\ k # e.from
    <3> SUFFICES ASSUME NEW k \in Q PROVE k # e.path /\ k # e.from  OBVIOUS
    <3>1. s.tree[k] = file[k] /\ k \in File /\ file[k] # Absent /\ (e.path = k => e.after # file[k])
      BY <1>1, <1>4 DEF Walked, Spared
    <3>2. k # None  BY <3>1, Apart
    <3> QED BY <2>1, <3>1, <3>2
  <2>3. WritePaths(e) \cap Q = {}  BY <2>2 DEF WritePaths
  <2>4. \A k \in Q : t.tree[k] = file[k]
    <3> SUFFICES ASSUME NEW k \in Q PROVE t.tree[k] = file[k]  OBVIOUS
    <3>1. k \in File /\ s.tree[k] = file[k] /\ k \notin WritePaths(e)  BY <2>3 DEF Spared, Walked
    <3>2. Undone(e, s.tree)[k] = s.tree[k]  BY <1>1, <1>2, <3>1, UndoneFacts
    <3> QED BY <1>5, <1>7, <3>1, <3>2
  <2>5. /\ t.todo = Append(s.todo, e) /\ t.clean = s.clean /\ Len(t.todo) = Len(s.todo) + 1
        /\ t.todo[Len(s.todo) + 1] = e /\ \A a \in 1..Len(s.todo) : t.todo[a] = s.todo[a]
    BY <1>1, <1>2, <1>5, <1>7
  <2>6. ASSUME NEW a \in 1..Len(t.todo)
        PROVE  (\E j \in 1..i + 1 : t.todo[a] = entries[j]) /\ WritePaths(t.todo[a]) \cap Q = {}
    <3>1. a = Len(s.todo) + 1 \/ a \in 1..Len(s.todo)  BY <1>2, <2>5
    <3> QED BY <3>1, <1>3, <1>4, <2>3, <2>5 DEF Walked
  <2>7. t.clean => Len(t.todo) = i + 1 /\ \A a \in 1..i + 1 : t.todo[a] = entries[a]
    <3> SUFFICES ASSUME t.clean
                 PROVE  Len(t.todo) = i + 1 /\ \A a \in 1..i + 1 : t.todo[a] = entries[a]
      OBVIOUS
    <3>1. Len(s.todo) = i /\ \A a \in 1..i : s.todo[a] = entries[a]  BY <2>5 DEF Walked
    <3>2. \A a \in 1..i + 1 : a = i + 1 \/ a \in 1..i  OBVIOUS
    <3> QED BY <2>5, <3>1, <3>2, <1>4
  <2> QED BY <1>5, <2>4, <2>6, <2>7 DEF Walked, t, e
<1> QED BY <1>6, <1>7 DEF t, e

\* What the preflight finds.
LEMMA WalkFacts ==
    ASSUME file \in Tree, NEW entries \in Seq(Entry), NEW Q, Spared(entries, Q)
    PROVE  Walked(Walk(entries), entries, Len(entries), Q)
<1> DEFINE n == Len(entries)
           w == Walking(entries)
           B == {i \in Nat : i <= n => Walked(w[i], entries, i, Q)}
<1>1. n \in Nat  OBVIOUS
<1>2. /\ Walk(entries) = w[n]
      /\ \A i \in 0..n : w[i] = IF i = 0 THEN Started ELSE Stepped(entries[i], w[i - 1])
  BY WalkDef DEF WalkStep
<1> HIDE DEF w
<1>3. 0 \in B
  <2>1. w[0] = Started
    <3>1. 0 \in 0..n  BY <1>1
    <3> HIDE DEF n
    <3> QED BY <1>2, <3>1
  <2>2. Started \in States /\ Started.tree = file /\ Started.todo = <<>>
    <3>1. <<>> \in Seq(Entry)  OBVIOUS
    <3> QED BY <3>1 DEF Started, States
  <2>3. 1..Len(<<>>) = {} /\ Len(<<>>) = 0 /\ 1..0 = {}  OBVIOUS
  <2> QED BY <2>1, <2>2, <2>3 DEF Walked
<1>4. \A i \in Nat : i \in B => i + 1 \in B
  <2> SUFFICES ASSUME NEW i \in B, i + 1 <= n PROVE Walked(w[i + 1], entries, i + 1, Q)
    OBVIOUS
  <2>1. i \in Nat /\ i + 1 \in 0..n /\ i + 1 # 0 /\ (i + 1) - 1 = i /\ Walked(w[i], entries, i, Q)
    BY <1>1
  <2>2. w[i + 1] = Stepped(entries[i + 1], w[i])
    <3> HIDE DEF n
    <3> QED BY <1>2, <2>1
  <2> HIDE DEF B
  <2> QED BY <2>1, <2>2, WalkedStep
<1>5. Nat \subseteq B
  <2> HIDE DEF B
  <2> QED BY <1>3, <1>4, NatSetInduction
<1> QED BY <1>1, <1>2, <1>5

-----------------------------------------------------------------------------
(* What a rollback selects, and in which order. *)

\* Listed calls, each once, the newest first.
NewestFirst(o) ==
    /\ o \in Seq(Recorded)
    /\ \A i, j \in 1..Len(o) : i < j =>
           \E a, b \in 1..Len(Listed) : a < b /\ Listed[a] = o[j] /\ Listed[b] = o[i]
\* What is selected is so.
LEMMA SelectedFacts ==
    ASSUME Lists(Listed), NEW ids
    PROVE  NewestFirst(Selected(ids)) /\ ToSet(Selected(ids)) \subseteq Recorded
<1> DEFINE X == ids \ Consumed
           l == Listed
           o == Only(l, X)
           n == Len(o)
           r == Selected(ids)
<1>1. l \in Seq(Recorded)  BY DEF Lists
<1> HIDE DEF X, l
<1>2. o \in Seq(Recorded) /\ \E at : Places(at, l, X, o)  BY <1>1, OnlyPlaces, Zenon
<1>3. PICK at : Places(at, l, X, o)  BY <1>2
<1>4. r = [i \in 1..Len(o) |-> o[(Len(o) - i) + 1]]  BY Zenon DEF Selected, Reverse, X, l
<1> HIDE DEF o, r
<1>5. n \in Nat /\ \A i \in 1..n : (n - i) + 1 \in 1..n /\ o[i] \in Recorded  BY <1>2
<1>6. r \in Seq(Recorded) /\ Len(r) = n /\ \A i \in 1..n : r[i] = o[(n - i) + 1]
  BY <1>4, <1>5
<1>7. ASSUME NEW i \in 1..n, NEW j \in 1..n, i < j
      PROVE  \E a, b \in 1..Len(l) : a < b /\ l[a] = r[j] /\ l[b] = r[i]
  <2> DEFINE a == (n - j) + 1
             b == (n - i) + 1
  <2>1. a \in 1..n /\ b \in 1..n /\ a < b  BY <1>5, <1>7
  <2>2. r[j] = o[a] /\ r[i] = o[b]  BY <1>6
  <2> HIDE DEF a, b
  <2>3. at[a] < at[b] /\ at[a] \in 1..Len(l) /\ at[b] \in 1..Len(l) /\ o[a] = l[at[a]] /\ o[b] = l[at[b]]
    BY <2>1, <1>3 DEF Places
  <2> QED BY <2>2, <2>3
<1>8. NewestFirst(r)
  <2> HIDE DEF n
  <2>1. \A i, j \in 1..n : i < j => \E a, b \in 1..Len(l) : a < b /\ l[a] = r[j] /\ l[b] = r[i]
    BY <1>7
  <2>2. Len(r) = n /\ r \in Seq(Recorded)  BY <1>6
  <2> QED BY <2>1, <2>2, Zenon DEF NewestFirst, l
<1>9. ToSet(r) \subseteq Recorded
  <2>1. DOMAIN r = 1..Len(r)  BY <1>6
  <2> QED BY <2>1, <1>6 DEF ToSet
<1> QED BY <1>8, <1>9 DEF r

\* One entry at most for a path.
OnePerPath(es) ==
    /\ es \subseteq Entry
    /\ \A d, e \in es : WritePaths(d) \cap WritePaths(e) # {} => d = e
\* Sorted by path, no entry is lost and none is added.
LEMMA ByPathFacts ==
    ASSUME NEW es, OnePerPath(es)
    PROVE  /\ ByPath(es) \in Seq(es)
           /\ \A e \in es : \E i \in 1..Len(ByPath(es)) : ByPath(es)[i] = e
<1> DEFINE key == [e \in es |-> e.path]
           n == Cardinality(es)
<1>1. key \in [es -> File] /\ \A d, e \in es : key[d] = key[e] => d = e
  <2>1. \A e \in es : e.path \in File /\ e.path \in WritePaths(e)
    BY WritePathsType DEF OnePerPath, Entry
  <2>2. \A d, e \in es : d.path = e.path => WritePaths(d) \cap WritePaths(e) # {}  BY <2>1
  <2> QED BY <2>1, <2>2 DEF OnePerPath
<1>2. IsFiniteSet(es)
  <2>1. key \in Injection(es, File)  BY <1>1 DEF Injection, IsInjective
  <2> HIDE DEF key
  <2> QED BY <2>1, FS_Injection, Apart
<1>3. key \in [es -> Nat]  BY <1>1, Apart
<1>4. PICK s : Sorted(s, es, key)
  <2> HIDE DEF key
  <2> QED BY <1>1, <1>2, <1>3, SortedExists
<1>5. ByPath(es) = CHOOSE t \in [1..n -> es] : \A i, j \in 1..n : i < j => t[i].path < t[j].path
  BY Zenon DEF ByPath
<1>6. \A t \in [1..n -> es] : \A i \in 1..n : key[t[i]] = t[i].path  OBVIOUS
<1>7. s \in [1..n -> es] /\ \A i, j \in 1..n : i < j => s[i].path < s[j].path
  <2> HIDE DEF key
  <2> QED BY <1>4, <1>6 DEF Sorted
<1>8. /\ ByPath(es) \in [1..n -> es]
      /\ \A i, j \in 1..n : i < j => ByPath(es)[i].path < ByPath(es)[j].path
  <2> HIDE DEF n
  <2> QED BY <1>5, <1>7
<1>9. Sorted(ByPath(es), es, key)
  <2> HIDE DEF key
  <2> QED BY <1>6, <1>8 DEF Sorted
<1> HIDE DEF key
<1>10. /\ ByPath(es) \in Seq(es) /\ Len(ByPath(es)) = n
       /\ \A e \in es : \E i \in 1..n : ByPath(es)[i] = e
  BY <1>2, <1>3, <1>9, SortedOnto
<1> QED BY <1>10

-----------------------------------------------------------------------------
(* What a rollback is about to do. *)

\* What the journal and the records are when a rollback starts.
Sound ==
    /\ TypeOK /\ Journaled /\ Shaped
    /\ \A k \in quiet : /\ file[k] \in edits
                        /\ \A c \in Call : \A e \in rec[c].files : e.path = k => e.after # file[k]

\* The entries of the listed calls o in the order they are undone.
EntriesOf(o) == FlattenSeq([i \in DOMAIN o |-> ByPath(rec[o[i]].files)])

\* The entries are in records, and none is for a quiet file.
FromRecords(es) ==
    /\ es \in Seq(Entry)
    /\ \A a \in 1..Len(es) : \E c \in Call : es[a] \in rec[c].files
\* A quiet file is there, and no entry left it as it is.
LEMMA FromRecordsSpare ==
    ASSUME Sound, NEW es, FromRecords(es)
    PROVE  Spared(es, quiet)
<1> SUFFICES ASSUME NEW k \in quiet
             PROVE  /\ k \in File /\ file[k] # Absent
                    /\ \A i \in 1..Len(es) : es[i].path = k => es[i].after # file[k]
  BY DEF Spared
<1>1. k \in File /\ file[k] # Absent  BY Apart DEF Sound, TypeOK
<1>2. ASSUME NEW i \in 1..Len(es), es[i].path = k PROVE es[i].after # file[k]
  <2>1. PICK c \in Call : es[i] \in rec[c].files  BY DEF FromRecords
  <2> QED BY <2>1, <1>2 DEF Sound
<1> QED BY <1>1, <1>2

\* What of them is restored.
Ready(walk, es) ==
    /\ walk.todo \in Seq(Entry) /\ walk.clean \in BOOLEAN
    /\ FromRecords(walk.todo)
    /\ \A a \in 1..Len(walk.todo) : WritePaths(walk.todo[a]) \cap quiet = {}
    /\ walk.clean => walk.todo = es
\* A walk over them finds what can be restored, and no quiet file among it.
LEMMA WalkReady ==
    ASSUME Sound, NEW es, FromRecords(es)
    PROVE  Ready(Walk(es), es) /\ Walk(es) \in States
<1> DEFINE w == Walk(es)
<1>1. es \in Seq(Entry) /\ file \in Tree /\ Spared(es, quiet)
  BY FromRecordsSpare DEF FromRecords, Sound, TypeOK
<1>2. Walked(w, es, Len(es), quiet)  BY <1>1, WalkFacts
<1> HIDE DEF w
<1>3. w \in States /\ w.todo \in Seq(Entry) /\ w.clean \in BOOLEAN  BY <1>2 DEF Walked, States
<1>4. ASSUME NEW a \in 1..Len(w.todo)
      PROVE  /\ WritePaths(w.todo[a]) \cap quiet = {}
             /\ \E c \in Call : w.todo[a] \in rec[c].files
  BY <1>2 DEF Walked, FromRecords
<1>5. w.clean => w.todo = es
  <2> SUFFICES ASSUME w.clean PROVE w.todo = es  OBVIOUS
  <2>1. Len(w.todo) = Len(es) /\ \A a \in 1..Len(es) : w.todo[a] = es[a]  BY <1>2 DEF Walked
  <2> QED BY <2>1, <1>1, <1>3
<1> QED BY <1>3, <1>4, <1>5 DEF Ready, FromRecords, w, States

\* One of them is left out when the file system refuses it.
LEMMA DropReady ==
    ASSUME NEW w \in States, NEW es, Ready(w, es), NEW i \in DOMAIN w.todo
    PROVE  Ready([w EXCEPT !.todo = RemoveAt(@, i), !.clean = FALSE], es)
<1> DEFINE t == RemoveAt(w.todo, i)
           p == SubSeq(w.todo, 1, i - 1)
           q == SubSeq(w.todo, i + 1, Len(w.todo))
           x == [w EXCEPT !.todo = t, !.clean = FALSE]
<1>1. w.todo \in Seq(Entry) /\ i \in 1..Len(w.todo) /\ Len(w.todo) \in Nat /\ i \in Nat  BY DEF Ready
<1>2. t = p \o q  BY DEF RemoveAt
<1>3. /\ p \in Seq(Entry) /\ Len(p) = i - 1 /\ \A a \in 1..i - 1 : p[a] = w.todo[a]
  BY <1>1
<1>4. /\ q \in Seq(Entry) /\ Len(q) = Len(w.todo) - i
      /\ \A a \in 1..Len(w.todo) - i : q[a] = w.todo[i + a]
  BY <1>1
<1> HIDE DEF p, q, t
<1>5. /\ t \in Seq(Entry) /\ Len(t) = Len(p) + Len(q)
      /\ \A a \in 1..Len(p) : t[a] = p[a]
      /\ \A a \in 1..Len(q) : t[Len(p) + a] = q[a]
  <2>1. p \in Seq(Entry) /\ q \in Seq(Entry)  BY <1>3, <1>4
  <2> QED BY <1>2, <2>1, ConcatAt
<1>6. ASSUME NEW a \in 1..Len(t) PROVE \E b \in 1..Len(w.todo) : t[a] = w.todo[b]
  <2>0. a \in Nat /\ a >= 1 /\ Len(t) \in Nat /\ a <= Len(t)  BY <1>5
  <2>1. CASE a <= i - 1
    <3>1. a \in 1..Len(p) /\ a \in 1..i - 1 /\ a \in 1..Len(w.todo)  BY <2>0, <2>1, <1>1, <1>3
    <3> QED BY <3>1, <1>3, <1>5
  <2>2. CASE ~(a <= i - 1)
    <3> DEFINE b == a - Len(p)
           n == Len(w.todo)
    <3>1. n \in Nat /\ i \in 1..n /\ Len(p) = i - 1 /\ Len(q) = n - i /\ Len(t) = (i - 1) + (n - i)
      BY <1>1, <1>3, <1>4, <1>5
    <3> HIDE DEF n
    <3>2. b \in 1..n - i /\ a = (i - 1) + b /\ i + b \in 1..n
      BY <2>0, <2>2, <3>1, SMTT(30)
    <3> HIDE DEF b
    <3>3. t[a] = q[b]
      <4>1. b \in 1..Len(q) /\ a = Len(p) + b  BY <3>1, <3>2
      <4> QED BY <4>1, <1>5
    <3>4. q[b] = w.todo[i + b]  BY <3>2, <1>4 DEF n
    <3> QED BY <3>2, <3>3, <3>4 DEF n
  <2> QED BY <2>1, <2>2
<1>7. x.todo = t /\ x.clean = FALSE  BY DEF States
<1> HIDE DEF x
<1>8. FromRecords(x.todo)  BY <1>5, <1>6, <1>7 DEF Ready, FromRecords
<1>9. \A a \in 1..Len(x.todo) : WritePaths(x.todo[a]) \cap quiet = {}  BY <1>6, <1>7 DEF Ready
<1>10. Ready(x, es)  BY <1>5, <1>7, <1>8, <1>9 DEF Ready
<1> QED BY <1>10 DEF x, t


\* Where the entries come from: those of a newer call are undone before those of an older.
Source(src, es, o) ==
    /\ src \in [1..Len(es) -> 1..Len(o)]
    /\ \A a, b \in 1..Len(es) : a < b => src[a] <= src[b]
    /\ \A a \in 1..Len(es) : es[a] \in rec[o[src[a]]].files
    /\ \A i \in 1..Len(o) : \A e \in rec[o[i]].files : \E a \in 1..Len(es) : src[a] = i /\ es[a] = e
\* The entries of listed calls come from their records.
LEMMA EntriesFacts ==
    ASSUME Sound, NEW o \in Seq(Call)
    PROVE  FromRecords(EntriesOf(o)) /\ \E src : Source(src, EntriesOf(o), o)
<1> DEFINE ss == [i \in DOMAIN o |-> ByPath(rec[o[i]].files)]
           es == EntriesOf(o)
           n == Len(o)
<1>1. n \in Nat /\ DOMAIN o = 1..n /\ \A i \in 1..n : o[i] \in Call  OBVIOUS
<1>2. ASSUME NEW i \in 1..n
      PROVE  /\ ss[i] \in Seq(rec[o[i]].files) /\ ss[i] \in Seq(Entry)
             /\ \A e \in rec[o[i]].files : \E j \in 1..Len(ss[i]) : ss[i][j] = e
  <2> DEFINE f == rec[o[i]].files
  <2>1. ss[i] = ByPath(f)  BY <1>1
  <2>2. o[i] \in Call /\ rec \in [Call -> Record]  BY <1>1 DEF Sound, TypeOK
  <2>3. f \subseteq Entry  BY <2>2 DEF Record
  <2>4. OnePerPath(f)  BY <2>2, <2>3 DEF OnePerPath, Sound, Shaped
  <2> HIDE DEF f, ss
  <2>5. ss[i] \in Seq(f) /\ \A e \in f : \E j \in 1..Len(ss[i]) : ss[i][j] = e
    BY <2>1, <2>4, ByPathFacts
  <2> QED BY <2>3, <2>5 DEF f
<1>3. ss \in Seq(Seq(Entry)) /\ Len(ss) = n
  <2>1. ss = [i \in 1..n |-> ss[i]]  BY <1>1
  <2> HIDE DEF ss
  <2>2. ss \in [1..n -> Seq(Entry)]  BY <2>1, <1>2
  <2> QED BY <2>2, <1>1
<1>4. es = FlattenSeq(ss)  BY Zenon DEF EntriesOf
<1> HIDE DEF ss, es
<1>5. es \in Seq(Entry) /\ \E src : Origin(src, es, ss, n)  BY <1>3, <1>4, FlattenOrigin
<1>6. PICK src : Origin(src, es, ss, n)  BY <1>5
<1>7. \A a \in 1..Len(es) : src[a] \in 1..n /\ es[a] \in rec[o[src[a]]].files
  <2> SUFFICES ASSUME NEW a \in 1..Len(es)
               PROVE  src[a] \in 1..n /\ es[a] \in rec[o[src[a]]].files
    OBVIOUS
  <2>1. src[a] \in 1..n /\ \E j \in 1..Len(ss[src[a]]) : es[a] = ss[src[a]][j]
    BY <1>6 DEF Origin
  <2>2. ss[src[a]] \in Seq(rec[o[src[a]]].files)  BY <2>1, <1>2
  <2> QED BY <2>1, <2>2
<1>8. ASSUME NEW i \in 1..n, NEW e \in rec[o[i]].files
      PROVE  \E a \in 1..Len(es) : src[a] = i /\ es[a] = e
  <2>1. PICK j \in 1..Len(ss[i]) : ss[i][j] = e  BY <1>2
  <2> QED BY <2>1, <1>6 DEF Origin
<1>9. Source(src, es, o)  BY <1>6, <1>7, <1>8 DEF Source, Origin
<1>10. FromRecords(es)  BY <1>1, <1>5, <1>7 DEF FromRecords
<1> QED BY <1>9, <1>10 DEF es

\* A rollback of the calls o starts.
Starts(o, atomic, walk) ==
    /\ o # <<>> /\ NewestFirst(o) /\ ToSet(o) \subseteq Recorded
    /\ Ready(walk, EntriesOf(o))
    /\ Begin(atomic, FALSE, ToSet(o), walk)

\* It is refused, or journaled without a write.
Refused(row) == row \in Row /\ ~IsCheckpoint(row) /\ Refuse(AppendRow(row))

\* A rollback is refused or starts.
LEMMA RollbackFacts ==
    ASSUME Sound, Lists(Listed), Recorded \subseteq Call, NEW atomic \in BOOLEAN, NEW target,
           Rollback(atomic, target)
    PROVE  /\ pc = "idle" /\ rollbacks < MaxRollbacks
           /\ \/ \E row : Refused(row)
              \/ \E o, walk : Starts(o, atomic, walk)
<1> DEFINE o == Selected(target)
           ids == ToSet(o)
           es == EntriesOf(o)
           w == Walk(es)
<1>1. NewestFirst(o) /\ ids \subseteq Recorded /\ o \in Seq(Call)
  <2>1. NewestFirst(o) /\ ids \subseteq Recorded  BY SelectedFacts
  <2> HIDE DEF o
  <2>2. o \in Seq(Recorded)  BY <2>1 DEF NewestFirst
  <2> QED BY <2>1, <2>2
<1>2. FromRecords(es)  BY <1>1, EntriesFacts
<1>3. Ready(w, es) /\ w \in States  BY <1>2, WalkReady
<1>4. /\ pc = "idle" /\ rollbacks < MaxRollbacks /\ o # <<>>
      /\ \/ Refuse(AppendRow(RollbackRow(ids, FALSE)))
         \/ Refuse(AppendRow(RollbackRow(ids, TRUE)))
         \/ Begin(atomic, FALSE, ids, w)
         \/ /\ ~atomic
            /\ \E i \in DOMAIN w.todo :
                  Begin(FALSE, FALSE, ids, [w EXCEPT !.todo = RemoveAt(@, i), !.clean = FALSE])
  BY Zenon DEF Rollback, EntriesOf
<1> HIDE DEF o, es, w
<1>5. \A clean \in BOOLEAN :
          RollbackRow(ids, clean) \in Row /\ ~IsCheckpoint(RollbackRow(ids, clean))
  <2>1. ids \in SUBSET Call  BY <1>1
  <2> HIDE DEF ids
  <2> QED BY <2>1 DEF RollbackRow, Row, IsCheckpoint
<1>6. CASE Refuse(AppendRow(RollbackRow(ids, FALSE)))
  <2>1. Refused(RollbackRow(ids, FALSE))  BY <1>5, <1>6 DEF Refused
  <2> QED BY <1>4, <2>1
<1>7. CASE Refuse(AppendRow(RollbackRow(ids, TRUE)))
  <2>1. Refused(RollbackRow(ids, TRUE))  BY <1>5, <1>7 DEF Refused
  <2> QED BY <1>4, <2>1
<1>8. CASE Begin(atomic, FALSE, ids, w)
  <2>1. Starts(o, atomic, w)  BY <1>1, <1>3, <1>4, <1>8 DEF Starts, es
  <2> QED BY <1>4, <2>1
<1>9. CASE ~atomic /\ \E i \in DOMAIN w.todo :
               Begin(FALSE, FALSE, ids, [w EXCEPT !.todo = RemoveAt(@, i), !.clean = FALSE])
  <2>1. PICK i \in DOMAIN w.todo :
            Begin(FALSE, FALSE, ids, [w EXCEPT !.todo = RemoveAt(@, i), !.clean = FALSE])
    BY <1>9
  <2> DEFINE x == [w EXCEPT !.todo = RemoveAt(@, i), !.clean = FALSE]
  <2>2. Ready(x, es)  BY <1>3, DropReady
  <2>3. atomic = FALSE  BY <1>9
  <2> HIDE DEF x
  <2>4. Starts(o, atomic, x)  BY <1>1, <1>4, <2>1, <2>2, <2>3 DEF Starts, es, x
  <2> QED BY <1>4, <2>4
<1> QED BY <1>4, <1>6, <1>7, <1>8, <1>9

\* A file of one call is restored.
StartsFile(c, atomic, walk) ==
    /\ c \in Recorded
    /\ \E es : Ready(walk, es)
    /\ Begin(atomic, TRUE, {c}, walk)
\* So does the restoration of a file.
LEMMA RestoreFileFacts ==
    ASSUME Sound, Recorded \subseteq Call, NEW atomic \in BOOLEAN, NEW c \in Call, NEW k \in File,
           RestoreFile(atomic, c, k)
    PROVE  /\ pc = "idle" /\ rollbacks < MaxRollbacks
           /\ \E walk : StartsFile(c, atomic, walk)
<1> DEFINE f == {e \in rec[c].files : k \in WritePaths(e)}
           es == ByPath(f)
           w == Walk(es)
<1>1. rec[c].files \subseteq Entry  BY DEF Sound, TypeOK, Record
<1>2. OnePerPath(f)  BY <1>1 DEF OnePerPath, Sound, Shaped
<1> HIDE DEF f
<1>3. es \in Seq(f)  BY <1>2, ByPathFacts
<1> HIDE DEF es
<1>4. FromRecords(es)  BY <1>1, <1>3 DEF FromRecords, f
<1>5. Ready(w, es)  BY <1>4, WalkReady
<1>6. /\ pc = "idle" /\ rollbacks < MaxRollbacks /\ c \in Recorded
      /\ Begin(atomic, TRUE, {c}, w)
  BY Zenon DEF RestoreFile, f, es, w
<1> HIDE DEF w
<1> QED BY <1>5, <1>6 DEF StartsFile


-----------------------------------------------------------------------------
(* What a call leaves in its record. *)

\* A large file is not seen.
LEMMA SeenType == \A x \in Content \cup {Absent} : Seen(x) \in {x, Absent}
BY DEF Seen

\* An entry of the call in progress: of one path that changed, or of two it renamed.
Plain(e) ==
    /\ e.from = None
    /\ e.path \in File /\ Seen(before[e.path]) # Seen(file[e.path])
    /\ e.before = Seen(before[e.path]) /\ e.after = Seen(file[e.path])
Renamed(e) ==
    /\ e.path \in File /\ e.from \in File
    /\ Seen(before[e.path]) = Absent /\ Seen(file[e.path]) # Absent
    /\ Seen(file[e.from]) = Absent
    /\ e.before = Seen(before[e.from]) /\ e.after = Seen(file[e.path])
\* The entries of a record are of these two forms, and no two write the same path.
LEMMA CaptureFacts ==
    ASSUME file \in Tree, before \in Tree,
           NEW m \in Renames([k \in File |-> Seen(file[k])])
    PROVE  /\ Entries(m) \subseteq Entry
           /\ \A e \in Entries(m) : Plain(e) \/ Renamed(e)
           /\ \A d, e \in Entries(m) : WritePaths(d) \cap WritePaths(e) # {} => d = e
<1> DEFINE a == [k \in File |-> Seen(file[k])]
           entry(k, j, x) == [path |-> k, from |-> j, before |-> Seen(x), after |-> a[k]]
           pair == {p \in File \X File :
                       /\ Seen(before[p[1]]) = a[p[2]] /\ a[p[2]] # Absent
                       /\ a[p[1]] = Absent /\ Seen(before[p[2]]) = Absent}
           ends == UNION {{p[1], p[2]} : p \in m}
           changed == {k \in File : Seen(before[k]) # a[k] /\ file[k] \notin Large}
<1>1. /\ m \in SUBSET pair
      /\ \A p, q \in m : p # q => p[1] # q[1] /\ p[2] # q[2]
  BY DEF Renames
<1>2. Entries(m) = {entry(p[2], p[1], before[p[1]]) : p \in m}
                     \cup {entry(k, None, before[k]) : k \in changed \ ends}
  BY DEF Entries
<1>3. \A k \in File : a[k] = Seen(file[k])  OBVIOUS
<1>4. \A p \in pair : /\ p[1] \in File /\ p[2] \in File
                      /\ Seen(before[p[1]]) = a[p[2]] /\ a[p[2]] # Absent
                      /\ a[p[1]] = Absent /\ Seen(before[p[2]]) = Absent
  OBVIOUS
<1>5. \A k \in changed : k \in File /\ Seen(before[k]) # a[k]  OBVIOUS
<1>6. \A k, j, x : entry(k, j, x).path = k /\ entry(k, j, x).from = j
                   /\ entry(k, j, x).before = Seen(x) /\ entry(k, j, x).after = a[k]
  OBVIOUS
<1>7. \A k \in File : \A j \in File \cup {None} : \A x \in Content \cup {Absent} :
          entry(k, j, x) \in Entry
  <2> SUFFICES ASSUME NEW k \in File, NEW j \in File \cup {None}, NEW x \in Content \cup {Absent}
               PROVE  entry(k, j, x) \in Entry
    OBVIOUS
  <2>1. Seen(x) \in Content \cup {Absent} /\ a[k] \in Content \cup {Absent}
    BY SeenType, <1>3 DEF Tree
  <2> HIDE DEF a
  <2> QED BY <2>1 DEF Entry
<1>8. \A k \in File : before[k] \in Content \cup {Absent}  BY DEF Tree
<1> HIDE DEF a, entry, pair, changed
<1>9. ASSUME NEW e \in Entries(m)
      PROVE  \/ \E p \in m : e = entry(p[2], p[1], before[p[1]])
             \/ \E k \in changed \ ends : e = entry(k, None, before[k])
  BY <1>2
<1>10. ASSUME NEW e \in Entries(m)
       PROVE  /\ e \in Entry
              /\ Plain(e) \/ Renamed(e)
              /\ \/ \E p \in m : e = entry(p[2], p[1], before[p[1]]) /\ WritePaths(e) = {p[1], p[2]}
                 \/ \E k \in changed \ ends : e = entry(k, None, before[k]) /\ WritePaths(e) = {k}
  <2>1. CASE \E p \in m : e = entry(p[2], p[1], before[p[1]])
    <3>1. PICK p \in m : e = entry(p[2], p[1], before[p[1]])  BY <2>1
    <3>2. p \in pair  BY <1>1
    <3>3. e.path = p[2] /\ e.from = p[1] /\ e.before = Seen(before[p[1]]) /\ e.after = a[p[2]]
      BY <3>1, <1>6
    <3>4. p[1] # None /\ p[2] # None  BY <3>2, <1>4, Apart
    <3>5. WritePaths(e) = {p[1], p[2]}  BY <3>3, <3>4 DEF WritePaths
    <3>6. Renamed(e)  BY <3>2, <3>3, <1>3, <1>4 DEF Renamed
    <3>7. e \in Entry  BY <3>1, <3>2, <1>4, <1>7, <1>8
    <3> QED BY <3>1, <3>5, <3>6, <3>7
  <2>2. CASE \E k \in changed \ ends : e = entry(k, None, before[k])
    <3>1. PICK k \in changed \ ends : e = entry(k, None, before[k])  BY <2>2
    <3>2. k \in File /\ Seen(before[k]) # a[k]  BY <3>1, <1>5
    <3>3. e.path = k /\ e.from = None /\ e.before = Seen(before[k]) /\ e.after = a[k]
      BY <3>1, <1>6
    <3>4. WritePaths(e) = {k}  BY <3>2, <3>3, Apart DEF WritePaths
    <3>5. Plain(e)  BY <3>2, <3>3, <1>3 DEF Plain
    <3>6. e \in Entry  BY <3>1, <3>2, <1>7, <1>8
    <3> QED BY <3>1, <3>4, <3>5, <3>6
  <2> QED BY <2>1, <2>2, <1>9
<1>11. ASSUME NEW d \in Entries(m), NEW e \in Entries(m), WritePaths(d) \cap WritePaths(e) # {}
       PROVE  d = e
  <2>1. CASE \E p \in m : d = entry(p[2], p[1], before[p[1]]) /\ WritePaths(d) = {p[1], p[2]}
    <3>1. PICK p \in m : d = entry(p[2], p[1], before[p[1]]) /\ WritePaths(d) = {p[1], p[2]}
      BY <2>1
    <3>2. CASE \E q \in m : e = entry(q[2], q[1], before[q[1]]) /\ WritePaths(e) = {q[1], q[2]}
      <4>1. PICK q \in m : e = entry(q[2], q[1], before[q[1]]) /\ WritePaths(e) = {q[1], q[2]}
        BY <3>2
      <4>2. p \in pair /\ q \in pair  BY <1>1
      <4>3. p[1] # q[2] /\ p[2] # q[1]  BY <4>2, <1>4
      <4>4. p[1] = q[1] \/ p[2] = q[2]  BY <3>1, <4>1, <4>3, <1>11
      <4>5. p = q  BY <4>4, <1>1
      <4> QED BY <3>1, <4>1, <4>5
    <3>3. CASE \E k \in changed \ ends : e = entry(k, None, before[k]) /\ WritePaths(e) = {k}
      <4>1. PICK k \in changed \ ends : WritePaths(e) = {k}  BY <3>3
      <4>2. k = p[1] \/ k = p[2]  BY <3>1, <4>1, <1>11
      <4> QED BY <4>1, <4>2
    <3> QED BY <3>2, <3>3, <1>10
  <2>2. CASE \E k \in changed \ ends : d = entry(k, None, before[k]) /\ WritePaths(d) = {k}
    <3>1. PICK k \in changed \ ends : d = entry(k, None, before[k]) /\ WritePaths(d) = {k}
      BY <2>2
    <3>2. CASE \E q \in m : e = entry(q[2], q[1], before[q[1]]) /\ WritePaths(e) = {q[1], q[2]}
      <4>1. PICK q \in m : WritePaths(e) = {q[1], q[2]}  BY <3>2
      <4>2. k = q[1] \/ k = q[2]  BY <3>1, <4>1, <1>11
      <4> QED BY <3>1, <4>2
    <3>3. CASE \E j \in changed \ ends : e = entry(j, None, before[j]) /\ WritePaths(e) = {j}
      <4>1. PICK j \in changed \ ends : e = entry(j, None, before[j]) /\ WritePaths(e) = {j}
        BY <3>3
      <4>2. k = j  BY <3>1, <4>1, <1>11
      <4> QED BY <3>1, <4>1, <4>2
    <3> QED BY <3>2, <3>3, <1>10
  <2> QED BY <2>1, <2>2, <1>10
<1> QED BY <1>10, <1>11

\* The record leads back to what there was, and has nothing of a file the call left alone.
LEMMA EntryFacts ==
    ASSUME file \in Tree, before \in Tree, NEW e \in Entry, Plain(e) \/ Renamed(e)
    PROVE  /\ \A k \in WritePaths(e) : Value(e, k) = Seen(before[k])
           /\ Seen(before[e.path]) # Seen(file[e.path])
           /\ \E j \in File : e.before = Seen(before[j])
           /\ e.after = Seen(file[e.path]) /\ e.path \in File
<1>1. CASE Plain(e)
  <2>1. WritePaths(e) = {e.path} /\ Value(e, e.path) = e.before
    BY <1>1, Apart DEF Plain, WritePaths, Value
  <2> QED BY <1>1, <2>1 DEF Plain
<1>2. CASE Renamed(e)
  <2>1. e.path # e.from  BY <1>2 DEF Renamed
  <2>2. WritePaths(e) = {e.path, e.from} /\ e.from # None /\ e.path # None
    BY <1>2, Apart DEF Renamed, WritePaths
  <2>3. Value(e, e.from) = e.before /\ Value(e, e.path) = Absent  BY <2>1, <2>2 DEF Value
  <2> QED BY <1>2, <2>2, <2>3 DEF Renamed
<1> QED BY <1>1, <1>2


-----------------------------------------------------------------------------
(* The steps. *)

\* What the journal says, for the journal there is.
LEMMA JournalIds == Recorded = Ids(journal)
BY DEF Recorded, Ids
\* The journal part of the invariant, for a sequence of rows.
LEMMA JournaledIds == Journaled <=> Ids(journal) \subseteq made /\ OneEach(journal)
BY JournalIds DEF Journaled, OneEach
\* What follows from it.
LEMMA JournaledLists ==
    ASSUME TypeOK, Journaled
    PROVE  OneEach(journal) /\ Lists(Listed) /\ Recorded \subseteq Call /\ Among(Kept)
BY JournaledIds, ListedFacts, KeptFacts DEF TypeOK
\* The invariant says what a rollback relies on.
LEMMA IInvSound == IInv => Sound
BY DEF IInv, Sound, Quiet

\* A rollback starts, of the calls o or of one file.
Begun(atomic, single, ids, walk) ==
    /\ pc = "idle" /\ rollbacks < MaxRollbacks
    /\ Begin(atomic, single, ids, walk)
    /\ ids \subseteq Call /\ ids # {}
    /\ \E es : Ready(walk, es)
    /\ single \/ \E o : ids = ToSet(o) /\ Starts(o, atomic, walk)
Answered(row) == pc = "idle" /\ rollbacks < MaxRollbacks /\ Refused(row)

Step ==
    \/ UNCHANGED vars
    \/ \E c \in Call : Track(c)
    \/ \E c \in Call : Mutate(c)
    \/ \E c \in Call : Capture(c)
    \/ \E c \in Call : Protect(c)
    \/ \E c \in Call : Journal(c)
    \/ \E c \in Call : Expire(c)
    \/ CallFails
    \/ Prune \/ NothingToPrune \/ Rewrite \/ Sweep
    \/ \E row : Answered(row)
    \/ \E atomic, single \in BOOLEAN : \E ids, walk : Begun(atomic, single, ids, walk)
    \/ Restore \/ RestoreFails \/ PutBack \/ GiveUp
    \/ \E refreshed \in BOOLEAN : Complete(refreshed)
    \/ \E e \in Edit, k \in File : UserEdit(e, k)
    \/ Crash \/ CrashInAppend \/ CrashInRewrite \/ Open

\* Every step is one of these.
LEMMA NextStep ==
    ASSUME IInv, [Next]_vars
    PROVE  Step
<1>1. Sound /\ Lists(Listed) /\ Recorded \subseteq Call
  BY IInvSound, JournaledLists DEF IInv
<1>2. ASSUME NEW atomic \in BOOLEAN, NEW target, Rollback(atomic, target) PROVE Step
  <2>1. /\ pc = "idle" /\ rollbacks < MaxRollbacks
        /\ \/ \E row : Refused(row)
           \/ \E o, walk : Starts(o, atomic, walk)
    BY <1>1, <1>2, RollbackFacts
  <2>2. CASE \E row : Refused(row)
    <3>1. \E row : Answered(row)  BY <2>1, <2>2 DEF Answered
    <3> QED BY <3>1, Zenon DEF Step
  <2>3. CASE \E o, walk : Starts(o, atomic, walk)
    <3>1. PICK o, walk : Starts(o, atomic, walk)  BY <2>3
    <3>2. ToSet(o) \subseteq Call /\ ToSet(o) # {} /\ Ready(walk, EntriesOf(o))
          /\ Begin(atomic, FALSE, ToSet(o), walk)
      <4>1. ToSet(o) \subseteq Recorded /\ o \in Seq(Recorded) /\ o # <<>>
        BY <3>1 DEF Starts, NewestFirst
      <4>2. 1 \in DOMAIN o  BY <4>1
      <4> QED BY <3>1, <4>1, <4>2, <1>1 DEF Starts, ToSet
    <3>3. Begun(atomic, FALSE, ToSet(o), walk)  BY <2>1, <3>1, <3>2 DEF Begun
    <3> QED BY <3>3, Zenon DEF Step
  <2> QED BY <2>1, <2>2, <2>3
<1>3. ASSUME NEW atomic \in BOOLEAN, NEW c \in Call, NEW k \in File, RestoreFile(atomic, c, k)
      PROVE  Step
  <2>1. /\ pc = "idle" /\ rollbacks < MaxRollbacks
        /\ \E walk : StartsFile(c, atomic, walk)
    BY <1>1, <1>3, RestoreFileFacts
  <2>2. PICK walk : StartsFile(c, atomic, walk)  BY <2>1
  <2>3. Begun(atomic, TRUE, {c}, walk)  BY <2>1, <2>2 DEF Begun, StartsFile
  <2> QED BY <2>3, Zenon DEF Step
<1>4. CASE UNCHANGED vars  BY <1>4 DEF Step
<1>5. CASE Idle  BY <1>5 DEF Idle, Step
<1> QED BY <1>2, <1>3, <1>4, <1>5, Zenon DEF Next, Step

\* The initial states.
LEMMA InitIInv == Init => IInv
<1> SUFFICES ASSUME Init PROVE IInv  OBVIOUS
<1>0. <<>> \in Seq(Row) /\ <<>> \in Seq(Entry) /\ DOMAIN <<>> = {}  OBVIOUS
<1>1. TypeOK
  <2>1. NoPlan \in Plan  BY <1>0 DEF NoPlan, Plan, NoFiles, Tree
  <2>2. NoRecord \in Record  BY DEF NoRecord, Record, NoFiles, Tree
  <2>3. MaxCrashes \in Nat /\ MaxRollbacks \in Nat  BY CheckpointAssumption
  <2>4. 0 \in 0..MaxCrashes /\ 0 \in 0..MaxRollbacks  BY <2>3
  <2> QED BY <1>0, <2>1, <2>2, <2>4 DEF Init, TypeOK, PC, Tree, Content, NoFiles
<1>2. Recorded = {} /\ Journaled  BY <1>0 DEF Init, Journaled, Recorded
<1>3. Fresh  BY <1>0 DEF Init, Fresh, Known, NoFiles, NoRecord, NoPlan
<1>4. Shaped  BY DEF Init, Shaped, NoRecord
<1>5. InCall /\ Quiet /\ Planned /\ BackedUp /\ WillBe
  BY DEF Init, InCall, Calling, Quiet, Planned, Restoring, BackedUp, WillBe
<1>6. RecordsRestorable  BY <1>2 DEF RecordsRestorable
<1> QED BY <1>1, <1>2, <1>3, <1>4, <1>5, <1>6 DEF IInv

\* The bounds count up.
LEMMA Bounded ==
    ASSUME TypeOK
    PROVE  /\ crashes < MaxCrashes => crashes + 1 \in 0..MaxCrashes
           /\ rollbacks < MaxRollbacks => rollbacks + 1 \in 0..MaxRollbacks
BY CheckpointAssumption DEF TypeOK

\* Having no plan, and no files, has its type.
LEMMA NoPlanType == NoPlan \in Plan /\ NoFiles \in Tree
<1>1. <<>> \in Seq(Entry)  OBVIOUS
<1> QED BY <1>1 DEF NoPlan, Plan, NoFiles, Tree

\* Types are kept.
LEMMA TypeKeeps ==
    ASSUME IInv, Step
    PROVE  TypeOK'
<1> USE DEF IInv
<1>0. TypeOK /\ NoPlan \in Plan /\ NoFiles \in Tree /\ Among(Kept)
  BY NoPlanType, JournaledLists
<1>1. CASE UNCHANGED vars
  BY <1>1 DEF TypeOK, vars, callVars, diskVars, userVars, bounds
<1>2. Tracked \subseteq Content
  <2>1. \A k \in File : Seen(file[k]) \in Content \cup {Absent}  BY SeenType DEF TypeOK, Tree
  <2> QED BY <2>1 DEF Tracked, TypeOK
<1>3. ASSUME NEW c \in Call, Track(c) PROVE TypeOK'
  BY <1>2, <1>3 DEF TypeOK, Track, PC, userVars, bounds
<1>4. ASSUME NEW c \in Call, Mutate(c) PROVE TypeOK'
  <2>1. file' \in Tree /\ quiet' \subseteq quiet
    <3>1. c \in Content /\ file \in Tree  BY DEF Content, TypeOK
    <3> QED BY <1>4, <3>1 DEF Mutate, Tree
  <2> QED BY <1>4, <2>1 DEF TypeOK, Mutate, callVars, diskVars, bounds
<1>5. ASSUME NEW c \in Call, Capture(c) PROVE TypeOK'
  <2>1. CASE file = before
    BY <1>0, <1>2, <1>5, <2>1 DEF TypeOK, Capture, PC, userVars, bounds
  <2>2. CASE file # before
    <3>1. PICK m \in Renames([k \in File |-> Seen(file[k])]) :
              rec' = [rec EXCEPT ![c] = [files |-> Entries(m), was |-> before]]
      BY <1>5, <2>2 DEF Capture
    <3>2. Entries(m) \in SUBSET Entry /\ before \in Tree  BY CaptureFacts DEF TypeOK
    <3>3. [files |-> Entries(m), was |-> before] \in Record  BY <3>2 DEF Record
    <3>4. rec' \in [Call -> Record]  BY <3>1, <3>3 DEF TypeOK
    <3> QED BY <1>2, <1>5, <2>2, <3>4 DEF TypeOK, Capture, PC, userVars, bounds
  <2> QED BY <2>1, <2>2
<1>6. ASSUME NEW c \in Call, Protect(c) PROVE TypeOK'
  BY <1>6 DEF TypeOK, Protect, PC, callVars, userVars, bounds
<1>7. ASSUME NEW c \in Call, Journal(c) PROVE TypeOK'
  <2>1. journal' \in Seq(Row)  BY <1>7, AppendRowFacts, RowTypes DEF Journal, TypeOK
  <2> QED BY <1>0, <1>7, <2>1 DEF TypeOK, Journal, PC, EndCall, userVars, bounds
<1>8. ASSUME NEW c \in Call, Expire(c) PROVE TypeOK'
  BY <1>8 DEF TypeOK, Expire, callVars, diskVars, userVars, bounds
<1>9. CASE CallFails
  BY <1>0, <1>9 DEF TypeOK, CallFails, PC, EndCall, diskVars, userVars, bounds
<1>10. CASE Prune
  BY <1>10 DEF TypeOK, Prune, PC, callVars, userVars, bounds
<1>11. CASE NothingToPrune
  BY <1>11 DEF TypeOK, NothingToPrune, PC, callVars, diskVars, userVars, bounds
<1>12. CASE Rewrite
  BY <1>0, <1>12 DEF TypeOK, Rewrite, PC, Among, callVars, userVars, bounds
<1>13. CASE Sweep
  BY <1>13 DEF TypeOK, Sweep, PC, callVars, userVars, bounds
<1>14. ASSUME NEW row, Answered(row) PROVE TypeOK'
  <2>1. journal' \in Seq(Row)  BY <1>14, AppendRowFacts DEF Answered, Refused, Refuse, TypeOK
  <2>2. rollbacks' \in 0..MaxRollbacks  BY <1>14, Bounded DEF Answered, Refused, Refuse
  <2> QED BY <1>14, <2>1, <2>2 DEF TypeOK, Answered, Refused, Refuse, callVars, userVars
<1>15. ASSUME NEW atomic \in BOOLEAN, NEW single \in BOOLEAN, NEW ids, NEW walk,
              Begun(atomic, single, ids, walk)
       PROVE  TypeOK'
  <2>1. ids \in SUBSET Call /\ walk.todo \in Seq(Entry) /\ walk.clean \in BOOLEAN
    BY <1>15 DEF Begun, Ready
  <2>2. (IF atomic THEN UNION {WritePaths(walk.todo[i]) : i \in DOMAIN walk.todo} ELSE {})
            \in SUBSET File
    <3>1. \A i \in DOMAIN walk.todo : WritePaths(walk.todo[i]) \subseteq File
      BY <2>1, WritePathsType
    <3> QED BY <3>1
  <2>3. plan' \in Plan
    <3>1. file \in Tree  BY DEF TypeOK
    <3> QED BY <1>15, <2>1, <2>2, <3>1 DEF Begun, Begin, Plan
  <2>4. rollbacks' \in 0..MaxRollbacks  BY <1>15, Bounded DEF Begun, Begin
  <2> QED BY <1>15, <2>3, <2>4 DEF TypeOK, Begun, Begin, PC, callVars, diskVars, userVars
<1>16. CASE Restore
  <2>1. plan.todo \in Seq(Entry) /\ plan.todo # <<>>  BY <1>16 DEF Restore, TypeOK, Plan
  <2>2. Head(plan.todo) \in Entry /\ Tail(plan.todo) \in Seq(Entry)  BY <2>1
  <2>3. file' \in Tree  BY <1>16, <2>2, UndoneFacts DEF Restore, TypeOK
  <2>4. plan' \in Plan  BY <1>16, <2>2 DEF Restore, TypeOK, Plan
  <2> QED BY <1>16, <2>3, <2>4 DEF TypeOK, Restore, callVars, diskVars, bounds
<1>17. CASE RestoreFails
  <2>1. plan.todo \in Seq(Entry) /\ plan.todo # <<>>  BY <1>17 DEF RestoreFails, TypeOK, Plan
  <2>2. Head(plan.todo) \in Entry  BY <2>1
  <2>3. file' \in Tree /\ quiet' \subseteq quiet
    BY <1>17, <2>2 DEF RestoreFails, TypeOK, Tree, Entry
  <2>4. plan' \in Plan /\ pc' \in PC  BY <1>0, <1>17 DEF RestoreFails, TypeOK, Plan, PC
  <2> QED BY <1>17, <2>3, <2>4 DEF TypeOK, RestoreFails, callVars, diskVars, bounds
<1>18. CASE PutBack
  <2>1. plan' \in Plan  BY <1>18 DEF PutBack, TypeOK, Plan
  <2>2. file' \in Tree /\ quiet' \subseteq quiet
    <3>1. plan.was \in Tree /\ plan.left \subseteq File  BY DEF TypeOK, Plan
    <3> QED BY <1>18, <3>1 DEF PutBack, TypeOK, Tree
  <2> QED BY <1>18, <2>1, <2>2 DEF TypeOK, PutBack, callVars, diskVars, bounds
<1>19. CASE GiveUp
  BY <1>0, <1>19 DEF TypeOK, GiveUp, PC, callVars, diskVars, userVars, bounds
<1>20. ASSUME NEW refreshed \in BOOLEAN, Complete(refreshed) PROVE TypeOK'
  <2>1. plan.ids \in SUBSET Call /\ Clean(refreshed) \in BOOLEAN
    BY DEF TypeOK, Plan, Clean
  <2>2. journal' \in Seq(Row)
    <3>1. RollbackRow(plan.ids, Clean(refreshed)) \in Row  BY <2>1, RowTypes
    <3> QED BY <1>20, <3>1, AppendRowFacts DEF Complete, TypeOK
  <2>3. blobs' \subseteq Content  BY <1>2, <1>20 DEF Complete, TypeOK
  <2> QED BY <1>0, <1>20, <2>2, <2>3 DEF TypeOK, Complete, PC, callVars, userVars, bounds
<1>21. ASSUME NEW e \in Edit, NEW k \in File, UserEdit(e, k) PROVE TypeOK'
  <2>1. file' \in Tree /\ quiet' \subseteq File
    BY <1>21 DEF UserEdit, TypeOK, Tree, Content
  <2>2. plan' \in Plan
    <3>1. (plan # NoPlan) \in BOOLEAN  OBVIOUS
    <3> QED BY <1>21, <3>1 DEF UserEdit, TypeOK, Plan
  <2> QED BY <1>21, <2>1, <2>2 DEF TypeOK, UserEdit, callVars, diskVars, bounds
<1>22. ASSUME Die PROVE /\ file' \in Tree /\ pc' \in PC /\ cur' \in Call \cup {None} /\ before' \in Tree
                        /\ made' \subseteq Call /\ rec' \in [Call -> Record] /\ refs' \subseteq Call
                        /\ blobs' \subseteq Content /\ old' \subseteq Call /\ plan' \in Plan
                        /\ edits' \subseteq Edit /\ quiet' \subseteq File
                        /\ crashes' \in 0..MaxCrashes /\ rollbacks' \in 0..MaxRollbacks
  BY <1>0, <1>22, Bounded DEF Die, EndCall, TypeOK, PC, userVars
<1>23. CASE Crash
  BY <1>22, <1>23 DEF Crash, TypeOK
<1>24. CASE CrashInAppend
  <2>1. journal' \in Seq(Row)  BY <1>24, AppendRowFacts, RowTypes DEF CrashInAppend, TypeOK
  <2> QED BY <1>22, <1>24, <2>1 DEF CrashInAppend, TypeOK
<1>25. CASE CrashInRewrite
  <2>1. journal' \in Seq(Row)
    <3>1. PICK n \in 0..Len(Kept) :
              journal' \in {SubSeq(Kept, 1, n), Append(SubSeq(Kept, 1, n), Torn)}
      BY <1>25 DEF CrashInRewrite
    <3>2. Among(SubSeq(Kept, 1, n)) /\ Among(Append(SubSeq(Kept, 1, n), Torn))
      BY <1>0, PrefixAmong
    <3> QED BY <3>1, <3>2 DEF Among
  <2> QED BY <1>22, <1>25, <2>1 DEF CrashInRewrite, TypeOK
<1>26. CASE Open
  BY <1>26 DEF TypeOK, Open, PC, callVars, diskVars, userVars, bounds
<1> QED
  BY <1>1, <1>3, <1>4, <1>5, <1>6, <1>7, <1>8, <1>9, <1>10, <1>11, <1>12, <1>13, <1>14, <1>15,
     <1>16, <1>17, <1>18, <1>19, <1>20, <1>21, <1>23, <1>24, <1>25, <1>26, Zenon DEF Step


\* The journal's rows stay of one call each, and a call comes in by its own step.
LEMMA JournalKeeps ==
    ASSUME IInv, Step
    PROVE  Journaled' /\ \A c \in Recorded' : c \in Recorded \/ (c \in Call /\ Journal(c))
<1>1. /\ OneEach(journal) /\ Ids(journal) \subseteq made /\ journal \in Seq(Row) /\ Among(Kept)
      /\ Recorded = Ids(journal)
  BY JournaledLists, JournaledIds, JournalIds DEF IInv, TypeOK
<1>2. Recorded' = Ids(journal')  BY DEF Recorded, Ids
<1>3. ASSUME OneEach(journal'), Ids(journal') \subseteq Ids(journal), made \subseteq made'
      PROVE  Journaled' /\ \A c \in Recorded' : c \in Recorded \/ (c \in Call /\ Journal(c))
  <2>1. Recorded' \subseteq made'  BY <1>1, <1>2, <1>3
  <2>2. Journaled'  BY <2>1, <1>3 DEF Journaled, OneEach
  <2> QED BY <2>2, <1>1, <1>2, <1>3
<1> DEFINE Goal == Journaled' /\ \A c \in Recorded' : c \in Recorded \/ (c \in Call /\ Journal(c))
<1> HIDE DEF Goal
<1>4. ASSUME UNCHANGED journal, made \subseteq made' PROVE Goal
  BY <1>1, <1>3, <1>4 DEF Goal
<1>5. ASSUME NEW row \in Row, ~IsCheckpoint(row), journal' = AppendRow(row), made' = made PROVE Goal
  <2>1. Ids(journal') = Ids(journal) /\ OneEach(journal')  BY <1>1, <1>5, AppendOther
  <2> QED BY <2>1, <1>3, <1>5 DEF Goal
<1>6. ASSUME NEW s, Among(s), journal' = s, made' = made PROVE Goal
  BY <1>3, <1>6 DEF Among, Goal
<1>7. ASSUME NEW c \in Call, Track(c) PROVE Goal  BY <1>4, <1>7 DEF Track
<1>8. ASSUME NEW c \in Call, Journal(c) PROVE Goal
  <2>1. c \notin Ids(journal) /\ c \in made /\ made' = made
    BY <1>1, <1>8 DEF Journal, IInv, InCall, Calling, EndCall
  <2>2. journal' = AppendRow(CheckpointRow(c))  BY <1>8 DEF Journal
  <2>3. OneEach(journal') /\ Ids(journal') \subseteq Ids(journal) \cup {c}
    BY <1>1, <2>1, <2>2, AppendCheckpoint
  <2>4. Recorded' \subseteq made'  BY <1>1, <1>2, <2>1, <2>3
  <2>5. Journaled'  BY <2>3, <2>4 DEF Journaled, OneEach
  <2> QED BY <2>3, <2>5, <1>1, <1>2, <1>8 DEF Goal
<1>9. ASSUME Rewrite PROVE Goal  BY <1>1, <1>6, <1>9 DEF Rewrite, callVars
<1>10. ASSUME NEW row, Answered(row) PROVE Goal
  BY <1>5, <1>10 DEF Answered, Refused, Refuse, callVars
<1>11. ASSUME NEW refreshed \in BOOLEAN, Complete(refreshed) PROVE Goal
  <2> DEFINE row == RollbackRow(plan.ids, Clean(refreshed))
  <2>1. made' = made /\ (journal' = journal \/ journal' = AppendRow(row))
    BY <1>11 DEF Complete, callVars
  <2>2. row \in Row /\ ~IsCheckpoint(row)
    <3>1. plan.ids \in SUBSET Call /\ Clean(refreshed) \in BOOLEAN  BY DEF IInv, TypeOK, Plan, Clean
    <3> QED BY <3>1 DEF RollbackRow, Row, IsCheckpoint
  <2> QED BY <1>4, <1>5, <2>1, <2>2
<1>12. ASSUME CrashInAppend PROVE Goal
  <2>1. Torn \in Row /\ ~IsCheckpoint(Torn)  BY DEF Torn, Row, IsCheckpoint
  <2>2. journal' = AppendRow(Torn) /\ made' = made  BY <1>12 DEF CrashInAppend, Die, EndCall
  <2> QED BY <1>5, <2>1, <2>2
<1>13. ASSUME CrashInRewrite PROVE Goal
  <2>1. PICK n \in 0..Len(Kept) :
            journal' \in {SubSeq(Kept, 1, n), Append(SubSeq(Kept, 1, n), Torn)}
    BY <1>13 DEF CrashInRewrite
  <2>2. Among(SubSeq(Kept, 1, n)) /\ Among(Append(SubSeq(Kept, 1, n), Torn))
    BY <1>1, PrefixAmong
  <2> QED BY <1>6, <1>13, <2>1, <2>2 DEF CrashInRewrite, Die, EndCall
<1>14. ASSUME NEW c \in Call, Mutate(c) \/ Capture(c) \/ Protect(c) \/ Expire(c) PROVE Goal
  BY <1>4, <1>14 DEF Mutate, Capture, Protect, Expire, callVars, diskVars
<1>15. ASSUME CallFails \/ Prune \/ NothingToPrune \/ Sweep PROVE Goal
  BY <1>4, <1>15 DEF CallFails, Prune, NothingToPrune, Sweep, callVars, diskVars, EndCall
<1>16. ASSUME NEW atomic, NEW single, NEW ids, NEW walk, Begun(atomic, single, ids, walk) PROVE Goal
  BY <1>4, <1>16 DEF Begun, Begin, callVars, diskVars
<1>17. ASSUME Restore \/ RestoreFails \/ PutBack \/ GiveUp PROVE Goal
  BY <1>4, <1>17 DEF Restore, RestoreFails, PutBack, GiveUp, callVars, diskVars
<1>18. ASSUME NEW e \in Edit, NEW k \in File, UserEdit(e, k) PROVE Goal
  BY <1>4, <1>18 DEF UserEdit, callVars, diskVars
<1>19. ASSUME Crash \/ Open \/ UNCHANGED vars PROVE Goal
  BY <1>4, <1>19 DEF Crash, Die, EndCall, Open, vars, callVars, diskVars
<1> QED
  BY <1>7, <1>8, <1>9, <1>10, <1>11, <1>12, <1>13, <1>14, <1>15, <1>16, <1>17, <1>18, <1>19, Zenon
  DEF Step, Goal

\* A content of the user comes in with its edit.
LEMMA FreshKeeps ==
    ASSUME IInv, Step
    PROVE  Fresh'
<1>0. /\ TypeOK /\ Fresh /\ Known \subseteq Call \cup {Orig, Absent} \cup edits'
      /\ Orig \in Known /\ Absent \in Known /\ Call \subseteq Known
      /\ Known' = Call \cup {Orig, Absent} \cup edits'
  <2>1. edits \subseteq edits'
    BY DEF Step, vars, userVars, Track, Mutate, Capture, Protect, Journal, Expire, CallFails, Prune,
       NothingToPrune, Rewrite, Sweep, Answered, Refused, Refuse, Begun, Begin, Restore,
       RestoreFails, PutBack, GiveUp, Complete, UserEdit, Crash, Die, CrashInAppend,
       CrashInRewrite, Open
  <2> QED BY <2>1 DEF IInv, Known
<1>1. /\ file \in Tree /\ before \in Tree /\ plan.was \in Tree /\ plan.todo \in Seq(Entry)
      /\ rec \in [Call -> Record]
      /\ \A k \in File : file[k] \in Known /\ before[k] \in Known /\ plan.was[k] \in Known
      /\ \A c \in Call : \A e \in rec[c].files : e.before \in Known /\ e.after \in Known
      /\ \A i \in DOMAIN plan.todo : plan.todo[i].before \in Known
  BY <1>0 DEF Fresh, TypeOK, Plan
<1>2. Known \subseteq Known'  BY <1>0
<1>3. ASSUME \A k \in File : file'[k] \in Known',
             \A k \in File : before'[k] \in Known',
             rec' = rec,
             plan' = plan \/ plan' = NoPlan
                \/ (plan'.was = plan.was /\ \A i \in DOMAIN plan'.todo : plan'.todo[i].before \in Known)
      PROVE  Fresh'
  <2>1. \A k \in File : NoPlan.was[k] = Absent  BY DEF NoPlan, NoFiles
  <2>2. DOMAIN NoPlan.todo = {}  BY DEF NoPlan
  <2>3. \A k \in File : plan'.was[k] \in Known'  BY <1>0, <1>1, <1>2, <1>3, <2>1
  <2>4. \A i \in DOMAIN plan'.todo : plan'.todo[i].before \in Known'  BY <1>1, <1>2, <1>3, <2>2
  <2>5. \A c \in Call : \A e \in rec'[c].files : e.before \in Known' /\ e.after \in Known'
    BY <1>1, <1>2, <1>3
  <2> QED BY <1>3, <2>3, <2>4, <2>5 DEF Fresh
<1>4. \A k \in File : NoFiles[k] = Absent  BY DEF NoFiles
<1>5. ASSUME file' = file, before' \in {before, file, NoFiles}, rec' = rec, plan' \in {plan, NoPlan}
      PROVE  Fresh'
  BY <1>0, <1>1, <1>2, <1>3, <1>4, <1>5
<1>6. ASSUME NEW c \in Call, Mutate(c) PROVE Fresh'
  <2>1. \A k \in File : file'[k] \in Known
    BY <1>0, <1>1, <1>6 DEF Mutate, Tree
  <2> QED BY <1>1, <1>2, <1>3, <1>6, <2>1 DEF Mutate, callVars
<1>7. ASSUME NEW c \in Call, Capture(c) PROVE Fresh'
  <2>1. CASE file = before  BY <1>5, <1>7, <2>1 DEF Capture
  <2>2. CASE file # before
    <3>1. PICK m \in Renames([k \in File |-> Seen(file[k])]) :
              rec' = [rec EXCEPT ![c] = [files |-> Entries(m), was |-> before]]
      BY <1>7, <2>2 DEF Capture
    <3>2. \A e \in Entries(m) : e \in Entry /\ (Plain(e) \/ Renamed(e))  BY <1>1, CaptureFacts
    <3>3. \A e \in Entries(m) : e.before \in Known /\ e.after \in Known
      <4> SUFFICES ASSUME NEW e \in Entries(m) PROVE e.before \in Known /\ e.after \in Known
        OBVIOUS
      <4>1. /\ \E j \in File : e.before = Seen(before[j])
            /\ e.after = Seen(file[e.path]) /\ e.path \in File
        BY <1>1, <3>2, EntryFacts
      <4>2. \A x \in Known : Seen(x) \in Known  BY <1>0 DEF Seen
      <4> QED BY <4>1, <4>2, <1>1
    <3>4. \A d \in Call : rec'[d].files = rec[d].files \/ rec'[d].files = Entries(m)
      BY <1>1, <3>1
    <3>5. \A d \in Call : \A e \in rec'[d].files : e.before \in Known' /\ e.after \in Known'
      BY <1>1, <1>2, <3>3, <3>4
    <3>6. UNCHANGED <<file, before, plan>>  BY <1>7, <2>2 DEF Capture
    <3> QED BY <1>1, <1>2, <3>5, <3>6 DEF Fresh
  <2> QED BY <2>1, <2>2
<1>8. ASSUME NEW atomic \in BOOLEAN, NEW single \in BOOLEAN, NEW ids, NEW walk,
             Begun(atomic, single, ids, walk)
      PROVE  Fresh'
  <2>1. plan'.was = file /\ plan'.todo = walk.todo /\ UNCHANGED <<file, before, rec>>
    BY <1>8 DEF Begun, Begin, callVars
  <2>2. walk.todo \in Seq(Entry)
        /\ \A a \in 1..Len(walk.todo) : \E c \in Call : walk.todo[a] \in rec[c].files
    BY <1>8 DEF Begun, Ready, FromRecords
  <2>3. \A i \in DOMAIN walk.todo : walk.todo[i].before \in Known  BY <2>2, <1>1
  <2> QED BY <1>1, <1>2, <2>1, <2>3 DEF Fresh
<1>9. CASE Restore
  <2> DEFINE e == Head(plan.todo)
  <2>1. /\ e \in Entry /\ e.before \in Known /\ plan'.was = plan.was
        /\ \A i \in DOMAIN plan'.todo : plan'.todo[i].before \in Known
    <3>1. plan.todo # <<>> /\ plan' = [plan EXCEPT !.todo = Tail(@)]  BY <1>9 DEF Restore
    <3>2. /\ 1 \in DOMAIN plan.todo /\ e = plan.todo[1] /\ e \in Entry
          /\ \A i \in DOMAIN Tail(plan.todo) : i + 1 \in DOMAIN plan.todo
                                               /\ Tail(plan.todo)[i] = plan.todo[i + 1]
      BY <1>1, <3>1
    <3>3. plan'.was = plan.was /\ plan'.todo = Tail(plan.todo)  BY <3>1, <1>0 DEF TypeOK, Plan
    <3> HIDE DEF e
    <3> QED BY <1>1, <3>2, <3>3
  <2> HIDE DEF e
  <2>2. \A k \in File : file'[k] \in Known
    <3>1. \A k \in File : file'[k] = IF k \in WritePaths(e) THEN Value(e, k) ELSE file[k]
      BY <1>1, <1>9, <2>1, UndoneFacts DEF Restore, e
    <3>2. \A k \in File : Value(e, k) \in Known  BY <2>1, <1>0 DEF Value
    <3> QED BY <3>1, <3>2, <1>1
  <2> QED BY <1>1, <1>2, <1>3, <1>9, <2>1, <2>2 DEF Restore, callVars
<1>10. CASE RestoreFails
  <2>1. \A k \in File : file'[k] \in Known
    BY <1>0, <1>1, <1>10 DEF RestoreFails, Tree
  <2>2. plan' = NoPlan \/ plan' = [plan EXCEPT !.left = plan.backup]
    BY <1>10 DEF RestoreFails
  <2>3. plan' = NoPlan \/ (plan'.was = plan.was /\ plan'.todo = plan.todo)
    BY <2>2, <1>0 DEF TypeOK, Plan
  <2> QED BY <1>1, <1>2, <1>3, <1>10, <2>1, <2>3 DEF RestoreFails, callVars
<1>11. CASE PutBack
  <2>1. \A k \in File : file'[k] \in Known
    BY <1>0, <1>1, <1>11 DEF PutBack, Tree
  <2>2. plan'.was = plan.was /\ plan'.todo = plan.todo
    BY <1>11, <1>0 DEF PutBack, TypeOK, Plan
  <2> QED BY <1>1, <1>2, <1>3, <1>11, <2>1, <2>2 DEF PutBack, callVars
<1>12. ASSUME NEW e \in Edit, NEW k \in File, UserEdit(e, k) PROVE Fresh'
  <2>1. \A j \in File : file'[j] \in Known'
    BY <1>0, <1>1, <1>2, <1>12 DEF UserEdit, Tree
  <2>2. plan'.was = plan.was /\ plan'.todo = plan.todo
    BY <1>12, <1>0 DEF UserEdit, TypeOK, Plan
  <2> QED BY <1>1, <1>2, <1>3, <1>12, <2>1, <2>2 DEF UserEdit, callVars
<1>13. ASSUME NEW c \in Call, Track(c) \/ Protect(c) \/ Journal(c) \/ Expire(c) PROVE Fresh'
  BY <1>5, <1>13 DEF Track, Protect, Journal, Expire, EndCall, callVars
<1>14. ASSUME CallFails \/ Prune \/ NothingToPrune \/ Rewrite \/ Sweep PROVE Fresh'
  BY <1>5, <1>14 DEF CallFails, Prune, NothingToPrune, Rewrite, Sweep, EndCall, callVars
<1>15. ASSUME NEW row, Answered(row) PROVE Fresh'
  BY <1>5, <1>15 DEF Answered, Refused, Refuse, callVars
<1>16. ASSUME GiveUp \/ (\E refreshed \in BOOLEAN : Complete(refreshed)) \/ Open \/ UNCHANGED vars
       PROVE  Fresh'
  BY <1>5, <1>16 DEF GiveUp, Complete, Open, vars, callVars
<1>17. ASSUME Crash \/ CrashInAppend \/ CrashInRewrite PROVE Fresh'
  BY <1>5, <1>17 DEF Crash, CrashInAppend, CrashInRewrite, Die, EndCall
<1> QED
  BY <1>6, <1>7, <1>8, <1>9, <1>10, <1>11, <1>12, <1>13, <1>14, <1>15, <1>16, <1>17, Zenon DEF Step

\* A record is written by its own call.
LEMMA ShapedKeeps ==
    ASSUME IInv, Step
    PROVE  Shaped'
<1>1. Shaped /\ TypeOK  BY DEF IInv
<1>2. ASSUME UNCHANGED rec PROVE Shaped'  BY <1>1, <1>2 DEF Shaped
<1>3. ASSUME NEW c \in Call, Capture(c), UNCHANGED rec => Shaped' PROVE Shaped'
  <2>1. CASE file = before  BY <1>3, <2>1 DEF Capture
  <2>2. CASE file # before
    <3>1. PICK m \in Renames([k \in File |-> Seen(file[k])]) :
              rec' = [rec EXCEPT ![c] = [files |-> Entries(m), was |-> before]]
      BY <1>3, <2>2 DEF Capture
    <3>2. /\ \A e \in Entries(m) : e \in Entry /\ (Plain(e) \/ Renamed(e))
          /\ \A d, e \in Entries(m) : WritePaths(d) \cap WritePaths(e) # {} => d = e
      BY <1>1, CaptureFacts DEF TypeOK
    <3>3. \A e \in Entries(m) : \A k \in WritePaths(e) : Value(e, k) = Seen(before[k])
      BY <1>1, <3>2, EntryFacts DEF TypeOK
    <3>4. \A d \in Call : rec'[d] = IF d = c THEN [files |-> Entries(m), was |-> before] ELSE rec[d]
      BY <3>1, <1>1 DEF TypeOK
    <3> QED BY <1>1, <3>2, <3>3, <3>4 DEF Shaped
  <2> QED BY <2>1, <2>2
<1>4. (\E c \in Call : Capture(c)) \/ UNCHANGED rec
  BY DEF Step, vars, callVars, EndCall, Track, Mutate, Protect, Journal, Expire, CallFails, Prune,
     NothingToPrune, Rewrite, Sweep, Answered, Refused, Refuse, Begun, Begin, Restore,
     RestoreFails, PutBack, GiveUp, Complete, UserEdit, Crash, Die, CrashInAppend,
     CrashInRewrite, Open
<1> QED BY <1>2, <1>3, <1>4


\* Listed and young records keep what a rollback needs.
LEMMA RestorableKeeps ==
    ASSUME IInv, Step
    PROVE  RecordsRestorable'
<1>1. /\ RecordsRestorable /\ TypeOK /\ InCall
      /\ \A c \in Recorded' : c \in Recorded \/ (c \in Call /\ Journal(c))
      /\ Recorded \subseteq Call
  BY JournalKeeps, JournaledLists DEF IInv
<1>2. \A c \in Recorded \ old :
          /\ c \in refs
          /\ \A e \in rec[c].files : {e.before, e.after} \subseteq blobs \cup {Absent}
  BY <1>1 DEF RecordsRestorable
<1>3. CASE \E c \in Call : Journal(c)
  <2>1. PICK c \in Call : Journal(c)  BY <1>3
  <2>2. pc = "protected" /\ cur = c /\ UNCHANGED <<rec, refs, blobs, old>>
    BY <2>1 DEF Journal, EndCall
  <2>3. \A d \in Recorded' : d \in Recorded \/ d = c
    <3>1. \A d \in Call : Journal(d) => d = cur  BY DEF Journal
    <3> QED BY <1>1, <2>2, <3>1
  <2>4. c \in refs /\ \A e \in rec[c].files : {e.before, e.after} \subseteq blobs \cup {Absent}
    BY <1>1, <2>2 DEF InCall, Held
  <2> QED BY <1>2, <2>2, <2>3, <2>4 DEF RecordsRestorable
<1>4. CASE ~ \E c \in Call : Journal(c)
  <2>1. Recorded' \subseteq Recorded  BY <1>1, <1>4
  <2>2. ASSUME old \subseteq old', blobs \subseteq blobs', \A c \in Recorded \ old : c \in refs',
               \A c \in Recorded : rec'[c] = rec[c]
        PROVE  RecordsRestorable'
    BY <1>2, <2>1, <2>2 DEF RecordsRestorable
  <2>3. ASSUME UNCHANGED <<rec, refs, old>>, blobs \subseteq blobs' PROVE RecordsRestorable'
    BY <1>2, <2>2, <2>3
  <2>4. blobs \subseteq Tracked  BY DEF Tracked
  <2>5. ASSUME NEW c \in Call, Capture(c) PROVE RecordsRestorable'
    <3>1. c \notin Recorded /\ UNCHANGED <<refs, old>> /\ blobs' = Tracked
      BY <1>1, <2>5 DEF Capture, InCall, Calling
    <3>2. \A d \in Recorded : rec'[d] = rec[d]
      BY <1>1, <2>5, <3>1 DEF Capture, TypeOK
    <3> QED BY <1>2, <2>2, <2>4, <3>1, <3>2
  <2>6. ASSUME NEW c \in Call, Track(c) \/ Mutate(c) \/ Protect(c) \/ Expire(c)
        PROVE  RecordsRestorable'
    BY <1>2, <2>2, <2>4, <2>6 DEF Track, Mutate, Protect, Expire, callVars, diskVars
  <2>7. CASE Prune
    BY <1>2, <2>2, <2>7 DEF Prune, Expired, callVars
  <2>8. CASE Sweep
    <3>1. blobs' = blobs \cap UNION {Needs(e) : e \in UNION {rec[c].files : c \in Recorded}}
      BY <2>8 DEF Sweep
    <3>2. UNCHANGED <<rec, refs, old>>  BY <2>8 DEF Sweep, callVars
    <3>3. ASSUME NEW c \in Recorded \ old, NEW e \in rec[c].files
          PROVE  {e.before, e.after} \subseteq blobs' \cup {Absent}
      <4>1. {e.before, e.after} \subseteq blobs \cup {Absent}  BY <1>2
      <4>2. Needs(e) = {e.before, e.after}  BY DEF Needs
      <4>3. e \in UNION {rec[d].files : d \in Recorded}  OBVIOUS
      <4> QED BY <3>1, <4>1, <4>2, <4>3
    <3> QED BY <1>2, <2>1, <3>2, <3>3 DEF RecordsRestorable
  <2>9. ASSUME CallFails \/ NothingToPrune \/ Rewrite PROVE RecordsRestorable'
    BY <2>3, <2>9 DEF CallFails, NothingToPrune, Rewrite, EndCall, callVars, diskVars
  <2>10. ASSUME NEW row, Answered(row) PROVE RecordsRestorable'
    BY <2>3, <2>10 DEF Answered, Refused, Refuse, callVars
  <2>11. ASSUME NEW atomic, NEW single, NEW ids, NEW walk, Begun(atomic, single, ids, walk)
         PROVE  RecordsRestorable'
    BY <2>3, <2>11 DEF Begun, Begin, callVars, diskVars
  <2>12. ASSUME Restore \/ RestoreFails \/ PutBack \/ GiveUp PROVE RecordsRestorable'
    BY <2>3, <2>12 DEF Restore, RestoreFails, PutBack, GiveUp, callVars, diskVars
  <2>13. ASSUME NEW refreshed \in BOOLEAN, Complete(refreshed) PROVE RecordsRestorable'
    BY <2>3, <2>4, <2>13 DEF Complete, callVars
  <2>14. ASSUME NEW e \in Edit, NEW k \in File, UserEdit(e, k) PROVE RecordsRestorable'
    BY <2>3, <2>14 DEF UserEdit, callVars, diskVars
  <2>15. ASSUME Crash \/ CrashInAppend \/ CrashInRewrite \/ Open \/ UNCHANGED vars
         PROVE  RecordsRestorable'
    BY <2>3, <2>15 DEF Crash, CrashInAppend, CrashInRewrite, Die, EndCall, Open, vars, callVars,
                       diskVars
  <2> QED
    BY <1>4, <2>5, <2>6, <2>7, <2>8, <2>9, <2>10, <2>11, <2>12, <2>13, <2>14, <2>15, Zenon DEF Step
<1> QED BY <1>3, <1>4

\* A call in progress has no row yet, and the blobs of its record.
LEMMA InCallKeeps ==
    ASSUME IInv, Step
    PROVE  InCall'
<1>1. TypeOK /\ InCall /\ Recorded \subseteq made  BY DEF IInv, Journaled
<1>2. ASSUME ~Calling' PROVE InCall'  BY <1>2 DEF InCall, Calling
<1>3. ASSUME UNCHANGED <<pc, cur, before, made, rec, journal, refs, blobs>> PROVE InCall'
  BY <1>1, <1>3 DEF InCall, Calling, Held, Recorded
<1>4. UNCHANGED journal => Recorded' = Recorded  BY DEF Recorded
<1>5. ASSUME NEW c \in Call, Track(c) PROVE InCall'
  <2>1. c \notin Recorded /\ Recorded' = Recorded /\ c \in made' /\ cur' = c /\ pc' = "call"
    BY <1>1, <1>4, <1>5 DEF Track
  <2>2. \A k \in File : Seen(before'[k]) \in blobs' \cup {Absent}
    BY <1>5 DEF Track, Tracked
  <2> QED BY <2>1, <2>2 DEF InCall, Calling
<1>6. ASSUME NEW c \in Call, Mutate(c) PROVE InCall'
  BY <1>3, <1>6 DEF Mutate, callVars, diskVars
<1>7. ASSUME NEW c \in Call, Capture(c) PROVE InCall'
  <2>1. CASE file = before  BY <1>2, <1>7, <2>1 DEF Capture, Calling
  <2>2. CASE file # before
    <3>1. PICK m \in Renames([k \in File |-> Seen(file[k])]) :
              rec' = [rec EXCEPT ![c] = [files |-> Entries(m), was |-> before]]
      BY <1>7, <2>2 DEF Capture
    <3>2. /\ pc = "call" /\ cur = c /\ cur' = c /\ pc' = "captured" /\ made' = made
          /\ Recorded' = Recorded /\ blobs' = Tracked
      BY <1>4, <1>7, <2>2 DEF Capture
    <3>3. \A e \in Entries(m) : e \in Entry /\ (Plain(e) \/ Renamed(e))
      BY <1>1, CaptureFacts DEF TypeOK
    <3>4. ASSUME NEW e \in Entries(m) PROVE {e.before, e.after} \subseteq Tracked \cup {Absent}
      <4>1. /\ \E j \in File : e.before = Seen(before[j])
            /\ e.after = Seen(file[e.path]) /\ e.path \in File
        BY <1>1, <3>3, EntryFacts DEF TypeOK
      <4>2. e.before \in blobs \cup {Absent}  BY <1>1, <3>2, <4>1 DEF InCall
      <4> QED BY <4>1, <4>2 DEF Tracked
    <3>5. rec'[c].files = Entries(m)  BY <3>1, <1>1 DEF TypeOK
    <3>6. Held(rec[cur].files)'  BY <3>2, <3>4, <3>5 DEF Held
    <3> QED BY <1>1, <3>2, <3>6 DEF InCall, Calling
  <2> QED BY <2>1, <2>2
<1>8. ASSUME NEW c \in Call, Protect(c) PROVE InCall'
  <2>1. Recorded' = Recorded /\ UNCHANGED <<cur, made, rec, blobs>> /\ pc = "captured"
        /\ pc' = "protected" /\ cur' \in refs'
    BY <1>4, <1>8 DEF Protect, callVars
  <2> QED BY <1>1, <2>1 DEF InCall, Calling, Held
<1>9. ASSUME NEW c \in Call, Journal(c) PROVE InCall'
  BY <1>2, <1>9 DEF Journal, Calling
<1>10. ASSUME NEW c \in Call, Expire(c) PROVE InCall'
  BY <1>2, <1>10 DEF Expire, Calling
<1>11. ASSUME CallFails \/ Prune \/ NothingToPrune \/ Rewrite \/ Sweep PROVE InCall'
  BY <1>2, <1>11 DEF CallFails, Prune, NothingToPrune, Rewrite, Sweep, Calling
<1>12. ASSUME NEW row, Answered(row) PROVE InCall'
  BY <1>2, <1>12 DEF Answered, Refused, Refuse, Calling
<1>13. ASSUME NEW atomic, NEW single, NEW ids, NEW walk, Begun(atomic, single, ids, walk)
       PROVE  InCall'
  BY <1>2, <1>13 DEF Begun, Begin, Calling
<1>14. ASSUME Restore \/ RestoreFails \/ PutBack \/ GiveUp \/ \E refreshed \in BOOLEAN : Complete(refreshed)
       PROVE  InCall'
  BY <1>2, <1>14 DEF Restore, RestoreFails, PutBack, GiveUp, Complete, Calling
<1>15. ASSUME NEW e \in Edit, NEW k \in File, UserEdit(e, k) PROVE InCall'
  BY <1>3, <1>15 DEF UserEdit, callVars, diskVars
<1>16. ASSUME Crash \/ CrashInAppend \/ CrashInRewrite \/ Open PROVE InCall'
  BY <1>2, <1>16 DEF Crash, CrashInAppend, CrashInRewrite, Die, Open, Calling
<1>17. CASE UNCHANGED vars  BY <1>3, <1>17 DEF vars, callVars, diskVars
<1> QED
  BY <1>5, <1>6, <1>7, <1>8, <1>9, <1>10, <1>11, <1>12, <1>13, <1>14, <1>15, <1>16, <1>17, Zenon
  DEF Step

\* A quiet file is what the user made of it.
LEMMA QuietKeeps ==
    ASSUME IInv, Step
    PROVE  Quiet'
<1>1. TypeOK /\ Quiet /\ Fresh  BY DEF IInv
<1>2. quiet \subseteq File /\ file \in Tree /\ before \in Tree /\ rec \in [Call -> Record]
      /\ edits \subseteq Edit
  BY <1>1 DEF TypeOK
<1>3. ASSUME quiet' \subseteq quiet, edits' = edits, rec' = rec, \A k \in quiet' : file'[k] = file[k],
             pc' = "call" => (pc = "call" /\ before' = before) \/ before' = file
      PROVE  Quiet'
  BY <1>1, <1>3 DEF Quiet
<1>4. ASSUME UNCHANGED <<quiet, edits, rec, file>>, pc' # "call" PROVE Quiet'
  BY <1>3, <1>4
<1>5. ASSUME NEW c \in Call, Track(c) PROVE Quiet'
  BY <1>3, <1>5 DEF Track, userVars
<1>6. ASSUME NEW c \in Call, Mutate(c) PROVE Quiet'
  <2>1. quiet' \subseteq quiet /\ \A k \in quiet' : file'[k] = file[k]
    BY <1>2, <1>6 DEF Mutate, Tree
  <2> QED BY <1>3, <1>6, <2>1 DEF Mutate, callVars
<1>7. ASSUME NEW c \in Call, Capture(c) PROVE Quiet'
  <2>1. CASE file = before  BY <1>4, <1>7, <2>1 DEF Capture, userVars
  <2>2. CASE file # before
    <3>1. PICK m \in Renames([k \in File |-> Seen(file[k])]) :
              rec' = [rec EXCEPT ![c] = [files |-> Entries(m), was |-> before]]
      BY <1>7, <2>2 DEF Capture
    <3>2. \A e \in Entries(m) : e \in Entry /\ (Plain(e) \/ Renamed(e))  BY <1>2, CaptureFacts
    <3>3. \A e \in Entries(m) : Seen(before[e.path]) # Seen(file[e.path])
      BY <1>2, <3>2, EntryFacts
    <3>4. /\ pc = "call" /\ pc' = "captured" /\ UNCHANGED <<file, quiet, edits>>
      BY <1>7, <2>2 DEF Capture, userVars
    <3>5. \A k \in quiet : before[k] = file[k]  BY <1>1, <3>4 DEF Quiet
    <3>6. \A d \in Call : rec'[d].files = rec[d].files \/ rec'[d].files = Entries(m)
      BY <1>2, <3>1
    <3>7. \A k \in quiet : \A e \in Entries(m) : e.path # k  BY <3>3, <3>5
    <3> QED BY <1>1, <3>4, <3>6, <3>7 DEF Quiet
  <2> QED BY <2>1, <2>2
<1>8. ASSUME NEW c \in Call, Protect(c) \/ Journal(c) \/ Expire(c) PROVE Quiet'
  BY <1>4, <1>8 DEF Protect, Journal, Expire, EndCall, callVars, userVars
<1>9. ASSUME CallFails \/ Prune \/ NothingToPrune \/ Rewrite \/ Sweep PROVE Quiet'
  BY <1>4, <1>9 DEF CallFails, Prune, NothingToPrune, Rewrite, Sweep, EndCall, callVars, userVars
<1>10. ASSUME NEW row, Answered(row) PROVE Quiet'
  BY <1>4, <1>10 DEF Answered, Refused, Refuse, callVars, userVars
<1>11. ASSUME NEW atomic, NEW single, NEW ids, NEW walk, Begun(atomic, single, ids, walk)
       PROVE  Quiet'
  BY <1>4, <1>11 DEF Begun, Begin, callVars, userVars
<1>12. CASE Restore
  <2> DEFINE e == Head(plan.todo)
  <2>1. e \in Entry
    <3>1. plan.todo \in Seq(Entry) /\ plan.todo # <<>>
      BY <1>1, <1>12 DEF Restore, TypeOK, Plan
    <3> QED BY <3>1
  <2>2. file' = Undone(e, file) /\ quiet' = quiet \ WritePaths(e)  BY <1>12 DEF Restore
  <2> HIDE DEF e
  <2>3. \A k \in quiet' : file'[k] = file[k]  BY <1>2, <2>1, <2>2, UndoneFacts
  <2> QED BY <1>3, <1>12, <2>2, <2>3 DEF Restore, callVars
<1>13. CASE RestoreFails
  <2>1. quiet' \subseteq quiet /\ \A k \in quiet' : file'[k] = file[k]
    BY <1>2, <1>13 DEF RestoreFails, Tree
  <2>2. pc' # "call" /\ rec' = rec /\ edits' = edits
    BY <1>13 DEF RestoreFails, callVars
  <2> QED BY <1>3, <2>1, <2>2
<1>14. CASE PutBack
  <2>1. quiet' \subseteq quiet /\ \A k \in quiet' : file'[k] = file[k]
    BY <1>2, <1>14 DEF PutBack, Tree
  <2> QED BY <1>3, <1>14, <2>1 DEF PutBack, callVars
<1>15. ASSUME GiveUp \/ \E refreshed \in BOOLEAN : Complete(refreshed) PROVE Quiet'
  BY <1>4, <1>15 DEF GiveUp, Complete, callVars, userVars
<1>16. ASSUME NEW e \in Edit, NEW k \in File, UserEdit(e, k) PROVE Quiet'
  <2>1. UNCHANGED <<pc, before, rec>> /\ edits' = edits \cup {e} /\ e \notin edits
    BY <1>16 DEF UserEdit, callVars
  <2>2. \A j \in File \ {k} : file'[j] = file[j]  BY <1>2, <1>16 DEF UserEdit, Tree
  <2>3. /\ quiet' \ {k} \subseteq quiet
        /\ k \in quiet' => file'[k] = e /\ pc # "call"
    BY <1>2, <1>16 DEF UserEdit, Tree
  <2>4. \A c \in Call : \A d \in rec[c].files : d.after # e
    <3>1. e \notin Known  BY <2>1, Apart DEF Known
    <3> QED BY <1>1, <3>1 DEF Fresh
  <2>5. ASSUME NEW j \in quiet' PROVE /\ file'[j] \in edits'
                                      /\ \A c \in Call : \A d \in rec'[c].files : d.path = j => d.after # file'[j]
                                      /\ pc' = "call" => before'[j] = file'[j]
    <3>1. CASE j = k  BY <2>1, <2>3, <2>4, <3>1
    <3>2. CASE j # k
      <4>1. j \in quiet /\ j \in File \ {k}  BY <1>2, <2>3, <3>2
      <4> QED BY <1>1, <2>1, <2>2, <4>1 DEF Quiet
    <3> QED BY <3>1, <3>2
  <2> QED BY <2>5 DEF Quiet
<1>17. ASSUME Crash \/ CrashInAppend \/ CrashInRewrite \/ Open PROVE Quiet'
  BY <1>4, <1>17 DEF Crash, CrashInAppend, CrashInRewrite, Die, EndCall, Open, callVars, userVars
<1>18. CASE UNCHANGED vars  BY <1>3, <1>18 DEF vars, callVars, userVars
<1> QED
  BY <1>5, <1>6, <1>7, <1>8, <1>9, <1>10, <1>11, <1>12, <1>13, <1>14, <1>15, <1>16, <1>17, <1>18,
     Zenon DEF Step


\* What is left of a rollback stays clear of the quiet files.
LEMMA PlannedKeeps ==
    ASSUME IInv, Step
    PROVE  Planned'
<1>1. TypeOK /\ Planned /\ plan \in Plan /\ plan.todo \in Seq(Entry)
  BY DEF IInv, TypeOK, Plan
<1>2. ASSUME ~Restoring' PROVE Planned'  BY <1>2 DEF Planned, Restoring
<1>3. ASSUME Restoring, quiet' \subseteq quiet, plan'.ids = plan.ids,
             \A i \in DOMAIN plan'.todo : \E j \in DOMAIN plan.todo : plan'.todo[i] = plan.todo[j],
             plan'.backup = plan.backup, plan'.left \subseteq plan.left \cup plan.backup
      PROVE  Planned'
  BY <1>1, <1>3 DEF Planned
<1>4. ASSUME NEW atomic \in BOOLEAN, NEW single \in BOOLEAN, NEW ids, NEW walk,
             Begun(atomic, single, ids, walk)
      PROVE  Planned'
  <2>1. /\ walk.todo \in Seq(Entry) /\ ids # {} /\ quiet' = quiet
        /\ \A a \in 1..Len(walk.todo) : WritePaths(walk.todo[a]) \cap quiet = {}
    BY <1>4 DEF Begun, Begin, Ready, userVars
  <2>2. /\ plan'.ids = ids /\ plan'.todo = walk.todo /\ plan'.left = {}
        /\ plan'.backup \subseteq UNION {WritePaths(walk.todo[i]) : i \in DOMAIN walk.todo}
    BY <1>4 DEF Begun, Begin
  <2>3. \A i \in DOMAIN walk.todo : WritePaths(walk.todo[i]) \cap quiet = {}  BY <2>1
  <2> QED BY <2>1, <2>2, <2>3 DEF Planned
<1>5. CASE Restore
  <2>1. plan.todo # <<>> /\ plan' = [plan EXCEPT !.todo = Tail(@)]  BY <1>5 DEF Restore
  <2>2. \A i \in DOMAIN Tail(plan.todo) : i + 1 \in DOMAIN plan.todo
                                          /\ Tail(plan.todo)[i] = plan.todo[i + 1]
    BY <1>1, <2>1
  <2>3. /\ plan'.ids = plan.ids /\ plan'.todo = Tail(plan.todo) /\ plan'.backup = plan.backup
        /\ plan'.left = plan.left
    BY <1>1, <2>1 DEF Plan
  <2>4. Restoring /\ quiet' \subseteq quiet  BY <1>5 DEF Restore, Restoring
  <2> QED BY <1>3, <2>2, <2>3, <2>4
<1>6. CASE RestoreFails
  <2>1. CASE plan.atomic
    <3>1. Restoring /\ quiet' \subseteq quiet /\ plan' = [plan EXCEPT !.left = plan.backup]
      BY <1>6, <2>1 DEF RestoreFails, Restoring
    <3>2. /\ plan'.ids = plan.ids /\ plan'.todo = plan.todo /\ plan'.backup = plan.backup
          /\ plan'.left = plan.backup
      BY <1>1, <3>1 DEF Plan
    <3> QED BY <1>3, <3>1, <3>2
  <2>2. CASE ~plan.atomic  BY <1>2, <1>6, <2>2 DEF RestoreFails, Restoring
  <2> QED BY <2>1, <2>2
<1>7. CASE PutBack
  <2>1. /\ Restoring /\ quiet' \subseteq quiet /\ plan'.ids = plan.ids /\ plan'.todo = plan.todo
        /\ plan'.backup = plan.backup /\ plan'.left \subseteq plan.left
    BY <1>1, <1>7 DEF PutBack, Restoring, Plan
  <2> QED BY <1>3, <2>1
<1>8. ASSUME NEW e \in Edit, NEW k \in File, UserEdit(e, k) PROVE Planned'
  <2>1. CASE Restoring
    <3>1. /\ quiet' \subseteq quiet /\ plan'.ids = plan.ids /\ plan'.todo = plan.todo
          /\ plan'.backup = plan.backup /\ plan'.left = plan.left
      BY <1>1, <1>8, <2>1 DEF UserEdit, Restoring, Plan
    <3> QED BY <1>3, <2>1, <3>1
  <2>2. CASE ~Restoring  BY <1>2, <1>8, <2>2 DEF UserEdit, Restoring
  <2> QED BY <2>1, <2>2
<1>9. CASE UNCHANGED vars
  BY <1>1, <1>9 DEF Planned, Restoring, vars, userVars
<1>10. ASSUME NEW c \in Call,
              Track(c) \/ Mutate(c) \/ Capture(c) \/ Protect(c) \/ Journal(c) \/ Expire(c)
       PROVE  Planned'
  BY <1>2, <1>10 DEF Track, Mutate, Capture, Protect, Journal, Expire, Restoring
<1>11. ASSUME CallFails \/ Prune \/ NothingToPrune \/ Rewrite \/ Sweep \/ GiveUp PROVE Planned'
  BY <1>2, <1>11 DEF CallFails, Prune, NothingToPrune, Rewrite, Sweep, GiveUp, Restoring
<1>12. ASSUME NEW row, Answered(row) PROVE Planned'
  BY <1>2, <1>12 DEF Answered, Refused, Refuse, Restoring
<1>13. ASSUME NEW refreshed \in BOOLEAN, Complete(refreshed) PROVE Planned'
  BY <1>2, <1>13 DEF Complete, Restoring
<1>14. ASSUME Crash \/ CrashInAppend \/ CrashInRewrite \/ Open PROVE Planned'
  BY <1>2, <1>14 DEF Crash, CrashInAppend, CrashInRewrite, Die, Open, Restoring
<1> QED
  BY <1>4, <1>5, <1>6, <1>7, <1>8, <1>9, <1>10, <1>11, <1>12, <1>13, <1>14, Zenon DEF Step

\* What an Atomic rollback has written it has a backup of.
LEMMA BackedUpKeeps ==
    ASSUME IInv, Step
    PROVE  BackedUp'
<1>1. /\ TypeOK /\ BackedUp /\ Planned /\ plan \in Plan /\ plan.todo \in Seq(Entry)
      /\ file \in Tree /\ plan.was \in Tree /\ plan.backup \subseteq File
  BY DEF IInv, TypeOK, Plan
<1>2. ASSUME ~Restoring' PROVE BackedUp'  BY <1>2 DEF BackedUp, Restoring
<1>3. ASSUME NEW atomic \in BOOLEAN, NEW single \in BOOLEAN, NEW ids, NEW walk,
             Begun(atomic, single, ids, walk)
      PROVE  BackedUp'
  <2>1. /\ pc' = "apply" /\ file' = file /\ plan'.was = file /\ plan'.todo = walk.todo
        /\ plan'.atomic = atomic
        /\ atomic => plan'.backup = UNION {WritePaths(walk.todo[i]) : i \in DOMAIN walk.todo}
    BY <1>3 DEF Begun, Begin
  <2> QED BY <2>1 DEF BackedUp
<1>4. CASE Restore
  <2> DEFINE e == Head(plan.todo)
  <2>1. plan.todo # <<>> /\ plan' = [plan EXCEPT !.todo = Tail(@)] /\ file' = Undone(e, file)
        /\ pc = "apply" /\ pc' = "apply"
    BY <1>4 DEF Restore
  <2>2. /\ e \in Entry /\ 1 \in DOMAIN plan.todo /\ e = plan.todo[1]
        /\ \A i \in DOMAIN Tail(plan.todo) : i + 1 \in DOMAIN plan.todo
                                             /\ Tail(plan.todo)[i] = plan.todo[i + 1]
    BY <1>1, <2>1
  <2> HIDE DEF e
  <2>3. /\ plan'.was = plan.was /\ plan'.todo = Tail(plan.todo) /\ plan'.backup = plan.backup
        /\ plan'.atomic = plan.atomic /\ plan'.dirty = plan.dirty
    BY <1>1, <2>1 DEF Plan
  <2>4. ASSUME plan.atomic PROVE WritePaths(e) \subseteq plan.backup
    BY <1>1, <2>1, <2>2, <2>4 DEF BackedUp
  <2>5. \A k \in File \ WritePaths(e) : file'[k] = file[k]  BY <1>1, <2>1, <2>2, UndoneFacts
  <2>6. ASSUME plan.atomic
        PROVE  /\ \A i \in DOMAIN plan'.todo : WritePaths(plan'.todo[i]) \subseteq plan'.backup
               /\ ~plan'.dirty => \A k \in File \ plan'.backup : file'[k] = plan'.was[k]
    BY <1>1, <2>1, <2>2, <2>3, <2>4, <2>5, <2>6 DEF BackedUp
  <2> QED BY <2>1, <2>3, <2>6 DEF BackedUp
<1>5. CASE RestoreFails
  <2>1. CASE plan.atomic
    <3>1. /\ plan.todo # <<>> /\ plan' = [plan EXCEPT !.left = plan.backup]
          /\ pc = "apply" /\ pc' = "undoing"
      BY <1>5, <2>1 DEF RestoreFails
    <3>2. Head(plan.todo) \in Entry /\ 1 \in DOMAIN plan.todo /\ Head(plan.todo) = plan.todo[1]
      BY <1>1, <3>1
    <3>3. Head(plan.todo).path \in plan.backup
      BY <1>1, <2>1, <3>1, <3>2, WritePathsType DEF BackedUp
    <3>4. \A k \in File \ plan.backup : file'[k] = file[k]
      BY <1>1, <1>5, <3>3 DEF RestoreFails, Tree
    <3>5. plan'.was = plan.was /\ plan'.left = plan.backup /\ plan'.dirty = plan.dirty
      BY <1>1, <3>1 DEF Plan
    <3> QED BY <1>1, <2>1, <3>1, <3>4, <3>5 DEF BackedUp
  <2>2. CASE ~plan.atomic  BY <1>2, <1>5, <2>2 DEF RestoreFails, Restoring
  <2> QED BY <2>1, <2>2
<1>6. CASE PutBack
  <2>0. pc = "undoing" /\ pc' = "undoing"  BY <1>6 DEF PutBack
  <2>1. CASE \E k \in plan.left : /\ file' = [file EXCEPT ![k] = plan.was[k]]
                                  /\ plan' = [plan EXCEPT !.left = @ \ {k}]
    <3>1. PICK k \in plan.left : /\ file' = [file EXCEPT ![k] = plan.was[k]]
                                 /\ plan' = [plan EXCEPT !.left = @ \ {k}]
      BY <2>1
    <3>2. /\ plan'.was = plan.was /\ plan'.left = plan.left \ {k} /\ plan'.dirty = plan.dirty
          /\ plan'.failed = plan.failed
      BY <1>1, <3>1 DEF Plan
    <3>3. \A j \in File : file'[j] = IF j = k THEN plan.was[k] ELSE file[j]
      BY <1>1, <3>1 DEF Tree
    <3> QED BY <1>1, <2>0, <3>2, <3>3 DEF BackedUp
  <2>2. CASE plan' = [plan EXCEPT !.left = {}, !.failed = TRUE]
    <3>1. plan'.failed = TRUE  BY <1>1, <2>2 DEF Plan
    <3> QED BY <2>0, <3>1 DEF BackedUp
  <2> QED BY <1>6, <2>1, <2>2 DEF PutBack
<1>7. ASSUME NEW e \in Edit, NEW k \in File, UserEdit(e, k) PROVE BackedUp'
  <2>1. CASE Restoring
    <3>1. plan # NoPlan  BY <1>1, <2>1 DEF Planned, NoPlan
    <3>2. /\ plan'.todo = plan.todo /\ plan'.backup = plan.backup /\ plan'.atomic = plan.atomic
          /\ plan'.dirty = TRUE /\ pc' = pc
      BY <1>1, <1>7, <3>1 DEF UserEdit, Plan
    <3> QED BY <1>1, <3>2 DEF BackedUp
  <2>2. CASE ~Restoring  BY <1>2, <1>7, <2>2 DEF UserEdit, Restoring
  <2> QED BY <2>1, <2>2
<1>8. CASE UNCHANGED vars  BY <1>1, <1>8 DEF BackedUp, vars
<1>9. ASSUME NEW c \in Call,
             Track(c) \/ Mutate(c) \/ Capture(c) \/ Protect(c) \/ Journal(c) \/ Expire(c)
      PROVE  BackedUp'
  BY <1>2, <1>9 DEF Track, Mutate, Capture, Protect, Journal, Expire, Restoring
<1>10. ASSUME CallFails \/ Prune \/ NothingToPrune \/ Rewrite \/ Sweep \/ GiveUp PROVE BackedUp'
  BY <1>2, <1>10 DEF CallFails, Prune, NothingToPrune, Rewrite, Sweep, GiveUp, Restoring
<1>11. ASSUME NEW row, Answered(row) PROVE BackedUp'
  BY <1>2, <1>11 DEF Answered, Refused, Refuse, Restoring
<1>12. ASSUME NEW refreshed \in BOOLEAN, Complete(refreshed) PROVE BackedUp'
  BY <1>2, <1>12 DEF Complete, Restoring
<1>13. ASSUME Crash \/ CrashInAppend \/ CrashInRewrite \/ Open PROVE BackedUp'
  BY <1>2, <1>13 DEF Crash, CrashInAppend, CrashInRewrite, Die, Open, Restoring
<1> QED
  BY <1>3, <1>4, <1>5, <1>6, <1>7, <1>8, <1>9, <1>10, <1>11, <1>12, <1>13, Zenon DEF Step


-----------------------------------------------------------------------------
(* What a rollback without conflicts gives back. *)

\* The original of a path, for any worktree, records and list of calls.
OriginalOf(f, r, l, ids, k) ==
    LET touching == {c \in ids : \E e \in r[c].files : k \in WritePaths(e)}
        first == CHOOSE c \in touching :
                    \A d \in touching \ {c} :
                        \E i, j \in DOMAIN l : i < j /\ l[i] = c /\ l[j] = d
    IN IF touching = {} THEN f[k] ELSE r[first].was[k]
\* It depends on nothing else.
LEMMA OriginalDef ==
    \A ids, k : Original(ids, k) = OriginalOf(file, rec, Listed, ids, k)
BY Zenon DEF Original, OriginalOf

\* The first call that changed a path is the one that has its original.
LEMMA OriginalIs ==
    ASSUME Lists(Listed), NEW ids, NEW k, NEW c \in Touching(ids, k),
           \A d \in Touching(ids, k) \ {c} :
               \E i, j \in DOMAIN Listed : i < j /\ Listed[i] = c /\ Listed[j] = d
    PROVE  Original(ids, k) = rec[c].was[k]
<1> DEFINE T == {d \in ids : \E e \in rec[d].files : k \in WritePaths(e)}
           l == Listed
           First(b) == \A d \in T \ {b} : \E i, j \in DOMAIN l : i < j /\ l[i] = b /\ l[j] = d
           first == CHOOSE b \in T : First(b)
<1>1. c \in T /\ First(c)  BY DEF Touching
<1>2. Original(ids, k) = IF T = {} THEN file[k] ELSE rec[first].was[k]  BY Zenon DEF Original
<1>3. \A i, j \in DOMAIN l : l[i] = l[j] => i = j
  <2>1. l \in Seq(Recorded)  BY DEF Lists
  <2>2. DOMAIN l = 1..Len(l)  BY <2>1
  <2> QED BY <2>2 DEF Lists
<1>4. DOMAIN l \subseteq Nat
  <2>1. l \in Seq(Recorded)  BY DEF Lists
  <2> QED BY <2>1
<1> HIDE DEF T, l
<1>5. first \in T /\ First(first)
  <2> HIDE DEF First
  <2> QED BY <1>1
<1>6. ASSUME first # c PROVE FALSE
  <2>1. PICK i, j \in DOMAIN l : i < j /\ l[i] = c /\ l[j] = first  BY <1>1, <1>5, <1>6
  <2>2. PICK a, b \in DOMAIN l : a < b /\ l[a] = first /\ l[b] = c  BY <1>1, <1>5, <1>6
  <2>3. i = b /\ j = a  BY <2>1, <2>2, <1>3
  <2>4. i \in Nat /\ j \in Nat  BY <1>4
  <2> QED BY <2>1, <2>2, <2>3, <2>4
<1> QED BY <1>1, <1>2, <1>6

\* The last place there is.
LEMMA LastPlace ==
    ASSUME NEW n \in Nat, NEW A \in SUBSET (1..n), A # {}
    PROVE  \E m \in A : \A a \in A : a <= m
<1> DEFINE T == {n - a : a \in A}
<1>1. T \in SUBSET Nat /\ T # {}  OBVIOUS
<1>2. PICK t \in T : \A u \in T : t <= u
  <2> HIDE DEF T
  <2> QED BY <1>1, LeastElement
<1>3. PICK m \in A : t = n - m  OBVIOUS
<1>4. \A a \in A : n - m <= n - a  BY <1>2, <1>3
<1> QED BY <1>4

\* When a rollback starts, the last entry for a path is that of the first call that changed it.
LEMMA StartsWillBe ==
    ASSUME IInv, NEW o, NEW atomic, NEW walk, Starts(o, atomic, walk), walk.clean,
           NEW k \in File, Touching(ToSet(o), k) # {}
    PROVE  ToBe(file, walk.todo, Original(ToSet(o), k), k)
<1> DEFINE es == walk.todo
           n == Len(es)
           A == {a \in 1..n : k \in WritePaths(es[a])}
<1>1. /\ Sound /\ Lists(Listed) /\ Recorded \subseteq Call /\ Shaped
      /\ o \in Seq(Recorded) /\ ToSet(o) \subseteq Recorded
      /\ \A i, j \in 1..Len(o) : i < j =>
             \E a, b \in 1..Len(Listed) : a < b /\ Listed[a] = o[j] /\ Listed[b] = o[i]
  BY IInvSound, JournaledLists DEF IInv, Starts, NewestFirst
<1>2. es \in Seq(Entry) /\ es = EntriesOf(o)  BY DEF Starts, Ready
<1>3. PICK src : Source(src, es, o)
  <2>1. o \in Seq(Call)  BY <1>1
  <2> QED BY <1>1, <1>2, <2>1, EntriesFacts
<1>4. n \in Nat /\ DOMAIN es = 1..n /\ DOMAIN o = 1..Len(o) /\ Len(o) \in Nat  BY <1>1, <1>2
<1> HIDE DEF es, n
<1>5. ToSet(o) = {o[i] : i \in 1..Len(o)}  BY <1>4 DEF ToSet
<1>6. ASSUME NEW d \in Touching(ToSet(o), k)
      PROVE  \E a \in A : src[a] \in 1..Len(o) /\ o[src[a]] = d
  <2>1. d \in ToSet(o) /\ \E e \in rec[d].files : k \in WritePaths(e)  BY DEF Touching
  <2>2. PICK i \in 1..Len(o) : d = o[i]  BY <1>5, <2>1
  <2>3. PICK e \in rec[o[i]].files : k \in WritePaths(e)  BY <2>1, <2>2
  <2>4. PICK a \in 1..n : src[a] = i /\ es[a] = e  BY <1>3, <2>3 DEF Source, n
  <2> QED BY <2>2, <2>3, <2>4
<1>7. PICK m \in A : \A a \in A : a <= m
  <2>1. A # {}  BY <1>6
  <2>2. A \in SUBSET (1..n)  OBVIOUS
  <2> HIDE DEF A
  <2> QED BY <1>4, <2>1, <2>2, LastPlace
<1> DEFINE c == o[src[m]]
<1>8. /\ m \in 1..n /\ k \in WritePaths(es[m]) /\ src[m] \in 1..Len(o) /\ es[m] \in rec[c].files
      /\ c \in ToSet(o) /\ c \in Call
  BY <1>1, <1>3, <1>5 DEF Source, n
<1>9. c \in Touching(ToSet(o), k)  BY <1>8 DEF Touching
<1>10. ASSUME NEW d \in Touching(ToSet(o), k) \ {c}
       PROVE  \E i, j \in DOMAIN Listed : i < j /\ Listed[i] = c /\ Listed[j] = d
  <2>1. PICK a \in A : src[a] \in 1..Len(o) /\ o[src[a]] = d  BY <1>6
  <2>2. a <= m /\ a \in 1..n /\ a # m  BY <1>7, <2>1
  <2>3. a < m  BY <2>2, <1>4, <1>8
  <2>4. src[a] <= src[m]  BY <1>3, <1>8, <2>2, <2>3 DEF Source, n
  <2>5. src[a] < src[m]  BY <1>4, <1>8, <2>1, <2>4
  <2>6. PICK i, j \in 1..Len(Listed) : i < j /\ Listed[i] = c /\ Listed[j] = d
    <3> HIDE DEF n, A
    <3>1. \E i, j \in 1..Len(Listed) : i < j /\ Listed[i] = o[src[m]] /\ Listed[j] = o[src[a]]
      BY <1>1, <1>8, <2>1, <2>5, Zenon
    <3> QED BY <2>1, <3>1
  <2>7. DOMAIN Listed = 1..Len(Listed)
    <3>1. Listed \in Seq(Recorded)  BY <1>1 DEF Lists
    <3> QED BY <3>1
  <2> QED BY <2>6, <2>7
<1>11. Original(ToSet(o), k) = rec[c].was[k]  BY <1>1, <1>9, <1>10, OriginalIs
<1>12. Value(es[m], k) = Seen(rec[c].was[k])  BY <1>1, <1>8 DEF Shaped
<1>13. Original(ToSet(o), k) \in {Value(es[m], k)} \cup Large  BY <1>11, <1>12 DEF Seen
<1>14. \A j \in 1..n : j > m => k \notin WritePaths(es[j])  BY <1>4, <1>7, <1>8
<1>15. ToBe(file, es, Original(ToSet(o), k), k)  BY <1>4, <1>8, <1>13, <1>14 DEF ToBe
<1> QED BY <1>15 DEF es

\* Every step of it brings the rest of it nearer.
LEMMA WillBeKeeps ==
    ASSUME IInv, Step
    PROVE  WillBe'
<1>1. /\ TypeOK /\ WillBe /\ Planned /\ plan \in Plan /\ plan.todo \in Seq(Entry) /\ file \in Tree
  BY DEF IInv, TypeOK, Plan
<1>2. ASSUME pc' # "apply" PROVE WillBe'  BY <1>2 DEF WillBe
<1>4. /\ \A k : Original(plan.ids, k)' = OriginalOf(file', rec', Listed', plan'.ids, k)
      /\ \A k : Touching(plan.ids, k)' = {c \in plan'.ids : \E e \in rec'[c].files : k \in WritePaths(e)}
  BY Zenon DEF Original, OriginalOf, Touching
<1>5. ASSUME UNCHANGED <<rec, journal>>, NEW ids, NEW k, plan'.ids = ids, Touching(ids, k) # {}
      PROVE  Original(plan.ids, k)' = Original(ids, k)
  <2>1. Listed' = Listed  BY <1>5 DEF Listed
  <2>2. OriginalOf(file', rec, Listed, ids, k) = OriginalOf(file, rec, Listed, ids, k)
    BY <1>5 DEF OriginalOf, Touching
  <2> QED BY <1>4, <1>5, <2>1, <2>2, OriginalDef
<1>6. ASSUME UNCHANGED <<rec, journal>>, NEW ids, plan'.ids = ids,
             pc' = "apply" /\ plan'.clean /\ ~plan'.single /\ ~plan'.dirty =>
                 \A k \in File : Touching(ids, k) # {} => ToBe(file', plan'.todo, Original(ids, k), k)
      PROVE  WillBe'
  <2>1. SUFFICES ASSUME pc' = "apply", plan'.clean, ~plan'.single, ~plan'.dirty,
                        NEW k \in File, Touching(plan.ids, k)' # {}
                 PROVE  ToBe(file', plan'.todo, Original(plan.ids, k)', k)
    BY DEF WillBe
  <2>2. Touching(ids, k) # {}  BY <1>4, <1>6, <2>1 DEF Touching
  <2> QED BY <1>5, <1>6, <2>1, <2>2
<1>7. ASSUME NEW atomic \in BOOLEAN, NEW single \in BOOLEAN, NEW ids, NEW walk,
             Begun(atomic, single, ids, walk)
      PROVE  WillBe'
  <2>1. /\ plan'.ids = ids /\ plan'.clean = walk.clean /\ plan'.single = single
        /\ plan'.todo = walk.todo /\ file' = file /\ UNCHANGED <<rec, journal>>
        /\ single \/ \E o : ids = ToSet(o) /\ Starts(o, atomic, walk)
    BY <1>7 DEF Begun, Begin, callVars, diskVars
  <2>2. ASSUME walk.clean, ~single, NEW k \in File, Touching(ids, k) # {}
        PROVE  ToBe(file, walk.todo, Original(ids, k), k)
    <3>1. PICK o : ids = ToSet(o) /\ Starts(o, atomic, walk)  BY <2>1, <2>2
    <3>2. Touching(ToSet(o), k) # {}  BY <2>2, <3>1 DEF Touching
    <3>3. ToBe(file, walk.todo, Original(ToSet(o), k), k)  BY <2>2, <3>1, <3>2, StartsWillBe
    <3>4. Original(ToSet(o), k) = Original(ids, k)  BY <3>1, OriginalDef
    <3> QED BY <3>3, <3>4
  <2> QED BY <1>6, <2>1, <2>2
<1>8. CASE Restore
  <2> DEFINE e == Head(plan.todo)
             t == Tail(plan.todo)
             ids == plan.ids
  <2>1. /\ pc = "apply" /\ plan.todo # <<>> /\ plan' = [plan EXCEPT !.todo = Tail(@)]
        /\ file' = Undone(e, file) /\ UNCHANGED <<rec, journal>>
    BY <1>8 DEF Restore, callVars, diskVars
  <2>2. /\ plan'.ids = ids /\ plan'.clean = plan.clean /\ plan'.single = plan.single
        /\ plan'.dirty = plan.dirty /\ plan'.todo = t
    BY <1>1, <2>1 DEF Plan
  <2>3. /\ e \in Entry /\ 1 \in DOMAIN plan.todo /\ e = plan.todo[1]
        /\ DOMAIN plan.todo \subseteq Nat /\ \A i \in DOMAIN t : i \in Nat /\ i >= 1
        /\ \A i \in DOMAIN t : i + 1 \in DOMAIN plan.todo /\ t[i] = plan.todo[i + 1]
        /\ \A i \in DOMAIN plan.todo : i = 1 \/ i - 1 \in DOMAIN t
    BY <1>1, <2>1
  <2> HIDE DEF e, t
  <2>4. \A k \in File : file'[k] = IF k \in WritePaths(e) THEN Value(e, k) ELSE file[k]
    BY <1>1, <2>1, <2>3, UndoneFacts
  <2>5. ASSUME NEW k \in File, NEW x, ToBe(file, plan.todo, x, k) PROVE ToBe(file', t, x, k)
    <3>1. CASE \E i \in DOMAIN plan.todo :
                   /\ k \in WritePaths(plan.todo[i])
                   /\ \A j \in DOMAIN plan.todo : j > i => k \notin WritePaths(plan.todo[j])
                   /\ x \in {Value(plan.todo[i], k)} \cup Large
      <4>1. PICK i \in DOMAIN plan.todo :
                   /\ k \in WritePaths(plan.todo[i])
                   /\ \A j \in DOMAIN plan.todo : j > i => k \notin WritePaths(plan.todo[j])
                   /\ x \in {Value(plan.todo[i], k)} \cup Large
        BY <3>1
      <4>2. CASE i = 1
        <5>1. \A j \in DOMAIN t : k \notin WritePaths(t[j])
          <6> SUFFICES ASSUME NEW j \in DOMAIN t PROVE k \notin WritePaths(t[j])  OBVIOUS
          <6>1. j \in Nat /\ j + 1 \in DOMAIN plan.todo /\ t[j] = plan.todo[j + 1] /\ j >= 1  BY <2>3
          <6>2. j + 1 > 1  BY <6>1
          <6> QED BY <4>1, <4>2, <6>1, <6>2
        <5>2. file'[k] = Value(e, k)  BY <2>3, <2>4, <4>1, <4>2
        <5> QED BY <2>3, <4>1, <4>2, <5>1, <5>2 DEF ToBe
      <4>3. CASE i # 1
        <5>1. i - 1 \in DOMAIN t /\ t[i - 1] = plan.todo[i]
          <6>1. i - 1 \in DOMAIN t /\ i \in Nat  BY <2>3, <4>3
          <6> QED BY <2>3, <6>1
        <5>2. \A j \in DOMAIN t : j > i - 1 => k \notin WritePaths(t[j])
          <6> SUFFICES ASSUME NEW j \in DOMAIN t, j > i - 1 PROVE k \notin WritePaths(t[j])
            OBVIOUS
          <6>1. j \in Nat /\ i \in Nat /\ j + 1 \in DOMAIN plan.todo /\ t[j] = plan.todo[j + 1]
            BY <2>3
          <6>2. j + 1 > i  BY <6>1
          <6> QED BY <4>1, <6>1, <6>2
        <5> QED BY <4>1, <5>1, <5>2 DEF ToBe
      <4> QED BY <4>2, <4>3
    <3>2. CASE /\ \A i \in DOMAIN plan.todo : k \notin WritePaths(plan.todo[i])
               /\ x \in {file[k]} \cup Large
      BY <2>3, <2>4, <3>2 DEF ToBe
    <3> QED BY <2>5, <3>1, <3>2 DEF ToBe
  <2>6. plan.clean /\ ~plan.single /\ ~plan.dirty =>
            \A k \in File : Touching(ids, k) # {} => ToBe(file, plan.todo, Original(ids, k), k)
    BY <1>1, <2>1 DEF WillBe
  <2> QED BY <1>6, <2>1, <2>2, <2>5, <2>6
<1>9. ASSUME NEW e \in Edit, NEW k \in File, UserEdit(e, k) PROVE WillBe'
  <2>1. CASE pc = "apply"
    <3>1. plan # NoPlan  BY <1>1, <2>1 DEF Planned, Restoring, NoPlan
    <3>2. plan'.dirty = TRUE  BY <1>1, <1>9, <3>1 DEF UserEdit, Plan
    <3> QED BY <3>2 DEF WillBe
  <2>2. CASE pc # "apply"  BY <1>2, <1>9, <2>2 DEF UserEdit
  <2> QED BY <2>1, <2>2
<1>10. CASE UNCHANGED vars
  <2>1. UNCHANGED <<pc, file, plan, rec, journal>>  BY <1>10 DEF vars, callVars, diskVars
  <2> QED BY <1>1, <1>6, <2>1 DEF WillBe
<1>11. ASSUME NEW c \in Call,
              Track(c) \/ Mutate(c) \/ Capture(c) \/ Protect(c) \/ Journal(c) \/ Expire(c)
       PROVE  WillBe'
  BY <1>2, <1>11 DEF Track, Mutate, Capture, Protect, Journal, Expire
<1>12. ASSUME CallFails \/ Prune \/ NothingToPrune \/ Rewrite \/ Sweep \/ GiveUp PROVE WillBe'
  BY <1>2, <1>12 DEF CallFails, Prune, NothingToPrune, Rewrite, Sweep, GiveUp
<1>13. ASSUME NEW row, Answered(row) PROVE WillBe'
  BY <1>2, <1>13 DEF Answered, Refused, Refuse
<1>14. ASSUME RestoreFails \/ PutBack \/ \E refreshed \in BOOLEAN : Complete(refreshed) PROVE WillBe'
  BY <1>2, <1>14 DEF RestoreFails, PutBack, Complete
<1>15. ASSUME Crash \/ CrashInAppend \/ CrashInRewrite \/ Open PROVE WillBe'
  BY <1>2, <1>15 DEF Crash, CrashInAppend, CrashInRewrite, Die, Open
<1> QED
  BY <1>7, <1>8, <1>9, <1>10, <1>11, <1>12, <1>13, <1>14, <1>15, Zenon DEF Step

-----------------------------------------------------------------------------
(* The theorems. *)

\* Every step keeps the invariant.
LEMMA IInvKeeps == IInv /\ [Next]_vars => IInv'
<1> SUFFICES ASSUME IInv, [Next]_vars PROVE IInv'  OBVIOUS
<1>1. Step  BY NextStep
<1>2. TypeOK' /\ Journaled' /\ Fresh' /\ Shaped' /\ InCall'
  BY <1>1, TypeKeeps, JournalKeeps, FreshKeeps, ShapedKeeps, InCallKeeps
<1>3. RecordsRestorable' /\ Quiet' /\ Planned' /\ BackedUp' /\ WillBe'
  BY <1>1, RestorableKeeps, QuietKeeps, PlannedKeeps, BackedUpKeeps, WillBeKeeps
<1> QED BY <1>2, <1>3 DEF IInv

\* The invariant holds of every reachable state.
THEOREM Inductive == Spec => []IInv
BY InitIInv, IInvKeeps, PTL DEF Spec

\* The state of the store has its types.
THEOREM TypeCorrect == Spec => []TypeOK
<1>1. IInv => TypeOK  BY DEF IInv
<1> QED BY <1>1, Inductive, PTL

\* A checkpoint that is listed and within the retention period keeps its refs and every blob
\* a rollback needs, whatever calls, cleanups, rollbacks and deaths of the process there are.
THEOREM Restorable == Spec => []RecordsRestorable
<1>1. IInv => RecordsRestorable  BY DEF IInv
<1> QED BY <1>1, Inductive, PTL

\* A rollback never writes a file the user edited since.
THEOREM EditsSurvive == Spec => UserEditsSurvive
<1> DEFINE A == \A k \in quiet :
                    pc \in {"apply", "undoing"} /\ edits' = edits => file'[k] = file[k]
<1>1. IInv /\ [Next]_vars => A
  <2> SUFFICES ASSUME IInv, [Next]_vars, NEW k \in quiet, Restoring, edits' = edits
               PROVE  file'[k] = file[k]
    BY DEF Restoring
  <2>1. /\ Step /\ TypeOK /\ Planned /\ k \in File /\ file \in Tree
        /\ plan \in Plan /\ plan.todo \in Seq(Entry)
    BY NextStep DEF IInv, TypeOK, Plan
  <2>2. ASSUME plan.todo # <<>>
        PROVE  Head(plan.todo) \in Entry /\ k \notin WritePaths(Head(plan.todo))
    <3>1. 1 \in DOMAIN plan.todo /\ Head(plan.todo) = plan.todo[1] /\ Head(plan.todo) \in Entry
      BY <2>1, <2>2
    <3> QED BY <2>1, <3>1 DEF Planned
  <2>3. CASE Restore
    <3>1. plan.todo # <<>> /\ file' = Undone(Head(plan.todo), file)  BY <2>3 DEF Restore
    <3> QED BY <2>1, <2>2, <3>1, UndoneFacts
  <2>4. CASE RestoreFails
    <3>1. k # Head(plan.todo).path  BY <2>2, <2>4, WritePathsType DEF RestoreFails
    <3> QED BY <2>1, <2>4, <3>1 DEF RestoreFails, Tree
  <2>5. CASE PutBack
    <3>1. k \notin plan.left  BY <2>1 DEF Planned
    <3> QED BY <2>1, <2>5, <3>1 DEF PutBack, Tree
  <2>6. ASSUME NEW e \in Edit, NEW j \in File, UserEdit(e, j) PROVE FALSE
    BY <2>6 DEF UserEdit
  <2>7. ASSUME NEW c \in Call, Mutate(c) PROVE FALSE
    BY <2>7 DEF Mutate, Restoring
  <2>8. ASSUME NEW c \in Call, Track(c) \/ Capture(c) \/ Protect(c) \/ Journal(c) \/ Expire(c)
        PROVE  file' = file
    BY <2>8 DEF Track, Capture, Protect, Journal, Expire
  <2>9. ASSUME CallFails \/ Prune \/ NothingToPrune \/ Rewrite \/ Sweep \/ GiveUp PROVE file' = file
    BY <2>9 DEF CallFails, Prune, NothingToPrune, Rewrite, Sweep, GiveUp
  <2>10. ASSUME NEW row, Answered(row) PROVE file' = file
    BY <2>10 DEF Answered, Refused, Refuse
  <2>11. ASSUME NEW atomic, NEW single, NEW ids, NEW walk, Begun(atomic, single, ids, walk)
         PROVE  file' = file
    BY <2>11 DEF Begun, Begin
  <2>12. ASSUME NEW refreshed \in BOOLEAN, Complete(refreshed) PROVE file' = file
    BY <2>12 DEF Complete
  <2>13. ASSUME Crash \/ CrashInAppend \/ CrashInRewrite \/ Open \/ UNCHANGED vars PROVE file' = file
    BY <2>13 DEF Crash, CrashInAppend, CrashInRewrite, Die, Open, vars
  <2> QED
    BY <2>1, <2>3, <2>4, <2>5, <2>6, <2>7, <2>8, <2>9, <2>10, <2>11, <2>12, <2>13, Zenon DEF Step
<1>2. IInv /\ [Next]_vars => [A]_vars  BY <1>1
<1> QED BY <1>2, Inductive, PTL DEF Spec, UserEditsSurvive

\* An Atomic rollback that failed and whose backups went back leaves the worktree as it was.
THEOREM LeavesNoTrace == Spec => AtomicLeavesNoTrace
<1>1. IInv /\ [Next]_vars
          => (pc = "undoing" /\ pc' = "idle" /\ ~plan.failed /\ ~plan.dirty => file = plan.was)
  <2> SUFFICES ASSUME IInv, [Next]_vars, pc = "undoing", pc' = "idle", ~plan.failed, ~plan.dirty
               PROVE  file = plan.was
    OBVIOUS
  <2>1. Step /\ BackedUp /\ file \in Tree /\ plan.was \in Tree
    BY NextStep DEF IInv, TypeOK, Plan
  <2>2. plan.left = {}
    <3>1. GiveUp
      BY <2>1 DEF Step, vars, Track, Mutate, Capture, Protect, Journal, Expire, CallFails, Prune,
         NothingToPrune, Rewrite, Sweep, Answered, Refused, Refuse, Begun, Begin, Restore,
         RestoreFails, PutBack, Complete, UserEdit, Crash, Die, CrashInAppend, CrashInRewrite, Open
    <3> QED BY <3>1 DEF GiveUp
  <2>3. \A k \in File : file[k] = plan.was[k]  BY <2>1, <2>2 DEF BackedUp
  <2> QED BY <2>1, <2>3 DEF Tree
<1> QED BY <1>1, Inductive, PTL DEF Spec, AtomicLeavesNoTrace

\* A rollback that reports no conflict gives every file back what it was before the first of
\* the calls that changed it, files above the size limit apart.
THEOREM UndoRestores == Spec => CleanUndoRestores
<1>1. IInv /\ [Next]_vars
          => ((\E r \in BOOLEAN : Complete(r) /\ Clean(r)) /\ ~plan.single /\ ~plan.dirty =>
                 \A k \in File : Original(plan.ids, k) \in {file[k]} \cup Large)
  <2> SUFFICES ASSUME IInv, NEW r \in BOOLEAN, Complete(r), Clean(r), ~plan.single, ~plan.dirty,
                      NEW k \in File
               PROVE  Original(plan.ids, k) \in {file[k]} \cup Large
    OBVIOUS
  <2>1. pc = "apply" /\ plan.todo = <<>> /\ plan.clean /\ WillBe
    BY DEF Complete, Clean, IInv
  <2>2. CASE Touching(plan.ids, k) = {}
    BY <2>2 DEF Original, Touching
  <2>3. CASE Touching(plan.ids, k) # {}
    <3>1. ToBe(file, plan.todo, Original(plan.ids, k), k)  BY <2>1, <2>3 DEF WillBe
    <3>2. DOMAIN plan.todo = {}  BY <2>1
    <3> QED BY <3>1, <3>2 DEF ToBe
  <2> QED BY <2>2, <2>3
<1> QED BY <1>1, Inductive, PTL DEF Spec, CleanUndoRestores

=============================================================================
