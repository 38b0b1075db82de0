----------------------------- MODULE Checkpoint -----------------------------
(***************************************************************************)
(* CheckpointStore of squeezy-vcs: the shadow-repo snapshots around every  *)
(* mutating tool call, the JSONL journal of checkpoints and rollbacks,     *)
(* undo and revert with their conflict gate, and the retention cleanup.    *)
(*                                                                         *)
(* One process owns the store and makes one mutating call at a time (the   *)
(* agent never runs two in parallel).  The user edits the same files at    *)
(* any moment, the disk may refuse a write, and the process may die        *)
(* between any two steps.  A content stands for its bytes, type and mode;  *)
(* hardlink groups are left out.                                           *)
(***************************************************************************)
EXTENDS Naturals, Sequences, SequencesExt, FiniteSets, Subsequence

CONSTANTS File,          \* the workspace's tracked paths, in sort order
          Call,          \* mutating tool calls, each made once
          Edit,          \* the user's edits, each made once
          GroupOf,       \* GroupOf[c]: the turn of call c
          Present,       \* the files that exist at the start
          Large,         \* the contents above checkpoint_max_file_bytes
          Orig, Absent, None,
          MaxRollbacks,  \* bound: rollbacks and single-file restores
          MaxCrashes     \* bound: process deaths

Content == Call \cup Edit \cup {Orig}

ASSUME CheckpointAssumption ==
    /\ IsFiniteSet(File) /\ File \subseteq Nat /\ Present \subseteq File
    /\ DOMAIN GroupOf = Call
    /\ Large \subseteq Content
    /\ {Orig, Absent, None} \cap (Call \cup Edit) = {} /\ Call \cap Edit = {}
    /\ Orig # Absent /\ None \notin File
    /\ MaxRollbacks \in Nat /\ MaxCrashes \in Nat

VARIABLES
    file,       \* the worktree
    pc,         \* what the store is doing
    cur,        \* the call in progress, or None
    before,     \* the snapshot cur took before its edit
    made,       \* the calls made so far
    rec,        \* rec[c]: the CheckpointRecord of call c
    journal,    \* journal.jsonl, a sequence of rows
    refs,       \* the records whose two protected refs exist
    blobs,      \* the contents under raw-blobs/
    old,        \* the records older than the retention cutoff
    plan,       \* the rollback in progress
    edits,      \* the user's edits made so far
    quiet,      \* files last changed by the user while the store was idle
    crashes, rollbacks

callVars == <<cur, before, made, rec>>
diskVars == <<journal, refs, blobs>>
userVars == <<edits, quiet>>
bounds == <<crashes, rollbacks>>
vars == <<file, pc, callVars, diskVars, old, plan, userVars, bounds>>

Tree == [File -> Content \cup {Absent}]
NoFiles == [k \in File |-> Absent]

\* A CheckpointFile: the content at `path` (`from`, the source, of a rename) before.
Entry == [path : File, from : File \cup {None},
          before : Content \cup {Absent}, after : Content \cup {Absent}]

\* `was` is the worktree the record describes, for the properties only.
Record == [files : SUBSET Entry, was : Tree]
NoRecord == [files |-> {}, was |-> NoFiles]

\* A journal line: a checkpoint, a rollback (clean: no conflicts), a line without its
\* newline, a malformed line.
Row == [kind : {"checkpoint", "rollback", "torn", "bad"}, ids : SUBSET Call, clean : BOOLEAN]

\* todo: what is left to restore, newest record first; left: backups to put back.
Plan == [atomic : BOOLEAN, single : BOOLEAN, ids : SUBSET Call, clean : BOOLEAN,
         todo : Seq(Entry), backup : SUBSET File, left : SUBSET File,
         was : Tree, dirty : BOOLEAN, failed : BOOLEAN]
NoPlan == [atomic |-> FALSE, single |-> FALSE, ids |-> {}, clean |-> FALSE,
           todo |-> <<>>, backup |-> {}, left |-> {}, was |-> NoFiles,
           dirty |-> FALSE, failed |-> FALSE]

PC == {"down", "idle", "call", "captured", "protected", "cleanup", "rewrite", "sweep",
       "apply", "undoing"}

TypeOK ==
    /\ file \in Tree
    /\ pc \in PC
    /\ cur \in Call \cup {None}
    /\ before \in Tree
    /\ made \subseteq Call
    /\ rec \in [Call -> Record]
    /\ journal \in Seq(Row)
    /\ refs \subseteq Call
    /\ blobs \subseteq Content
    /\ old \subseteq Call
    /\ plan \in Plan
    /\ edits \subseteq Edit
    /\ quiet \subseteq File
    /\ crashes \in 0..MaxCrashes
    /\ rollbacks \in 0..MaxRollbacks

Init ==
    /\ file = [k \in File |-> IF k \in Present THEN Orig ELSE Absent]
    /\ pc = "down"
    /\ cur = None
    /\ before = NoFiles
    /\ made = {}
    /\ rec = [c \in Call |-> NoRecord]
    /\ journal = <<>>
    /\ refs = {}
    /\ blobs = {}
    /\ old = {}
    /\ plan = NoPlan
    /\ edits = {}
    /\ quiet = {}
    /\ crashes = 0
    /\ rollbacks = 0

-----------------------------------------------------------------------------
(* The journal.                                                            *)

\* append_journal: one write at the end of the file, whatever the file ends with.
AppendRow(row) ==
    IF journal # <<>> /\ Last(journal).kind = "torn"
    THEN [journal EXCEPT ![Len(journal)] =
             [@ EXCEPT !.kind = IF row.kind = "torn" THEN "torn" ELSE "bad"]]
    ELSE Append(journal, row)

CheckpointRow(c) == [kind |-> "checkpoint", ids |-> {c}, clean |-> TRUE]
RollbackRow(ids, clean) == [kind |-> "rollback", ids |-> ids, clean |-> clean]
Torn == [kind |-> "torn", ids |-> {}, clean |-> FALSE]

\* read_journal: the checkpoints in file order, and the ids consumed by a rollback that
\* met no conflict.
IsCheckpoint(row) == row.kind = "checkpoint"
Listed == LET rows == Only(journal, {row \in Row : IsCheckpoint(row)})
          IN [i \in DOMAIN rows |-> CHOOSE c \in rows[i].ids : TRUE]
Recorded == UNION {journal[i].ids : i \in {j \in DOMAIN journal : IsCheckpoint(journal[j])}}
Consumed == UNION {journal[i].ids : i \in {j \in DOMAIN journal :
                                             journal[j].kind = "rollback" /\ journal[j].clean}}

-----------------------------------------------------------------------------
(* Checkpoints around a tool call.                                         *)

\* What a snapshot sees of a path: files above the size limit are not in its tree.
Seen(x) == IF x \in Large THEN Absent ELSE x

\* track_tree writes the raw bytes of every file it sees.
Tracked == blobs \cup ({Seen(file[k]) : k \in File} \ {Absent})

\* The call takes its snapshot.
Track(c) ==
    /\ pc = "idle"
    /\ c \notin made
    /\ cur' = c
    /\ made' = made \cup {c}
    /\ before' = file
    /\ blobs' = Tracked
    /\ pc' = "call"
    /\ UNCHANGED <<file, rec, journal, refs, old, plan, userVars, bounds>>

\* The tool writes, removes or moves one file.
Mutate(c) ==
    /\ pc = "call" /\ cur = c
    /\ \/ \E k \in File, x \in {c, Absent} :
             /\ file[k] # x
             /\ file' = [file EXCEPT ![k] = x]
             /\ quiet' = quiet \ {k}
       \/ \E j, k \in File :
             /\ file[j] # Absent /\ file[k] = Absent
             /\ file' = [file EXCEPT ![j] = Absent, ![k] = file[j]]
             /\ quiet' = quiet \ {j, k}
    /\ UNCHANGED <<pc, callVars, diskVars, old, plan, edits, bounds>>

\* git diff --find-renames pairs a path that went with one of the same content that came.
Renames(a) ==
    LET pair == {p \in File \X File :
                    /\ Seen(before[p[1]]) = a[p[2]] /\ a[p[2]] # Absent
                    /\ a[p[1]] = Absent /\ Seen(before[p[2]]) = Absent}
        matching(m) == \A p, q \in m : p # q => p[1] # q[1] /\ p[2] # q[2]
    IN {m \in SUBSET pair : matching(m) /\ \A p \in pair \ m : ~matching(m \cup {p})}

\* checkpoint_files: one entry per changed path, a rename being one entry; paths that
\* are large now are skipped.
Entries(m) ==
    LET a == [k \in File |-> Seen(file[k])]
        changed == {k \in File : Seen(before[k]) # a[k] /\ file[k] \notin Large}
        entry(k, j, x) == [path |-> k, from |-> j, before |-> Seen(x), after |-> a[k]]
    IN {entry(p[2], p[1], before[p[1]]) : p \in m}
         \cup {entry(k, None, before[k]) : k \in changed \ UNION {{p[1], p[2]} : p \in m}}

\* create_checkpoint up to the record: the tree is captured again and compared.
Capture(c) ==
    /\ pc = "call" /\ cur = c
    /\ blobs' = Tracked
    /\ IF file = before
       THEN pc' = "idle" /\ cur' = None /\ before' = NoFiles /\ UNCHANGED rec
       ELSE /\ \E m \in Renames([k \in File |-> Seen(file[k])]) :
                  rec' = [rec EXCEPT ![c] = [files |-> Entries(m), was |-> before]]
            /\ pc' = "captured"
            /\ UNCHANGED <<cur, before>>
    /\ UNCHANGED <<file, made, journal, refs, old, plan, userVars, bounds>>

\* protect_checkpoint_trees
Protect(c) ==
    /\ pc = "captured" /\ cur = c
    /\ refs' = refs \cup {c}
    /\ pc' = "protected"
    /\ UNCHANGED <<file, callVars, journal, blobs, old, plan, userVars, bounds>>

EndCall == cur' = None /\ before' = NoFiles /\ UNCHANGED <<made, rec>>

\* The record goes into the journal; the retention cleanup runs when it is due.
Journal(c) ==
    /\ pc = "protected" /\ cur = c
    /\ journal' = AppendRow(CheckpointRow(c))
    /\ pc' \in {"idle", "cleanup"}
    /\ EndCall
    /\ UNCHANGED <<file, refs, blobs, old, plan, userVars, bounds>>

\* A git command or a write fails, or the call's future is dropped: no record.
CallFails ==
    /\ pc \in {"call", "captured", "protected"}
    /\ pc' = "idle"
    /\ EndCall
    /\ UNCHANGED <<file, diskVars, old, plan, userVars, bounds>>

-----------------------------------------------------------------------------
(* cleanup_old_checkpoints.                                                *)

Expired == Recorded \cap old

\* The refs of the expired records go; one that git refuses keeps its row.
Prune ==
    /\ pc = "cleanup"
    /\ Expired # {}
    /\ \E gone \in SUBSET Expired : refs' = refs \ gone
    /\ pc' = "rewrite"
    /\ UNCHANGED <<file, callVars, journal, blobs, old, plan, userVars, bounds>>

\* Nothing has expired: only the orphan blobs are swept.
NothingToPrune ==
    /\ pc = "cleanup"
    /\ Expired = {}
    /\ pc' = "sweep"
    /\ UNCHANGED <<file, callVars, diskVars, old, plan, userVars, bounds>>

\* The rows kept by a cleanup: the checkpoints whose refs it did not delete, then the
\* rollbacks that name one of them.
Kept ==
    LET stays(row) == IsCheckpoint(row) /\ ~(row.ids \subseteq old \ refs)
        ids == UNION {journal[i].ids : i \in {j \in DOMAIN journal : stays(journal[j])}}
        named(row) == row.kind = "rollback" /\ row.ids \cap ids # {}
    IN Only(journal, {row \in Row : stays(row)}) \o Only(journal, {row \in Row : named(row)})

\* rewrite_checkpoint_journal_with_rollbacks: the file is truncated and written again.
Rewrite ==
    /\ pc = "rewrite"
    /\ journal' = Kept
    /\ pc' = "sweep"
    /\ UNCHANGED <<file, callVars, refs, blobs, old, plan, userVars, bounds>>

\* Mutant: only the contents a rollback compares with are kept.
AfterOnly(e) == {e.after}

\* The blobs a record needs.
Needs(e) == {e.before, e.after}

\* prune_orphan_raw_blobs
Sweep ==
    /\ pc = "sweep"
    /\ blobs' = blobs \cap UNION {Needs(e) : e \in UNION {rec[c].files : c \in Recorded}}
    /\ pc' = "idle"
    /\ UNCHANGED <<file, callVars, journal, refs, old, plan, userVars, bounds>>

\* A record is found to be older than the retention cutoff.
Expire(c) ==
    /\ pc = "cleanup"
    /\ c \in Recorded \ old
    /\ old' = old \cup {c}
    /\ UNCHANGED <<file, pc, callVars, diskVars, plan, userVars, bounds>>

-----------------------------------------------------------------------------
(* Rollback.                                                               *)

\* Mutant: the current content is not compared with the recorded one.
Unchecked(e, tree) == FALSE

\* rollback_conflict: the path no longer holds what the call left there.
Changed(e, tree) == tree[e.path] # e.after

\* preflight_conflicts for one entry: the above, the bytes to restore are gone, or the
\* source of a rename exists again.
Conflicting(e, tree) ==
    \/ Changed(e, tree)
    \/ e.before \notin blobs \cup {Absent}
    \/ e.from # None /\ tree[e.from] # Absent

\* The tree after one entry is undone: what is large or was not there is removed.
Undone(e, tree) ==
    IF e.from = None THEN [tree EXCEPT ![e.path] = e.before]
    ELSE [tree EXCEPT ![e.path] = Absent, ![e.from] = e.before]

\* The files of a record are sorted by path.
ByPath(es) ==
    LET places == 1..Cardinality(es)
    IN CHOOSE s \in [places -> es] : \A i, j \in places : i < j => s[i].path < s[j].path

\* The preflight walks the entries, newest record first, over virtual states.
Walk(entries) ==
    LET walk[i \in 0..Len(entries)] ==
            IF i = 0 THEN [tree |-> file, todo |-> <<>>, clean |-> TRUE]
            ELSE LET e == entries[i]
                     s == walk[i - 1]
                 IN IF Conflicting(e, s.tree) THEN [s EXCEPT !.clean = FALSE]
                    ELSE [s EXCEPT !.tree = Undone(e, @), !.todo = Append(@, e)]
    IN walk[Len(entries)]

\* selected_rollback_records: not consumed yet, newest first.
Selected(ids) == Reverse(Only(Listed, ids \ Consumed))
Latest == LET rows == Only(Listed, Call \ Consumed)
          IN IF rows = <<>> THEN {} ELSE {Last(rows)}

Group(g) == {c \in Call : GroupOf[c] = g}

\* Mutant: an absent source is taken for a path.
BothPaths(e) == {e.path, e.from}

\* Mutant: the source of a reversed rename is not backed up.
PathOnly(e) == {e.path}

\* rollback_write_paths
WritePaths(e) == {e.path, e.from} \ {None}

\* What is to be restored, with backups in Atomic mode.
Begin(atomic, single, ids, walk) ==
    /\ plan' = [atomic |-> atomic, single |-> single, ids |-> ids, clean |-> walk.clean,
                todo |-> walk.todo,
                backup |-> IF atomic THEN UNION {WritePaths(walk.todo[i]) : i \in DOMAIN walk.todo}
                           ELSE {},
                left |-> {}, was |-> file, dirty |-> FALSE, failed |-> FALSE]
    /\ pc' = "apply"
    /\ rollbacks' = rollbacks + 1
    /\ UNCHANGED <<file, callVars, diskVars, old, userVars, crashes>>

Refuse(row) ==
    /\ journal' = row
    /\ rollbacks' = rollbacks + 1
    /\ UNCHANGED <<file, pc, callVars, refs, blobs, old, plan, userVars, crashes>>

\* rollback, up to its first write.  An Atomic one gives up on any conflict; one whose
\* files were all too large is journaled as done; the file-system preflight may turn
\* further entries into conflicts.
Rollback(atomic, target) ==
    /\ pc = "idle"
    /\ rollbacks < MaxRollbacks
    /\ LET order == Selected(target)
           ids == ToSet(order)
           entries == FlattenSeq([i \in DOMAIN order |-> ByPath(rec[order[i]].files)])
           walk == Walk(entries)
       IN /\ order # <<>>
          /\ \/ /\ atomic /\ ~walk.clean
                /\ Refuse(AppendRow(RollbackRow(ids, FALSE)))
             \/ /\ entries = <<>>
                /\ Refuse(AppendRow(RollbackRow(ids, TRUE)))
             \/ /\ atomic /\ walk.todo # <<>>
                /\ Refuse(AppendRow(RollbackRow(ids, FALSE)))
             \/ /\ entries # <<>>
                /\ atomic => walk.clean
                /\ Begin(atomic, FALSE, ids, walk)
             \/ /\ ~atomic
                /\ \E i \in DOMAIN walk.todo :
                      Begin(FALSE, FALSE, ids,
                            [walk EXCEPT !.todo = RemoveAt(@, i), !.clean = FALSE])

\* restore_checkpoint_file: one file of one record, consumed or not; never journaled.
RestoreFile(atomic, c, k) ==
    /\ pc = "idle"
    /\ rollbacks < MaxRollbacks
    /\ c \in Recorded
    /\ LET walk == Walk(ByPath({e \in rec[c].files : k \in WritePaths(e)}))
       IN /\ walk.todo # <<>>
          /\ atomic => walk.clean
          /\ Begin(atomic, TRUE, {c}, walk)

\* rollback_record for the next entry.
Restore ==
    /\ pc = "apply"
    /\ plan.todo # <<>>
    /\ file' = Undone(Head(plan.todo), file)
    /\ plan' = [plan EXCEPT !.todo = Tail(@)]
    /\ quiet' = quiet \ WritePaths(Head(plan.todo))
    /\ UNCHANGED <<pc, callVars, diskVars, old, edits, bounds>>

\* A write fails (the new path of a rename may be gone already): Atomic puts the backups
\* back, BestEffort returns the error as it is.
RestoreFails ==
    /\ pc = "apply"
    /\ plan.todo # <<>>
    /\ LET e == Head(plan.todo)
       IN \/ UNCHANGED <<file, quiet>>
          \/ /\ e.from # None
             /\ file' = [file EXCEPT ![e.path] = Absent]
             /\ quiet' = quiet \ {e.path}
    /\ IF plan.atomic
       THEN pc' = "undoing" /\ plan' = [plan EXCEPT !.left = plan.backup]
       ELSE pc' = "idle" /\ plan' = NoPlan
    /\ UNCHANGED <<callVars, diskVars, old, edits, bounds>>

\* restore_rollback_backups, one path at a time, given up at the first error.
PutBack ==
    /\ pc = "undoing"
    /\ \/ \E k \in plan.left :
             /\ file' = [file EXCEPT ![k] = plan.was[k]]
             /\ quiet' = quiet \ {k}
             /\ plan' = [plan EXCEPT !.left = @ \ {k}]
       \/ /\ plan.left # {}
          /\ plan' = [plan EXCEPT !.left = {}, !.failed = TRUE]
          /\ UNCHANGED <<file, quiet>>
    /\ UNCHANGED <<pc, callVars, diskVars, old, edits, bounds>>

GiveUp ==
    /\ pc = "undoing"
    /\ plan.left = {}
    /\ pc' = "idle"
    /\ plan' = NoPlan
    /\ UNCHANGED <<file, callVars, diskVars, old, userVars, bounds>>

\* Mutant: a rollback with conflicts counts as done.
AnyApplied(refreshed) == TRUE

\* A rollback consumes its records when nothing conflicted and the shadow tree was
\* refreshed (a failure there is one more conflict).
Clean(refreshed) == plan.clean /\ refreshed

\* Everything planned is restored: refresh the shadow tree, journal the result.
Complete(refreshed) ==
    /\ pc = "apply"
    /\ plan.todo = <<>>
    /\ blobs' = IF refreshed THEN Tracked ELSE blobs
    /\ journal' = IF plan.single THEN journal
                  ELSE AppendRow(RollbackRow(plan.ids, Clean(refreshed)))
    /\ pc' = "idle"
    /\ plan' = NoPlan
    /\ UNCHANGED <<file, callVars, refs, old, userVars, bounds>>

-----------------------------------------------------------------------------
(* The user, and the process.                                              *)

\* Outside squeezy the user writes or removes a file.
UserEdit(e, k) ==
    /\ e \notin edits
    /\ edits' = edits \cup {e}
    /\ \/ /\ file' = [file EXCEPT ![k] = e]
          /\ quiet' = IF pc \in {"call", "apply", "undoing"} THEN quiet \ {k} ELSE quiet \cup {k}
       \/ /\ file[k] # Absent
          /\ file' = [file EXCEPT ![k] = Absent]
          /\ quiet' = quiet \ {k}
    /\ plan' = [plan EXCEPT !.dirty = plan # NoPlan]
    /\ UNCHANGED <<pc, callVars, diskVars, old, bounds>>

Die ==
    /\ crashes < MaxCrashes
    /\ crashes' = crashes + 1
    /\ pc' = "down"
    /\ plan' = NoPlan
    /\ EndCall
    /\ UNCHANGED <<file, refs, blobs, old, userVars, rollbacks>>

\* The process dies, or is closed, between two steps.
Crash == pc # "down" /\ Die /\ UNCHANGED journal

\* It dies inside an append: the line has no newline.
CrashInAppend ==
    /\ pc = "protected" \/ (pc = "apply" /\ plan.todo = <<>> /\ ~plan.single)
    /\ Die
    /\ journal' = AppendRow(Torn)

\* It dies while it rewrites the truncated journal.
CrashInRewrite ==
    /\ pc = "rewrite"
    /\ Die
    /\ \E n \in 0..Len(Kept) : journal' \in {SubSeq(Kept, 1, n), Append(SubSeq(Kept, 1, n), Torn)}

\* open_with_options
Open ==
    /\ pc = "down"
    /\ pc' \in {"idle", "cleanup"}
    /\ UNCHANGED <<file, callVars, diskVars, old, plan, userVars, bounds>>

Targets == {Latest} \cup {Group(GroupOf[c]) : c \in Call} \cup {{c} : c \in Call}

\* Nothing is asked of the store.
Idle == pc = "idle" /\ UNCHANGED vars

Next ==
    \/ Idle
    \/ \E c \in Call : Track(c) \/ Mutate(c) \/ Capture(c) \/ Protect(c) \/ Journal(c) \/ Expire(c)
    \/ CallFails
    \/ Prune \/ NothingToPrune \/ Rewrite \/ Sweep
    \/ \E atomic \in BOOLEAN, ids \in Targets : Rollback(atomic, ids)
    \/ \E atomic \in BOOLEAN, c \in Call, k \in File : RestoreFile(atomic, c, k)
    \/ Restore \/ RestoreFails \/ PutBack \/ GiveUp
    \/ \E refreshed \in BOOLEAN : Complete(refreshed)
    \/ \E e \in Edit, k \in File : UserEdit(e, k)
    \/ Crash \/ CrashInAppend \/ CrashInRewrite \/ Open

Spec == Init /\ [][Next]_vars

-----------------------------------------------------------------------------
(* Properties.                                                             *)

\* integrity_report, across crashes and cleanups: a checkpoint that is listed and within
\* the retention period has its refs and every blob a rollback needs.
RecordsRestorable ==
    \A c \in Recorded \ old :
        /\ c \in refs
        /\ \A e \in rec[c].files : {e.before, e.after} \subseteq blobs \cup {Absent}

\* A file the user edited between a call and a rollback is never overwritten or removed
\* by the rollback (CHECKPOINTS.md, "reported as a conflict rather than clobbered").
UserEditsSurvive ==
    [][\A k \in quiet :
          pc \in {"apply", "undoing"} /\ edits' = edits => file'[k] = file[k]]_vars

\* An Atomic rollback that failed and put its backups back leaves no trace.
AtomicLeavesNoTrace ==
    [][pc = "undoing" /\ pc' = "idle" /\ ~plan.failed /\ ~plan.dirty => file = plan.was]_vars

\* The content path k had before the first of the calls `ids` that changed it.
Original(ids, k) ==
    LET touching == {c \in ids : \E e \in rec[c].files : k \in WritePaths(e)}
        first == CHOOSE c \in touching :
                    \A d \in touching \ {c} :
                        \E i, j \in DOMAIN Listed : i < j /\ Listed[i] = c /\ Listed[j] = d
    IN IF touching = {} THEN file[k] ELSE rec[first].was[k]

\* After a rollback that reports no conflict, every file of its records is what it was
\* before the first of those calls.  Files above the size limit are not protected.
CleanUndoRestores ==
    [][(\E r \in BOOLEAN : Complete(r) /\ Clean(r)) /\ ~plan.single /\ ~plan.dirty =>
          \A k \in File : Original(plan.ids, k) \in {file[k]} \cup Large]_vars

\* ... and an unprotected file is left alone (CHECKPOINTS.md, "Checkpoint coverage is
\* explicit").
LargeFilesKept ==
    [][\A k \in File : pc = "apply" /\ edits' = edits /\ file'[k] = Absent /\ file[k] # Absent =>
          ~ \E c \in plan.ids : rec[c].was[k] \in Large]_vars

=============================================================================
