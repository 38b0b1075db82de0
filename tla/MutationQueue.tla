---------------------------- MODULE MutationQueue ----------------------------
(***************************************************************************)
(* The per-realpath mutation queue of squeezy-tools                        *)
(* (file_mutation_queue.rs) together with the three tools that use it:     *)
(* apply_patch, write_file and notebook_edit.  A call computes the lock    *)
(* keys of its paths, takes the locks one by one in sorted order, stages   *)
(* every operation against the files it finds, applies the staged          *)
(* operations one by one and drops its guards.                             *)
(*                                                                         *)
(* A file is its sorted position among the real paths, so Key is a set of  *)
(* numbers.  A file's content is the last call that wrote it, Orig, or     *)
(* Absent: sha256 comparison is comparison of contents.                    *)
(***************************************************************************)
EXTENDS Naturals, Sequences, SequencesExt

CONSTANTS Task,          \* mutation tool calls, each made once
          Key,           \* paths, in sort order
          Requests,      \* Requests[t]: what call t may ask for, a set of [dry, ops]
          Links,         \* initial directory: Links[k] # k is a symlink k -> Links[k]
          Present,       \* the files that exist at the start
          Orig, Absent, None

Content == Task \cup {Orig, Absent}

Kind == {"search_replace", "write_file", "notebook_edit",
         "create_file", "delete_file", "move_file"}

\* One entry of StagedOp; `to` is the destination of a move_file, else = path.
Op == [kind : Kind, path : Key, to : Key]

ASSUME MutationQueueAssumption ==
    /\ Key \subseteq Nat
    /\ Links \in [Key -> Key]
    /\ Present \subseteq {k \in Key : Links[k] = k}
    /\ \A t \in Task : \A r \in Requests[t] :
          r.dry \in BOOLEAN /\ r.ops \in Seq(Op) \ {<<>>}
    /\ {Orig, Absent, None} \cap Task = {}
    /\ Orig # Absent /\ Orig # None /\ Absent # None

VARIABLES
    pc,         \* where each call is
    file,       \* file[k]: content of the regular file at k
    link,       \* link[k]: what the directory entry k resolves to
    ops,        \* ops[t]: the operations of t, with the paths it has resolved
    dry,        \* dry[t]: dry_run
    lastRead,   \* lastRead[k]: content of k the model last obtained from a tool
    need,       \* need[t]: sorted, deduplicated keys t has yet to lock
    held,       \* held[t]: keys whose OwnedMutexGuard t holds
    arc,        \* arc[t][k]: the mutex of key k that t has an Arc of, 0 if none
    lockMap,    \* MUTATION_LOCKS: lockMap[k] is k's mutex, 0 if no entry
    queue,      \* queue[m]: calls queued on mutex m in FIFO order; the head owns it
    at,         \* at[t]: next operation of t to apply
    base        \* base[t][k]: content t staged k against, None if nothing is staged

lockVars == <<need, held, arc, lockMap, queue>>
vars == <<pc, file, link, ops, dry, lastRead, lockVars, at, base>>

PC == {"idle", "lookup", "poll", "wait", "locked", "apply", "done"}

TypeOK ==
    /\ pc \in [Task -> PC]
    /\ file \in [Key -> Content]
    /\ link \in [Key -> Key]
    /\ ops \in [Task -> Seq(Op)]
    /\ dry \in [Task -> BOOLEAN]
    /\ lastRead \in [Key -> Content]
    /\ need \in [Task -> SUBSET Key]
    /\ held \in [Task -> SUBSET Key]
    /\ queue \in Seq(Seq(Task))
    /\ arc \in [Task -> [Key -> 0..Len(queue)]]
    /\ lockMap \in [Key -> 0..Len(queue)]
    /\ at \in [Task -> Nat \ {0}]
    /\ base \in [Task -> [Key -> Content \cup {None}]]

Nothing == [k \in Key |-> None]
NoArcs == [k \in Key |-> 0]

Init ==
    /\ pc = [t \in Task |-> "idle"]
    /\ file = [k \in Key |-> IF k \in Present THEN Orig ELSE Absent]
    /\ link = Links
    /\ ops = [t \in Task |-> <<>>]
    /\ dry = [t \in Task |-> FALSE]
    /\ lastRead = file
    /\ need = [t \in Task |-> {}]
    /\ held = [t \in Task |-> {}]
    /\ arc = [t \in Task |-> NoArcs]
    /\ lockMap = [k \in Key |-> 0]
    /\ queue = <<>>
    /\ at = [t \in Task |-> 1]
    /\ base = [t \in Task |-> Nothing]

-----------------------------------------------------------------------------
(* Path resolution.                                                        *)

Exists(k) == file[link[k]] # Absent

\* Mutant: only a path that resolves has a key.
ResolvedOnly(k) == IF Exists(k) THEN link[k] ELSE None

\* canonicalize, else canonical parent + file name: a dangling link is its own key.
MutationKey(k) == IF Exists(k) THEN link[k] ELSE k

Endpoints(op) == IF op.kind = "move_file" THEN {op.path, op.to} ELSE {op.path}

TouchedKeys(os) ==
    {MutationKey(k) : k \in UNION {Endpoints(os[i]) : i \in DOMAIN os}}

\* Two operations on one key clobber each other unless both are edits.
PathConflict(os) ==
    \/ \E i, j \in DOMAIN os :
          /\ i < j
          /\ ~(os[i].kind = "search_replace" /\ os[j].kind = "search_replace")
          /\ \E p \in Endpoints(os[i]), q \in Endpoints(os[j]) :
                MutationKey(p) = MutationKey(q)
    \/ \E i \in DOMAIN os :
          os[i].kind = "move_file" /\ MutationKey(os[i].path) = MutationKey(os[i].to)

\* write_file and notebook_edit resolve their path before they take the lock.
ResolvedEarly(op) ==
    IF op.kind \in {"write_file", "notebook_edit"}
    THEN [op EXCEPT !.path = MutationKey(op.path)] ELSE op

\* apply_patch resolves an existing path again once it holds the locks.
ResolvedLate(op) ==
    IF op.kind \in {"search_replace", "delete_file", "move_file"}
    THEN [op EXCEPT !.path = link[op.path]] ELSE op

-----------------------------------------------------------------------------
(* Taking the locks: lock_paths_for_mutation.                              *)

\* A call arrives: conflicts are refused, then the keys are computed.
Submit(t) ==
    /\ pc[t] = "idle"
    /\ \E r \in Requests[t] :
        \/ /\ PathConflict(r.ops)
           /\ pc' = [pc EXCEPT ![t] = "done"]
           /\ UNCHANGED <<dry, ops, need>>
        \/ /\ ~PathConflict(r.ops)
           /\ dry' = [dry EXCEPT ![t] = r.dry]
           /\ ops' = [ops EXCEPT ![t] = [i \in DOMAIN r.ops |-> ResolvedEarly(r.ops[i])]]
           /\ need' = [need EXCEPT ![t] = TouchedKeys(r.ops)]
           /\ pc' = [pc EXCEPT ![t] = "lookup"]
    /\ UNCHANGED <<file, link, lastRead, held, arc, lockMap, queue, at, base>>

\* Mutant: the idle test asks for a granted guard, so a waiter's mutex is pruned.
HeldOnly(m) == \E t \in Task : \E k \in held[t] : arc[t][k] = m

\* Arc::strong_count(m) > 1: some call has a clone besides the map's own.
InUse(m) == \E t \in Task, k \in Key : arc[t][k] = m

\* map.retain(...): every idle entry goes.
Retained(m) == IF m # 0 /\ InUse(m) THEN m ELSE 0

\* Mutant: the keys are locked in the order the request names them.
AnyNext(t, k) == k \in need[t]

\* The keys were sorted: the next one is the least.
NextKey(t, k) == k \in need[t] /\ \A j \in need[t] : k <= j

\* acquire_named_lock, under the outer mutex: prune, then get or insert.
Lookup(t) ==
    /\ pc[t] = "lookup"
    /\ \E k \in need[t] :
        /\ NextKey(t, k)
        /\ LET kept == [j \in Key |-> Retained(lockMap[j])]
               fresh == Len(queue) + 1
               m == IF kept[k] # 0 THEN kept[k] ELSE fresh
           IN /\ lockMap' = [kept EXCEPT ![k] = m]
              /\ queue' = IF kept[k] # 0 THEN queue ELSE Append(queue, <<>>)
              /\ arc' = [arc EXCEPT ![t] = [@ EXCEPT ![k] = m]]
    /\ pc' = [pc EXCEPT ![t] = "poll"]
    /\ UNCHANGED <<file, link, ops, dry, lastRead, need, held, at, base>>

\* The key t has an Arc for and no guard yet.
Awaits(t, k) == k \in need[t] /\ arc[t][k] # 0

\* First poll of lock_owned(): join the mutex's FIFO queue.
Poll(t) ==
    /\ pc[t] = "poll"
    /\ \E k \in need[t] :
        /\ Awaits(t, k)
        /\ queue' = [queue EXCEPT ![arc[t][k]] = Append(@, t)]
    /\ pc' = [pc EXCEPT ![t] = "wait"]
    /\ UNCHANGED <<file, link, ops, dry, lastRead, need, held, arc, lockMap, at, base>>

\* Mutant: the guard is granted as soon as the mutex has any queue.
AnyOwner(m, t) == queue[m] # <<>>

Owns(m, t) == queue[m] # <<>> /\ Head(queue[m]) = t

\* The mutex is t's: keep the guard, go on to the next key.
Granted(t) ==
    /\ pc[t] = "wait"
    /\ \E k \in need[t] :
        /\ Awaits(t, k)
        /\ Owns(arc[t][k], t)
        /\ held' = [held EXCEPT ![t] = @ \cup {k}]
        /\ need' = [need EXCEPT ![t] = @ \ {k}]
        /\ pc' = [pc EXCEPT ![t] = IF need[t] = {k} THEN "locked" ELSE "lookup"]
    /\ UNCHANGED <<file, link, ops, dry, lastRead, arc, lockMap, queue, at, base>>

Leave(q, t) ==
    IF \E i \in DOMAIN q : q[i] = t
    THEN RemoveAt(q, CHOOSE i \in DOMAIN q : q[i] = t) ELSE q

\* The call's future is dropped, and with it MutationGuards and a pending lock_owned
\* future: leave every queue, drop every Arc, forget the call's locals.  The map
\* keeps its entries until the next lookup.
ReleaseAll(t) ==
    /\ queue' = [m \in DOMAIN queue |-> Leave(queue[m], t)]
    /\ arc' = [arc EXCEPT ![t] = NoArcs]
    /\ held' = [held EXCEPT ![t] = {}]
    /\ need' = [need EXCEPT ![t] = {}]
    /\ base' = [base EXCEPT ![t] = Nothing]
    /\ ops' = [ops EXCEPT ![t] = <<>>]
    /\ dry' = [dry EXCEPT ![t] = FALSE]
    /\ at' = [at EXCEPT ![t] = 1]
    /\ pc' = [pc EXCEPT ![t] = "done"]
    /\ UNCHANGED <<file, link, lastRead, lockMap>>

\* The turn is cancelled and the call's future dropped at one of its awaits.
Abort(t) == pc[t] = "wait" /\ ReleaseAll(t)

-----------------------------------------------------------------------------
(* Staging and applying.                                                   *)

\* The content the model last obtained (expected_sha256, or gate_on_seen_sha256's
\* snapshot) is still the content on disk.
Fresh(k) == file[k] = lastRead[k]

\* Mutant: the hash gate only asks for the file to exist.
NoGate(op) ==
    CASE op.kind \in {"search_replace", "delete_file", "notebook_edit"} -> Exists(op.path)
      [] op.kind = "write_file" -> TRUE
      [] op.kind = "create_file" -> ~Exists(op.path)
      [] op.kind = "move_file" -> Exists(op.path) /\ ~Exists(op.to)

\* The checks stage_apply_patch_op, write_file and notebook_edit make on one operation.
OpValid(op) ==
    CASE op.kind \in {"search_replace", "delete_file"} ->
            Exists(op.path) /\ Fresh(link[op.path])
      [] op.kind = "notebook_edit" -> file[op.path] # Absent /\ Fresh(op.path)
      [] op.kind = "write_file" -> file[op.path] = Absent \/ Fresh(op.path)
      [] op.kind = "create_file" -> ~Exists(op.path)
      [] op.kind = "move_file" ->
            Exists(op.path) /\ Fresh(link[op.path]) /\ ~Exists(op.to)

StagedFiles(os) == UNION {Endpoints(os[i]) : i \in DOMAIN os}

\* Every operation is valid: its files' contents are what it is staged against.
Stage(t) ==
    /\ pc[t] = "locked"
    /\ \A i \in DOMAIN ops[t] : OpValid(ops[t][i])
    /\ ops' = [ops EXCEPT ![t] = [i \in DOMAIN @ |-> ResolvedLate(@[i])]]
    /\ base' = [base EXCEPT ![t] =
                  [k \in Key |-> IF ~dry[t] /\ k \in StagedFiles(ops'[t])
                                 THEN file[k] ELSE None]]
    /\ at' = [at EXCEPT ![t] = IF dry[t] THEN Len(ops[t]) + 1 ELSE 1]
    /\ pc' = [pc EXCEPT ![t] = "apply"]
    /\ UNCHANGED <<file, link, dry, lastRead, lockVars>>

\* An operation is stale, or its search text, cell or encoding does not fit:
\* the call ends before anything is written.
Reject(t) == pc[t] = "locked" /\ ReleaseAll(t)

\* One file write or removal; the entry becomes a regular file.
Put(t, k, c) ==
    /\ file' = [file EXCEPT ![k] = c]
    /\ link' = [link EXCEPT ![k] = k]
    /\ base' = [base EXCEPT ![t] = [@ EXCEPT ![k] = None]]

Advance(t) == at' = [at EXCEPT ![t] = @ + 1]

\* StagedOp::apply for the operation at[t].  A second edit of a file that is
\* already written is a no-op; a move writes its destination, then removes its source.
Apply(t) ==
    /\ pc[t] = "apply"
    /\ at[t] <= Len(ops[t])
    /\ LET op == ops[t][at[t]]
       IN \/ /\ op.kind \in {"search_replace", "write_file", "notebook_edit", "create_file"}
             /\ base[t][op.path] # None
             /\ Put(t, op.path, t)
             /\ Advance(t)
          \/ /\ op.kind = "search_replace"
             /\ base[t][op.path] = None
             /\ Advance(t)
             /\ UNCHANGED <<file, link, base>>
          \/ /\ op.kind = "delete_file"
             /\ base[t][op.path] # None
             /\ Put(t, op.path, Absent)
             /\ Advance(t)
          \/ /\ op.kind = "move_file"
             /\ base[t][op.to] # None
             /\ Put(t, op.to, t)
             /\ UNCHANGED at
          \/ /\ op.kind = "move_file"
             /\ base[t][op.to] = None
             /\ base[t][op.path] # None
             /\ Put(t, op.path, Absent)
             /\ Advance(t)
    /\ UNCHANGED <<pc, ops, dry, lastRead, lockVars>>

\* The write fails: the operation and all the later ones are skipped.
ApplyFails(t) ==
    /\ pc[t] = "apply"
    /\ at[t] <= Len(ops[t])
    /\ base' = [base EXCEPT ![t] = Nothing]
    /\ at' = [at EXCEPT ![t] = Len(ops[t]) + 1]
    /\ UNCHANGED <<pc, file, link, ops, dry, lastRead, lockVars>>

\* The tool returns its result and drops the guards.
Finish(t) ==
    /\ pc[t] = "apply"
    /\ at[t] > Len(ops[t])
    /\ ReleaseAll(t)

\* read_file, at any time and under no lock: the model obtains the content of k.
Read(k) ==
    /\ file[k] \notin {Absent, lastRead[k]}
    /\ lastRead' = [lastRead EXCEPT ![k] = file[k]]
    /\ UNCHANGED <<pc, file, link, ops, dry, lockVars, at, base>>

Step(t) == \/ Lookup(t) \/ Poll(t) \/ Granted(t)
           \/ Stage(t) \/ Reject(t) \/ Apply(t) \/ ApplyFails(t) \/ Finish(t)

AllDone == (\A t \in Task : pc[t] = "done") /\ UNCHANGED vars

Next == \/ \E t \in Task : Submit(t) \/ Step(t) \/ Abort(t)
        \/ \E k \in Key : Read(k)
        \/ AllDone

Spec == Init /\ [][Next]_vars

\* The runtime polls every task that can make progress.
FairSpec == Spec /\ \A t \in Task : WF_vars(Step(t))

-----------------------------------------------------------------------------
(* Properties.                                                             *)

\* No two calls hold the guard of the same key (file_mutation_queue.rs, module doc).
MutualExclusion ==
    \A t, u \in Task : t # u => held[t] \cap held[u] = {}

\* Between staging and applying, the file a call validated is still the file
\* on disk: no call overwrites an edit it has not seen (comment F01 in write_file).
StagedIsFresh ==
    \A t \in Task, k \in Key : base[t][k] # None => file[k] = base[t][k]

\* A call never replaces or removes content that the model has not obtained:
\* the hash gate and the lock together rule out a lost update.
NoBlindOverwrite ==
    [][\A k \in Key : file'[k] # file[k] /\ file[k] # Absent => lastRead[k] = file[k]]_vars

\* The queue implements the abstract lock.
Lock == INSTANCE PathLock WITH holder <- [k \in Key |-> {t \in Task : k \in held[t]}]
ImplementsPathLock == Lock!Spec

\* Locks are taken in sorted order, so overlapping calls never deadlock: every
\* call that arrives ends.
EveryCallEnds == \A t \in Task : (pc[t] # "idle") ~> (pc[t] = "done")

=============================================================================
