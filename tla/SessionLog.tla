----------------------------- MODULE SessionLog -----------------------------
(***************************************************************************)
(* One session of squeezy-store: the clones of a SessionHandle that the    *)
(* agent's tasks hold, the writer thread behind their channel, and the     *)
(* files of the session's directory.  The handle starts in memory and is   *)
(* promoted by the first substantive event; after a crash or a close the   *)
(* session is resumed by opening the same directory again.                 *)
(*                                                                         *)
(* A log is a sequence of fragments: the bytes of one event that reached   *)
(* the file.  An event of n bytes is n - 1 bytes of JSON and its newline.  *)
(* The text of the events, the resume snapshot, the attachments and the    *)
(* indexes are left out.                                                   *)
(***************************************************************************)
EXTENDS Naturals, Sequences, FiniteSets

CONSTANTS Thread,     \* the tasks that hold a clone of the handle
          Turn,       \* those of them that run turns, and account for them
          Kind,       \* the kinds of event they append
          Size,       \* Size[k]: bytes of an event of kind k
          MaxBytes,   \* max_session_bytes
          Durability, \* the values of CacheDurability to consider
          MaxEvents,  \* bound: events appended by the tasks
          MaxLives,   \* bound: times the session is opened
          MaxFaults   \* bound: file operations that fail

ASSUME SessionLogAssumption ==
    /\ Thread # {} /\ Turn \subseteq Thread
    /\ "session_resumed" \in DOMAIN Size
    /\ Kind \subseteq DOMAIN Size /\ Size \in [DOMAIN Size -> Nat \ {0}]
    /\ MaxBytes \in Nat
    /\ Durability \subseteq {"fast", "turn", "strict"}

VARIABLES durability, \* the configured value
          mode,       \* the handle: pending, live, closing, closed; down: no process
          buffered,   \* the pending handle's events
          draft,      \* the pending handle's metadata
          titled,     \* has_first_user_task
          holders,    \* the tasks that hold a clone
          call,       \* call[t]: where t is inside a method of the handle
          queue,      \* the channel to the writer
          pc,         \* what the writer does
          failed,     \* its own terminal_failure
          reported,   \* the handle's terminal_failure
          size,       \* size[f]: its current_size
          truncated,  \* truncated[f]: it has recorded that f is full
          stale,      \* the metadata it has read and will write back
          log,        \* log[f]: the fragments in f
          synced,     \* synced[f]: how many of them a power cut spares
          meta,       \* metadata.json
          arrived,    \* history: the events in the order they arrived
          skipped,    \* history: the events the cap dropped
          acked,      \* history: the events a successful flush covered
          cut,        \* history: a power cut has happened
          life,       \* how many times the session was opened
          faults      \* file operations that have failed

handle == <<mode, buffered, draft>>
writer == <<pc, failed, reported, size, truncated, stale>>
files == <<log, synced>>
history == <<skipped, acked, cut>>
fixed == <<durability, life>>
vars == <<durability, mode, buffered, draft, titled, holders, call, queue, pc, failed,
          reported, size, truncated, stale, log, synced, meta, arrived, skipped, acked,
          cut, life, faults>>

File == {"events", "replay"}

FileOf(k) == IF k = "replay" THEN "replay" ELSE "events"

\* is_substantive_event_kind
Substantive(k) == k \notin {"session_started", "session_resumed"}

KindOf(e) == arrived[e].kind
Bytes(e) == Size[KindOf(e)]

\* SessionMetadata: status and whether first_user_task is set
Started == [status |-> "Running", title |-> FALSE]
NoMetadata == [status |-> "none", title |-> FALSE]

Idle == [pc |-> "idle", job |-> "none", copy |-> NoMetadata]

Init ==
    /\ durability \in Durability
    /\ mode = "pending" /\ buffered = <<>> /\ draft = Started /\ titled = FALSE
    /\ holders = Thread
    /\ call = [t \in Thread |-> Idle]
    /\ queue = <<>>
    /\ pc = "none" /\ failed = FALSE /\ reported = FALSE
    /\ size = [f \in File |-> 0] /\ truncated = [f \in File |-> FALSE]
    /\ stale = NoMetadata
    /\ log = [f \in File |-> <<>>] /\ synced = [f \in File |-> 0]
    /\ meta = NoMetadata
    /\ arrived = <<>> /\ skipped = {} /\ acked = {} /\ cut = FALSE
    /\ life = 1 /\ faults = 0

-----------------------------------------------------------------------------
(* What is changed in metadata.json.  Every change reads the whole file,   *)
(* edits its own fields and writes the whole file back, without a lock.    *)
Update(job, m) ==
    CASE job = "user_message" -> [m EXCEPT !.title = TRUE]
      [] job = "truncate" -> [m EXCEPT !.status = "Truncated"]
      [] job = "finish" /\ m.status = "Running" -> [m EXCEPT !.status = "Completed"]
      [] job = "resume" -> [m EXCEPT !.status = "Running"]
      [] OTHER -> m

Appends(events) == [i \in DOMAIN events |-> [op |-> "append", event |-> events[i]]]

\* Mutation: the buffered events are forgotten when the session is promoted.
LostBuffer(new) ==
    \/ mode = "live" /\ queue' = queue \o new /\ UNCHANGED <<handle, pc, meta>>
    \/ /\ mode = "pending"
       /\ mode' = "live" /\ buffered' = <<>> /\ meta' = draft /\ pc' = "idle"
       /\ queue' = new
       /\ UNCHANGED draft

\* Mutation: the buffer is copied, not moved, when the session is promoted.
KeptBuffer(new) ==
    \/ mode = "live" /\ queue' = queue \o new /\ UNCHANGED <<handle, pc, meta>>
    \/ /\ mode = "pending"
       /\ mode' = "live" /\ meta' = draft /\ pc' = "idle"
       /\ queue' = Appends(buffered) \o new
       /\ UNCHANGED <<buffered, draft>>

\* ensure_live under the handle's mutex, then the caller's own commands
EnsureLive(new) ==
    \/ mode = "live" /\ queue' = queue \o new /\ UNCHANGED <<handle, pc, meta>>
    \/ /\ mode = "pending"
       /\ mode' = "live" /\ buffered' = <<>> /\ meta' = draft /\ pc' = "idle"
       /\ queue' = Appends(buffered) \o new
       /\ UNCHANGED draft

-----------------------------------------------------------------------------
(* The methods of the handle. *)
At(t, where) == t \in holders /\ call[t].pc = where

Goto(t, where, job, copy) ==
    call' = [call EXCEPT ![t] = [pc |-> where, job |-> job, copy |-> copy]]

Return(t) == Goto(t, "idle", "none", NoMetadata)

Arrive(k) ==
    /\ Len(arrived) < MaxEvents
    /\ arrived' = Append(arrived, [kind |-> k, life |-> life])

\* append_event of a lifecycle event on a pending handle
Buffer(t, k) ==
    /\ At(t, "idle") /\ mode = "pending" /\ ~Substantive(k)
    /\ Arrive(k)
    /\ buffered' = Append(buffered, Len(arrived) + 1)
    /\ UNCHANGED <<fixed, mode, draft, titled, holders, call, queue, writer, files, meta,
                   history, faults>>

\* append_event and append_replay_event up to the send
AppendEvent(t, k) ==
    /\ At(t, "idle")
    /\ Substantive(k) \/ mode = "live"
    /\ ~reported
    /\ Arrive(k)
    /\ EnsureLive(Appends(<<Len(arrived) + 1>>))
    /\ IF k \in {"user_message", "assistant_completed"}
       THEN Goto(t, "sent", k, NoMetadata)
       ELSE UNCHANGED call
    /\ UNCHANGED <<fixed, titled, holders, failed, reported, size, truncated, stale, files,
                   history, faults>>

\* the rest of append_event: the second check, then the fields a picker shows
Sent(t) ==
    /\ At(t, "sent")
    /\ LET first == call[t].job = "user_message" /\ ~titled
       IN  IF ~reported /\ (first \/ call[t].job = "assistant_completed")
           THEN /\ Goto(t, "read", call[t].job, NoMetadata)
                /\ titled' = (titled \/ first)
           ELSE Return(t) /\ UNCHANGED titled
    /\ UNCHANGED <<fixed, handle, holders, queue, writer, files, meta, arrived, history, faults>>

\* update_metadata of a live session: the read ...
ReadMetadata(t) ==
    /\ At(t, "read")
    /\ Goto(t, "write", call[t].job, meta)
    /\ UNCHANGED <<fixed, handle, titled, holders, queue, writer, files, meta, arrived,
                   history, faults>>

\* ... and the write; a resuming task goes on to append session_resumed
WriteMetadata(t) ==
    /\ At(t, "write")
    /\ meta' = Update(call[t].job, call[t].copy)
    /\ IF call[t].job = "resume" THEN Goto(t, "greet", "resume", NoMetadata) ELSE Return(t)
    /\ UNCHANGED <<fixed, handle, titled, holders, queue, writer, files, arrived, history, faults>>

\* persist_turn_accounting, under the agent's conversation lock: write_resume_state, then
\* update_metadata
Account(t) ==
    /\ At(t, "idle") /\ t \in Turn
    /\ \A u \in Thread : call[u].job # "account"
    /\ EnsureLive(<<>>)
    /\ Goto(t, "read", "account", NoMetadata)
    /\ UNCHANGED <<fixed, titled, holders, failed, reported, size, truncated, stale, files,
                   arrived, history, faults>>

\* flush_events (job "flush") and finish (job "finish")
Flush(t, job) ==
    /\ At(t, "idle")
    /\ \/ /\ mode = "live" /\ ~reported
          /\ queue' = Append(queue, [op |-> "flush", by |-> t, upto |-> Len(arrived)])
          /\ Goto(t, "wait", job, NoMetadata)
          /\ UNCHANGED draft
       \/ /\ mode = "pending" /\ job = "finish"
          /\ draft' = Update("finish", draft)
          /\ UNCHANGED <<queue, call>>
    /\ UNCHANGED <<fixed, mode, buffered, titled, holders, writer, files, meta, arrived,
                   history, faults>>

\* the end of resume_with_telemetry: session_resumed, then the agent has the handle
Greet(t) ==
    /\ At(t, "greet")
    /\ arrived' = Append(arrived, [kind |-> "session_resumed", life |-> life])
    /\ EnsureLive(Appends(<<Len(arrived) + 1>>))
    /\ Return(t)
    /\ holders' = Thread
    /\ UNCHANGED <<fixed, titled, failed, reported, size, truncated, stale, files, history,
                   faults>>

\* Mutation: the last drop does not wait for the writer.
NoJoin(t) ==
    /\ At(t, "idle")
    /\ holders' = holders \ {t}
    /\ IF holders # {t} THEN UNCHANGED <<handle, queue, pc>>
       ELSE IF mode = "pending" \/ pc = "holds"
            THEN mode' = "closed" /\ buffered' = <<>> /\ UNCHANGED <<draft, queue, pc>>
            ELSE /\ mode' = "closed" /\ pc' = "ended"
                 /\ UNCHANGED <<buffered, draft, queue>>
    /\ UNCHANGED <<fixed, titled, call, failed, reported, size, truncated, stale, files, meta,
                   arrived, history, faults>>

(* A clone is dropped.  The drop of the last one asks the writer to stop   *)
(* and joins it, unless the writer itself holds a reference just then.     *)
DropHandle(t) ==
    /\ At(t, "idle")
    /\ holders' = holders \ {t}
    /\ IF holders # {t} THEN UNCHANGED <<handle, queue, pc>>
       ELSE IF mode = "pending" \/ pc = "holds"
            THEN mode' = "closed" /\ buffered' = <<>> /\ UNCHANGED <<draft, queue, pc>>
            ELSE /\ mode' = "closing" /\ queue' = Append(queue, [op |-> "shutdown"])
                 /\ UNCHANGED <<buffered, draft, pc>>
    /\ UNCHANGED <<fixed, titled, call, failed, reported, size, truncated, stale, files, meta,
                   arrived, history, faults>>

-----------------------------------------------------------------------------
(* The writer thread: one command at a time, in the order of the channel.  *)
Takes(op) == pc = "idle" /\ queue # <<>> /\ Head(queue).op = op

Fits(e) == size[FileOf(KindOf(e))] + Bytes(e) <= MaxBytes

\* k bytes of e reach its file
Put(e, k) ==
    LET f == FileOf(KindOf(e))
    IN  /\ log' = [log EXCEPT ![f] = IF k = 0 THEN @ ELSE Append(@, [event |-> e, len |-> k])]
        /\ size' = [size EXCEPT ![f] = @ + k]

\* sync_file_if_exists on both files, unless the configuration is fast
SyncAll ==
    synced' = IF durability = "fast" THEN synced ELSE [f \in File |-> Len(log[f])]

\* record_failure through the weak reference, which fails once the last clone is dropped
Broken ==
    /\ failed' = TRUE
    /\ faults' = faults + 1 /\ faults < MaxFaults
    /\ reported' = (reported \/ holders # {})
    /\ pc' = IF holders # {} THEN "holds" ELSE pc

\* Mutation: after a failure the writer answers no command.
Deaf ==
    /\ pc = "idle" /\ queue # <<>> /\ failed
    /\ queue' = Tail(queue)
    /\ UNCHANGED <<fixed, handle, titled, holders, call, writer, files, meta, arrived, history,
                   faults>>

\* The commands left in the channel after a failure are read and dropped.
WriterIgnores ==
    /\ Takes("append") /\ failed
    /\ queue' = Tail(queue)
    /\ UNCHANGED <<fixed, handle, titled, holders, call, writer, files, meta, arrived, history,
                   faults>>

Handling(e) == Takes("append") /\ ~failed /\ Head(queue).event = e

\* write_session_log_append, write_replay_log_append: the event fits
WriterStores(e) ==
    /\ Handling(e) /\ Fits(e)
    /\ Put(e, Bytes(e))
    /\ synced' = IF durability = "strict"
                 THEN [synced EXCEPT ![FileOf(KindOf(e))] = Len(log'[FileOf(KindOf(e))])]
                 ELSE synced
    /\ queue' = Tail(queue)
    /\ UNCHANGED <<fixed, handle, titled, holders, call, pc, failed, reported, truncated, stale,
                   meta, arrived, history, faults>>

\* The write fails after k bytes (twice, if k is 0), or the sync of a whole event fails.
WriterTears(e, k) ==
    /\ Handling(e) /\ Fits(e)
    /\ k < Bytes(e) \/ (k = Bytes(e) /\ durability = "strict")
    /\ Put(e, k)
    /\ Broken
    /\ queue' = Tail(queue)
    /\ UNCHANGED <<fixed, handle, titled, holders, call, truncated, stale, synced, meta, arrived,
                   history>>

\* The event is over the cap, as one before it was.
WriterSkips(e) ==
    /\ Handling(e) /\ ~Fits(e) /\ truncated[FileOf(KindOf(e))]
    /\ queue' = Tail(queue)
    /\ skipped' = skipped \cup {e}
    /\ UNCHANGED <<fixed, handle, titled, holders, call, writer, files, meta, arrived, acked, cut,
                   faults>>

\* The first event over the cap: update_metadata_file reads metadata.json ...
WriterReads(e) ==
    /\ Handling(e) /\ ~Fits(e) /\ ~truncated[FileOf(KindOf(e))]
    /\ \/ pc' = "truncating" /\ stale' = meta
          /\ UNCHANGED <<queue, failed, reported, faults>>
       \/ Broken /\ queue' = Tail(queue) /\ UNCHANGED stale
    /\ UNCHANGED <<fixed, handle, titled, holders, call, size, truncated, files, meta, arrived,
                   history>>

\* ... and writes it back
WriterTruncates ==
    /\ pc = "truncating"
    /\ LET e == Head(queue).event
       IN  /\ truncated' = [truncated EXCEPT ![FileOf(KindOf(e))] = TRUE]
           /\ skipped' = skipped \cup {e}
    /\ meta' = Update("truncate", stale)
    /\ stale' = NoMetadata
    /\ pc' = "idle"
    /\ queue' = Tail(queue)
    /\ UNCHANGED <<fixed, handle, titled, holders, call, failed, reported, size, files, arrived,
                   acked, cut, faults>>

\* The reference taken to report a failure goes; if it was the last one, its drop sends
\* Shutdown to this very thread and waits for the answer.
WriterReleases ==
    /\ pc = "holds"
    /\ pc' = IF holders = {} THEN "stuck" ELSE "idle"
    /\ UNCHANGED <<fixed, handle, titled, holders, call, queue, failed, reported, size, truncated,
                   stale, files, meta, arrived, history, faults>>

\* Mutation: the flush does not sync.
NoSync(ok) ==
    \/ /\ ~failed /\ ok
       /\ UNCHANGED <<synced, failed, reported, faults>>
    \/ /\ failed /\ ~ok
       /\ UNCHANGED <<failed, reported, faults, synced>>

\* The sync of a Flush or a Shutdown, and the answer: whether it or something before failed.
Answer(ok) ==
    \/ /\ SyncAll /\ ~failed /\ ok
       /\ UNCHANGED <<failed, reported, faults>>
    \/ /\ failed /\ ~ok
       /\ UNCHANGED <<failed, reported, faults, synced>>
    \/ /\ durability # "fast" /\ ~failed /\ ~ok /\ faults < MaxFaults
       /\ failed' = TRUE /\ faults' = faults + 1
       /\ reported' = (reported \/ holders # {})
       /\ UNCHANGED synced

\* Flush: the caller gets the answer; a finish that got Ok goes on to the metadata.
WriterFlushes(t, ok) ==
    /\ Takes("flush") /\ Head(queue).by = t
    /\ Answer(ok)
    /\ acked' = IF ok THEN acked \cup {e \in 1..Head(queue).upto : arrived[e].life = life}
                ELSE acked
    /\ IF ok /\ call[t].job = "finish" THEN Goto(t, "read", "finish", NoMetadata) ELSE Return(t)
    /\ queue' = Tail(queue)
    /\ UNCHANGED <<fixed, handle, titled, holders, pc, size, truncated, stale, log, meta, arrived,
                   skipped, cut>>

WriterStops(ok) ==
    /\ Takes("shutdown")
    /\ Answer(ok)
    /\ pc' = "ended" /\ mode' = "closed"
    /\ queue' = Tail(queue)
    /\ UNCHANGED <<fixed, buffered, draft, titled, holders, call, size, truncated, stale, log,
                   meta, arrived, history>>

-----------------------------------------------------------------------------
(* File operations of the handle that fail. *)

\* ensure_live: the handle stays pending, metadata.json may be on disk already
PrepareFails ==
    /\ mode = "pending" /\ faults < MaxFaults
    /\ meta' \in {meta, draft}
    /\ faults' = faults + 1
    /\ UNCHANGED <<fixed, handle, titled, holders, call, queue, writer, files, arrived, history>>

\* update_metadata: the caller drops the error
MetadataFails(t) ==
    /\ At(t, "read") \/ At(t, "write")
    /\ faults < MaxFaults
    /\ faults' = faults + 1
    /\ IF call[t].job = "resume" THEN Goto(t, "greet", "resume", NoMetadata) ELSE Return(t)
    /\ UNCHANGED <<fixed, handle, titled, holders, queue, writer, files, meta, arrived, history>>

-----------------------------------------------------------------------------
(* The process dies, the power fails, the session is resumed. *)
Gone ==
    /\ mode # "down" /\ mode' = "down"
    /\ buffered' = <<>> /\ titled' = FALSE /\ holders' = {}
    /\ call' = [t \in Thread |-> Idle]
    /\ queue' = <<>> /\ pc' = "none" /\ failed' = FALSE /\ reported' = FALSE
    /\ size' = [f \in File |-> 0] /\ truncated' = [f \in File |-> FALSE]
    /\ stale' = NoMetadata
    /\ draft' = Started
    /\ UNCHANGED <<fixed, meta, arrived, skipped, acked, faults>>

\* The process dies, in the middle of a write if there is one.
Crash ==
    /\ Gone
    /\ \/ UNCHANGED log
       \/ /\ Takes("append") /\ ~failed /\ Fits(Head(queue).event)
          /\ LET e == Head(queue).event
             IN  \E k \in 1..Bytes(e) - 1 :
                     log' = [log EXCEPT ![FileOf(KindOf(e))] =
                                            Append(@, [event |-> e, len |-> k])]
    /\ UNCHANGED <<synced, cut>>

\* Files end where the power cut leaves them: not before what was synced, perhaps inside
\* a fragment.
Remains(s, from) ==
    {SubSeq(s, 1, n) : n \in from..Len(s)} \cup
    UNION {{Append(SubSeq(s, 1, n), [event |-> s[n + 1].event, len |-> k]) :
                k \in 1..s[n + 1].len - 1} : n \in from..Len(s) - 1}

PowerCut ==
    /\ Gone
    /\ log' \in [File -> UNION {Remains(log[f], synced[f]) : f \in File}]
    /\ \A f \in File : log'[f] \in Remains(log[f], synced[f])
    /\ synced' = [f \in File |-> Len(log'[f])]
    /\ cut' = TRUE

\* the bytes of a file
Length(s) ==
    LET upto[n \in 0..Len(s)] == IF n = 0 THEN 0 ELSE upto[n - 1] + s[n].len
    IN  upto[Len(s)]

\* Mutation: a writer starts with a size of zero, whatever is in the file.
Zero(f) == 0

\* fs::metadata(path).len(), where a new writer starts
SizeOnDisk(f) == Length(log[f])

\* resume_with_telemetry: open_session, then the metadata and the event of the resume
Resume(t) ==
    /\ mode \in {"down", "closed"} /\ meta # NoMetadata /\ life < MaxLives
    /\ life' = life + 1
    /\ mode' = "live" /\ titled' = meta.title /\ holders' = {t}
    /\ Goto(t, "read", "resume", NoMetadata)
    /\ queue' = <<>> /\ pc' = "idle" /\ failed' = FALSE /\ reported' = FALSE
    /\ size' = [f \in File |-> SizeOnDisk(f)]
    /\ truncated' = [f \in File |-> FALSE] /\ stale' = NoMetadata
    /\ UNCHANGED <<durability, buffered, draft, files, meta, arrived, history, faults>>

-----------------------------------------------------------------------------
Task(t) ==
    \/ \E k \in Kind : Buffer(t, k) \/ AppendEvent(t, k)
    \/ Sent(t) \/ ReadMetadata(t) \/ WriteMetadata(t) \/ MetadataFails(t)
    \/ Account(t) \/ \E job \in {"flush", "finish"} : Flush(t, job)
    \/ Greet(t) \/ DropHandle(t) \/ Resume(t)

Writer ==
    \/ WriterIgnores \/ WriterTruncates \/ WriterReleases
    \/ \E e \in DOMAIN arrived :
           \/ WriterStores(e) \/ WriterSkips(e) \/ WriterReads(e)
           \/ \E k \in 0..Bytes(e) : WriterTears(e, k)
    \/ \E ok \in BOOLEAN : WriterStops(ok) \/ \E t \in Thread : WriterFlushes(t, ok)

Next == (\E t \in Thread : Task(t)) \/ Writer \/ PrepareFails \/ Crash \/ PowerCut

Spec == Init /\ [][Next]_vars

\* The writer is a thread of its own: while it has a command it gets on.
FairSpec == Spec /\ WF_vars(Writer)

-----------------------------------------------------------------------------
TypeOK ==
    /\ durability \in Durability
    /\ mode \in {"pending", "live", "closing", "closed", "down"}
    /\ buffered \in Seq(Nat) /\ (mode # "pending" => buffered = <<>>)
    /\ titled \in BOOLEAN /\ holders \subseteq Thread
    /\ pc \in {"none", "idle", "truncating", "holds", "stuck", "ended"}
    /\ failed \in BOOLEAN /\ reported \in BOOLEAN /\ cut \in BOOLEAN
    /\ size \in [File -> Nat] /\ truncated \in [File -> BOOLEAN]
    /\ log \in [File -> Seq([event : DOMAIN arrived, len : Nat])] /\ synced \in [File -> Nat]
    /\ arrived \in Seq([kind : Kind \cup {"session_resumed"}, life : Nat])
    /\ skipped \cup acked \subseteq DOMAIN arrived
    /\ life \in Nat /\ faults \in Nat

Whole(x) == x.len = Bytes(x.event)

Stored(e) == \E f \in File : \E i \in DOMAIN log[f] : log[f][i].event = e /\ Whole(log[f][i])

\* What was appended before a flush that returned Ok stays in the log, or went over the cap:
\* through crashes, and through power cuts unless the durability is fast.
FlushIsBarrier ==
    \A e \in acked : e \in skipped \/ Stored(e) \/ (cut /\ durability = "fast")

\* Each file has the events in the order they were appended, the buffered ones first, and in
\* one life of the process none is written over the loss of an earlier one: only the cap makes
\* holes, and nothing is glued to a torn line before a restart.
LogIsHistory ==
    \A f \in File : \A i \in DOMAIN log[f] :
        /\ \A j \in 1..i - 1 : log[f][j].event < log[f][i].event
        /\ \A e \in 1..log[f][i].event - 1 :
               FileOf(KindOf(e)) = f /\ arrived[e].life = arrived[log[f][i].event].life
                   => e \in skipped \/ Stored(e)

\* No file outgrows max_session_bytes, over all the lives of the session.
CapHolds ==
    \A f \in File : Length(log[f]) <= MaxBytes

\* When the last clone's drop has returned, what was appended is in the log.
CloseIsBarrier ==
    mode = "closed" /\ pc = "ended" /\ ~failed /\ ~cut =>
        \A e \in DOMAIN arrived : arrived[e].life = life => e \in skipped \/ Stored(e)

\* Nobody waits for a writer for ever, whatever fails: a flush is answered and the drop of
\* the last clone returns.
WaitsEnd ==
    /\ \A t \in Thread : At(t, "wait") ~> ~At(t, "wait")
    /\ mode = "closing" ~> mode # "closing"

=============================================================================
