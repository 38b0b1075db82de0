# Verification of Squeezy

TLA+ models of the parts of Squeezy whose correctness depends on the order in
which things happen: several tool calls on the same files, a round of concurrent reads
and subagents with prompts and an interrupt, a model request that is sent again
after part of its answer arrived, a turn that is replaced while it runs,
background jobs and their watchdogs, a session log written by a thread of its
own, and a checkpoint store that must survive a crash between any two of its
steps. TLC checks the models on small instances; for seven of the eight TLAPS proves
every safety and action property of the passing runs for every value of the
constants, two of them for paths that are no symlinks.

Contents

1. The system: components, state, interactions, hazards
2. The modules, and how they correspond to the code
3. The runs: what they check, bounds, fairness
4. Where the code and its documents disagree
5. The proofs
6. What is only model-checked, and what is not modelled
7. Plan

All paths are relative to the repository root. Line numbers are those of the
commit in `src/`.

---------------------------------------------------------------------------

## 1. The system

Squeezy is a coding agent for the terminal: 19 Rust crates. A front end
(`squeezy-tui`) owns an `Agent` (`squeezy-agent`); the agent runs each prompt as
a *turn*, a Tokio task that alternates requests to a model (`squeezy-llm`) with
rounds of tool calls (`squeezy-tools`, `squeezy-mcp`, `squeezy-graph`). Tools
that change files are wrapped in *checkpoints* (`squeezy-vcs`); sessions, memory
and indexes are stored on disk (`squeezy-store`).

### 1.1 Components

| Component | Source (`crates/`) | State it keeps | Operations | What is hard | What makes it correct |
|---|---|---|---|---|---|
| Mutation queue | `squeezy-tools/src/file_mutation_queue.rs` | process-wide map from file key to mutex, pruned on each lookup | compute keys, sort, look up, wait in FIFO order, drop the guards, drop a waiting future | pruning against waiting; cancellation while waiting; symlinks | one holder per file; no deadlock; a lock, seen from outside |
| Mutation tools | `squeezy-tools/src/patch.rs`, `lib.rs` | the content the model last obtained of each file | validate, stage, apply operation by operation, fail half way | the hash compared is stale when the write lands; several files in a call | never overwrite content the model has not seen |
| Turn lifecycle | `squeezy-agent/src/lib.rs` | slot of the active turn, tokens, conversation, pins | start, steer, interrupt, follow up, pin, finish, watchdog | the older turn ends after its replacement started; abort at any await; the conversation is cloned and written back | slot names the latest turn; a cancelled turn ends; pins and follow-ups survive |
| Front end's receiver | `squeezy-tui/src/events.rs`, `lib.rs` | the receiver of the turn it waits for | drain, terminal event, replace | a channel whose sender is gone looks like an empty one | lets go only of turns that no longer write, and always lets go |
| Job registry | `squeezy-agent/src/lib.rs` | records with status, token, handle; at most 200 | create, start, finish, cancel, watchdog, prune | a body that ends while its watchdog marks; a full registry | running work can be found and cancelled; a cancelled job ends |
| Checkpoint store | `squeezy-vcs/src/lib.rs` | shadow git repository, refs, raw blobs, JSONL journal | snapshot, record, undo, revert, restore a file, clean up, open | crash between refs, journal and sweep; torn lines; user edits between a call and its undo; a failing write | listed checkpoints can be restored; undo never clobbers; Atomic leaves no trace |
| Shadow lock | `squeezy-vcs/src/lib.rs` | an advisory lock on a file that is removed by name | open, try_lock, release, unlink | release and unlink are two steps | one process owns the store |
| Tool rounds, permissions | `squeezy-agent/src/lib.rs`, `cost_broker.rs` | the calls of a response, approved lists, budget, prompts, session rules | validate, ask, run reads together and edits alone, fold, commit | a call settled on one of a dozen paths; a cancellation during a prompt; concurrent reads against one budget | a result for every call; edits keep their place; nothing starts after a cancel; the budget holds |
| Subagents | `squeezy-agent/src/lib.rs` | registry of leases, concurrency cap | dispatch, ask, finish, cancel | subagents of a superseded turn still in the registry; two prompts at once | a batch is never refused; every prompt reaches the user |
| Session log | `squeezy-store/src/sessions.rs` | pending buffer, channel to the writer thread, two JSONL files, metadata | append, promote, flush, account, finish, drop, resume | promotion while others append; a failing or torn write; the last drop joins the writer; power cut | a flush is a barrier; the files are the history of the appends; nobody waits for ever |
| LLM requests | `squeezy-llm/src/retry.rs`, providers | what was passed on, what this attempt has repeated | send, back off, rotate the key, stream, reconnect, recover once | another answer after part of the first one; another way of cutting it | one answer, never two spliced; every request ends |
| MCP queue | `squeezy-agent/src/lib.rs`, `squeezy-mcp` | tickets `next`, `serving` | take a ticket, wait, finish, shut down | a wake-up between load and wait | FIFO; shutdown ends |
| Project rules | `squeezy-agent/src/permission_persist.rs` | settings file under a lock file | persist a rule | a lock file left by a dead process | rules are not lost |
| State store | `squeezy-store/src/*.rs` | redb tables, memory index | migrate, save, delete | two processes on one index | the index names what exists |
| Compaction, cost, memory extraction | `squeezy-agent/src/*.rs` | conversation, pins, counters | compact, count, extract | marks read before a model call and stored after it | pins survive; caps hold |
| Graph, crawl, parsers | `squeezy-graph`, `squeezy-workspace`, `squeezy-parse` | symbol graph, pending paths | refresh before a query | a file changed during a refresh | the answer is as fresh as the query |
| Ranking, skills, hooks, telemetry, CLI, Windows sandbox, worktrees, evaluation | the other crates | little or none | | | |

`PROJECT.json` lists all of them with their status, and the 40 places where this
code is hard to test, each with the property that covers it or the reason why
none does.

### 1.2 How they interact

    front end ── start / steer / follow_up / pin ──▶ Agent ── spawns ──▶ turn task ──▶ LLM stream
        ▲                                              │                    │  (request, retries)
        │ mpsc: events, prompts of a turn              │ slot, conversation │ tool round ──▶ session
        └──────────────────────────────────────────────┴────────────────────┤  log: channel to its
                                                                            │  writer thread
        ▲ broadcast: job events          JobRegistry ◀── create / finish ───┤
        └────────────────────────────────────┘                              ▼
                                              mutation queue ──▶ stage, apply ──▶ files
                                                                   │   ▲
                                        snapshot before and after  ▼   │ undo
                                                         checkpoint store (shadow lock)

* A turn and the front end share the conversation and the pins under one lock,
  but a turn *clones* both when it begins and writes them back when it ends.
* A turn's tool calls run inside its task: aborting the task drops them.
  Reads run concurrently, edits one after the other (`parallel_safe: false`,
  `squeezy-tools/src/specs.rs:45`; `squeezy-agent/src/lib.rs:15239`). Mutation
  calls of *different* agents (subagents, the user's own commands) do overlap,
  which is what the mutation queue is for.
* A turn alternates one model request with one tool round. A subagent runs inside
  its call: its permission prompts travel through a drain task to the same
  receiver as the turn's own, and are answered on a one-shot channel.
* All tasks of a session hold clones of one handle. Appends are sent to the
  writer thread under the handle's mutex; `metadata.json` is read and written by
  whoever needs to change it.
* Each mutating call takes a snapshot before and after its edit and appends a
  record to the journal. Undo is itself a local tool job.

---------------------------------------------------------------------------

## 2. The modules

| Module | Models | Lines |
|---|---|---|
| `PathLock` | what a caller of `lock_paths_for_mutation` may rely on | abstract |
| `MutationQueue` | the queue and the calls that use it | detailed, refines `PathLock` |
| `MutationQueueProofs` | its theorems | proofs |
| `TurnLifecycle`, `TurnLifecycleProofs` | turns, watchdog, front end | detailed, proofs |
| `Jobs`, `JobsProofs` | the job registry | detailed, proofs |
| `Checkpoint`, `CheckpointProofs` | the store, the user and the disk | detailed, proofs |
| `ShadowLock` | the lock file of the store | detailed |
| `SessionLog`, `SessionLogProofs` | the session handle, its writer thread, the files | detailed, proofs |
| `ToolRound`, `ToolRoundProofs` | a round of tool calls, subagents, prompts | detailed, proofs |
| `StreamRetry`, `StreamRetryProofs` | a request to the model with its retries | detailed, proofs |
| `Subsequence` | `Iterator::filter`, for the modules that are proved about | helper |
| `SequenceFacts` | lemmas about sequences, filters and sorting | proofs |
| `MC*` | instances for TLC | |

`PROJECT.json` ("map") gives the source lines of every definition.

### 2.1 MutationQueue

State: `locks`, the map from key to mutex with its holder and waiting queue
(`MUTATION_LOCKS`); per call, the keys still needed, the mutex it waits for, the
guards held; the files and symlinks; `lastRead`, the content the model last
obtained of each path (`latest_seen_sha256_for_path`); the staged operations and
the content each was staged against.

One action per await point of the code: `Submit` (path conflicts, keys, and the
paths that `write_file` resolves before it locks), `Lookup` (one `get_or_insert`
on the map, with the pruning of idle entries), `Poll` and `Granted` (first poll
of the mutex, FIFO hand-over), `Stage` (resolve again, hash gate, validate all),
`Reject`, `Apply` (one write per step), `ApplyFails` (that operation and the later
ones are skipped), `Finish` (guards drop), `Abort` (the future is dropped while
it waits), `Read` (at any time, under no lock).

Abstractions: a hash equals another exactly when the contents do; matching of
search text, cells and encodings is a `Reject` at any time; permission and
plan-scope checks come before `Submit`; the `unified_diff` form, which runs
`git apply`, is left out.

### 2.2 TurnLifecycle

State: `slot` (`active_turn`), the cancelled tokens, the front end's open
receivers, how far each turn task is (`pc`) and its watchdog (`monitor`), the
shared conversation and pins, and each turn's own clone.

`Start` / `Steer` / `Interrupt` are calls of the front end; `Begin` clones;
`InlineTurn`, `Answer`, `StopBetweenRounds`, `StopMidStream` are the ways a turn
stops; `Preserve` and `Persist` write back (the first asks whether the turn is
still the active one, the second does not); `Report` sends the terminal event;
`Close` is the wrapper, which clears the slot if it still names the turn.
`Wake`, `Select`, `GraceExpires`, `Mark` are the watchdog; `Killed` is the drop of
an aborted task at one of its awaits, so an aborted task may still take steps.

Abstractions: what a turn says and which tools it runs; completed, cancelled and
failed are one terminal event; cost, session log and task state are left out. A
panic, which the wrapper catches and reports, is one of the ways a running turn
stops between rounds.

### 2.3 Jobs

State: `status` and `ended` of each record, the handles, how far each body is,
tokens, and for each job how many watchdogs are in their grace window or have
aborted and not yet marked. Every registry method takes the lock once and is one
step. A local call is a task of its own: `Submit` creates and spawns, `Attach`
registers the handle, the body runs in between. A turn's call (`Track`) lives in
the turn's task: `DropTurn` drops all of them at once. `Start` and `Finish`
overwrite whatever status they find, as the code does, so a record marked
cancelled may become running or completed; `Mark` and `Panic` do not.

Abstractions: progress texts, notifications, and the broadcast of events.

### 2.4 Checkpoint

State: the worktree; the call in progress with its snapshot; `rec`, the records;
`journal`, a sequence of rows with the two kinds of damage an append can leave;
the protected refs; the raw blobs; which records are past the retention period;
the rollback in progress with what it still has to restore and its backups.

Creating a checkpoint is `Track` → `Mutate` (any change of any files) → `Capture` →
`Protect` → `Journal` → cleanup (`Prune`, `Rewrite`, `Sweep`), each a place where
the process may die (`Crash`, `CrashInAppend`, `CrashInRewrite`) and reopen
(`Open`). A rollback is `Rollback` (select, preflight, back up), then one `Restore`
per file, or `RestoreFails`; after a failure in Atomic mode one `PutBack` per
backup; `Complete` refreshes the shadow tree and journals. The user edits any
file between any two steps (`UserEdit`).

Abstractions: a content stands for bytes, type and mode; hardlink groups are left
out; preflight and backup are one step; a ref deletion that fails in part fails as
a whole; a tree that git has collected is a `RestoreFails`; records of one
millisecond are in journal order; one process owns the store (`ShadowLock` shows
when it does not).

### 2.5 ShadowLock

`OpenFile` by name, `TryLock` on the inode, then on drop `DropHandle` and `Unlink`
as two steps; a process may die anywhere.

### 2.6 SessionLog

State: the handle (`mode`: pending in memory, live, closing, closed; or no
process), its buffered events and draft metadata, the tasks that hold a clone and
where each is inside a method, the channel `queue`, the writer thread (`pc`, its
own failure and the one it reported, the sizes it counts), the two logs as
sequences of fragments, `metadata.json`, and how much of each file a power cut
spares. `arrived` is the history of the appends.

`Buffer` and `AppendEvent` are `append_event`; `EnsureLive` is the promotion, which
sends the buffered events before the caller's own; `Sent`, `ReadMetadata`,
`WriteMetadata` are the rest of `append_event`, two steps without a lock;
`Account`, `Flush`, `Greet`, `DropHandle`, `Resume` the other methods. The writer
takes one command at a time: `WriterStores`, `WriterTears` (k bytes of the event
arrive, or the sync fails), `WriterSkips`, `WriterReads` / `WriterTruncates` (the
first event over the cap), `WriterIgnores` after a failure, `WriterFlushes`,
`WriterStops`; `WriterReleases` is the drop of the reference it took to report a
failure. `Crash` may leave a torn fragment, `PowerCut` any prefix that keeps what
was synced.

Abstractions: an event is its kind and its size; the retry inside
`append_payload_with_recovery` is a write that arrives or does not; the resume
snapshot, attachments, indexes, archive, fork and clean-up are left out.

### 2.7 ToolRound

State: the calls and how far `execute_tool_calls` is with them (`at`, `step`, the
lists `delegated`, `approved`, `batch`); what each call does (`unit`), how it ended
and its result; prompts on their way, on the screen and answered; session rules,
modes; the registry's leases; the broker's counters; the start and completion
events of each card.

Validation goes call by call: `AnswerDirectly` (control calls, arguments that do
not parse, a budget that is used up), `CollectDelegate`, `StartInline` (chains and
explores run here), `Judge` and `Conclude` (permission, the prompt and its answer).
`Dispatch` chooses the fast path that joins delegates and reads, or the serial one.
`StartSubagent` … `EndSubagent`, `NextHop`, `EndInline` are subagents, `StartRead` and
`EndTool` tools, `FoldRead` / `EndFold` the budget applied to finished reads, `Walk`,
`Flush`, `RunEdit` the serial loop. `Show`, `Decide`, `Toggle`, `Interrupt` are the
front end; `EndLeftOver` ends a subagent of a superseded turn.

Abstractions: a subagent is one request for an edit, or none; hooks, the
exploration plan and project rules are a refusal that may come at any decision;
the AI reviewer, the shell classifier and MCP elicitations are left out.

### 2.8 StreamRetry

State: where the request is, the two attempt counters (`sends`, `tries`), the
answer this attempt streams and how much of it has arrived; `emitted` and
`latched` (`StreamSkipState`), `seen` and `expected` (`SkipCursor`); what the agent
holds of the answer (`heard`), its one-shot recoveries (`spare`), the turn's token.

`Accepted`, `Throttled`, `BackedOff`, `GivesUp`, `Rotate`, `Unauthorized`, `KeyFails`,
`Refused` are `send_with_retry` and the key source; `Announce`, `Deliver(n)`,
`Diverge(n)`, `Complete`, `Lost`, `Broken`, `Resume` the stream with its reconnects: a
delta of n atoms is what is already covered, which is compared and suppressed, and
a fresh rest, which is passed on. `IdleTimeout`, `Cancel` and `StopCancelled` are the
agent's. `AgentFails` is what a failure means to the agent: compaction once after
an overflow, the parent model once for a routed turn, or the end.

Abstractions: each attempt samples any of a fixed set of answers; an atom is a
piece of text or reasoning, a sealed reasoning block or a call with its id. The
providers meant are those that use `with_stream_retry` (Anthropic, Google, Bedrock).

---------------------------------------------------------------------------

## 3. The runs

| Run | Properties | Instance | Distinct states |
|---|---|---|---|
| `mutation_queue` | `TypeOK`, `MutualExclusion`, `StagedIsFresh`, `NoBlindOverwrite`, `ImplementsPathLock`, `EveryCallEnds` | 3 calls, 4 paths, one of them a symlink | 220,554 |
| `turn_lifecycle` | `TypeOK`, `LatestTurnOwnsSlot`, `SupersededIsCancelled`, `DrainedIsSettled`, `PinsKept`, `CancelledTurnEnds` | 2 turns, 1 pin, 1 follow-up | 169,044 |
| `turn_follow_up` | `FollowUpsKept` is violated | 2 turns | |
| `jobs` | `TypeOK`, `RunningIsCancellable`, `OldestGoesFirst`, `CancelledJobEnds` | 2 local calls, 1 of a turn, 2 records kept, 2 cancellations | 609,062 |
| `jobs_aborted_turn` | `AbortedTurnLeavesNoJob` is violated | the same | |
| `checkpoint` | `TypeOK`, `RecordsRestorable`, `UserEditsSurvive`, `AtomicLeavesNoTrace`, `CleanUndoRestores` | 2 calls of a turn, 2 files, 1 edit, 1 rollback, 1 crash | 5,075,381 |
| `checkpoint_large` | `LargeFilesKept` is violated | `Orig` above the limit | |
| `shadow_lock` | `OneOwner` is violated | 2 processes, 3 lock files | |
| `session_log` | `TypeOK`, `FlushIsBarrier`, `LogIsHistory`, `CapHolds`, `CloseIsBarrier`, `WaitsEnd` | 2 tasks, 2 events, cap of 4 bytes, 2 lives, 1 fault | 488,974 |
| `tool_round` | `TypeOK`, `EditsInOrder`, `RoundPaired`, `NeverRefused`, `BudgetHolds`, `BilledIsVisible`, `CardsClose`, `CancelStopsTools`, `CancelledRoundEnds` | nine rounds of 3 calls, cap of 2, 1 subagent left over | 457,048 |
| `tool_round_prompt` | `PromptsReachUser` is violated | 2 delegates | |
| `stream_retry` | `TypeOK`, `OneGeneration`, `DivergenceIsReal`, `RequestEnds` | 5 answers, 1 resend, 2 reconnects | 466,710 |

What the passing runs show:

* **mutation_queue.** The map of mutexes is pruned by whoever looks a key up.
  Two calls must still never get different mutexes for one key
  (`MutualExclusion`, and the stronger `ImplementsPathLock`: from outside the
  queue is an atomic lock per file). The gate compares a hash once, before the
  first write; `StagedIsFresh` says that what it compared is what is overwritten,
  `NoBlindOverwrite` that no interleaving loses content the model has not
  obtained. `EveryCallEnds` is freedom from deadlock and starvation, which rests
  on the sorted order of acquisition and on FIFO hand-over.
* **turn_lifecycle.** However late the wrapper of a superseded turn runs, the
  slot names the newest turn until it ends (`LatestTurnOwnsSlot`), an older turn
  was told to stop (`SupersededIsCancelled`), the front end does not let go of a
  turn that can still write (`DrainedIsSettled`), a write-back never removes a
  pin (`PinsKept`), and a turn that ignores its token ends (`CancelledTurnEnds`).
* **jobs.** `RunningIsCancellable`: work that goes on has a registered, Running
  record, so that `/tasks` shows it and `cancel_job` accepts it. `OldestGoesFirst`
  is the retention rule. `CancelledJobEnds`: a started
  local job whose cancellation was accepted ends whether or not the tool looks at
  its token, across missed notifications and several cancellations.
* **checkpoint.** A listed record inside the retention period always has its refs
  and blobs, wherever the process died (`RecordsRestorable`). A user's edit made
  while the store was idle survives every undo (`UserEditsSurvive`). A failed
  Atomic rollback whose backups were put back leaves the worktree as it was
  (`AtomicLeavesNoTrace`), including both sides of a rename. A rollback that
  reports no conflict has restored every file to what it was before the first of
  its calls (`CleanUndoRestores`).
* **session_log.** What was appended before a flush that returned Ok stays in the
  log through crashes and power cuts (`FlushIsBarrier`); each file has the events
  in the order they were appended, also across the promotion from memory, and
  within a life none is written over the loss of an earlier one
  (`LogIsHistory`); the cap holds over several lives, torn lines included
  (`CapHolds`); when the last drop returns, the writer has written everything
  (`CloseIsBarrier`); neither a flush nor the last drop hangs, even after a
  failure (`WaitsEnd`).
* **tool_round.** An edit keeps its place among the calls although reads and
  delegates run concurrently (`EditsInOrder`); a round that goes back to the model
  has a result for every call (`RoundPaired`), a batch wider than the cap waits
  instead of being refused (`NeverRefused`), concurrent reads pass the byte limit
  by less than one read and are billed exactly if the model gets them
  (`BudgetHolds`, `BilledIsVisible`), every card is closed once (`CardsClose`), and
  a cancelled round starts no tool and ends, whatever it was waiting for
  (`CancelStopsTools`, `CancelledRoundEnds`).
* **stream_retry.** However often the stream is opened again and wherever the
  network cuts it, the agent holds the beginning of one answer and never two
  spliced (`OneGeneration`); a turn fails with a divergence only when the provider
  did answer differently (`DivergenceIsReal`: the comparison must not fall behind
  what the attempt itself passes on); a request ends although restarts, rotations
  and recoveries each reset a counter (`RequestEnds`).

### 3.1 Bounds, and why they are enough

* *mutation_queue*: three calls are needed to prune an entry between a holder and
  a waiter; the requests are chosen so that touch sets overlap in both orders and
  every kind of operation, a repeated edit, a conflicting batch and a preview occur.
* *turn_lifecycle*: every hazard is between a turn and its successor; a third turn
  only repeats the pair.
* *jobs*: three records against a limit of two make pruning bite in each state;
  two cancellations give two watchdogs of one job, or one of each job. Two jobs
  in one turn (6,527,630 states, the invariants only) showed nothing more and are
  left out of the run for time.
* *checkpoint*: two files are a rename, two calls are a chain of records on one
  file and a record that shares a blob; one large content (`Large = {e1}`) crosses
  the size limit; one crash and reopening meets each durable state once. The two
  calls are interchangeable (`SYMMETRY`), and the run has no liveness property.
* *shadow_lock*: two processes, one of which comes back.
* *session_log*: two tasks are an append that races a promotion, a flush or the
  last drop, and two that change `metadata.json`; two events and a cap of four
  bytes give an event that fits, one that does not and one after it; two lives
  are a resume after each kind of end; one failing operation, since the writer
  stores nothing after it. The durability is `turn`; the proofs hold for all three.
* *tool_round*: a round of three calls has the pairs of kinds in the orders that
  matter, the fast path with and without a read in front, a chain, an explore
  and a batch wider than the cap; used-up budgets come from `Prior`.
* *stream_retry*: the answers share a prefix, differ inside the text, stop early,
  reason differently and call before they write; two reconnects are one that
  resumes and one that finds a third answer.

`MaxCancels`, `MaxTurns`, `MaxRollbacks`, `MaxCrashes`, `MaxInodes`, `MaxEvents`,
`MaxLives`, `MaxFaults` and `MaxLeft` are the only bounds in guards; each is declared
with that word. `MaxRetries`, `MaxStreams`, `MaxBytes` and the limits of `ToolRound`
are settings of the program.

### 3.2 Fairness, and why the code justifies it

* `MutationQueue`: weak fairness of each call's own step. Tokio polls a woken
  task; no step waits for anything but a mutex. The arrival and the cancellation
  of calls, and reads, are not fair.
* `TurnLifecycle`: the write-back, the report, the wrapper, the drop of an aborted
  task, the watchdog's timer and the event loop's drain are fair. Nothing makes a
  model or a tool answer: `Answer`, `InlineTurn` and the two ways to see the
  token are *not* fair, so that the liveness rests on the watchdog.
* `Jobs`: the first poll of a body, its return, the watchdog and the turn's
  watchdog are fair; `Finish` is not: a tool may never come back.

* `SessionLog`: `WF_vars(Writer)`. The writer is a thread that blocks on its
  channel only. Nothing makes a task call the handle.
* `ToolRound`: `WF_vars(Agent)`. Futures are polled, and tools and subagents return
  once cancelled; one that does not is the business of the turn's watchdog. The
  user is not fair: a prompt may stay unanswered, so a cancelled round must not
  need the answer.
* `StreamRetry`: `WF_vars(Step)`. A wait ends with an event, its backoff or the idle
  timeout. The cancel is not fair.

One temporal property is violated (`AbortedTurnLeavesNoJob`); its run uses the fair
specification.

Runs that stop do so for a reason: `Idle` and `AllDone` are explicit stuttering
steps where everything is done, so deadlock is checked; `Jobs`, `ShadowLock`,
`SessionLog` and `ToolRound` switch the check off because a job may stay running, a
process or a session may stop, and a round ends.

---------------------------------------------------------------------------

## 4. Where the code and its documents disagree

Five are runs whose property is what a document or comment promises:

1. `FollowUpsKept` — a follow-up pushed while a turn runs is not in the turn's
   clone and is overwritten when the clone is written back; `Agent::follow_up`
   says it is visible on the current turn's next call, or the next turn.
2. `AbortedTurnLeavesNoJob` — a tracked call of a turn has a job without a handle.
   If the turn is aborted, nothing ever ends the job, and cancelling it does not
   start a watchdog.
3. `LargeFilesKept` — a file above the size limit before a call and below it after
   gets an entry without a before content; undo removes it.
4. `OneOwner` — the lock file is unlinked by name after its lock was released.
5. `PromptsReachUser` — the front end has room for one prompt. A second one, of a
   delegate that runs beside the first, replaces it; its sender is dropped and the
   first worker is refused although the user was never able to answer.

Read from the code while modelling, without a run of their own (paths under
`crates/`):

* `squeezy-tools/src/file_mutation_queue.rs:110`: a dangling symlink is locked under
  its own name, so two calls may hold one real file if its target appears.
* `squeezy-agent/src/lib.rs:5413`: the watchdog aborts the wrapper that would clear
  the slot; if the runtime drops the task before `tx.upgrade()`, no terminal event
  is sent.
* `squeezy-vcs/src/lib.rs:1485`: an error of a write in a BestEffort rollback returns
  before the journal row is written, with files already changed.
* `squeezy-agent/src/lib.rs:12761`: a worker gets the session mode of the
  configuration, not the one the user has toggled to; the comments at 11327-11334
  and 12600-12602 speak of the parent's session mode.
* `squeezy-store/src/sessions.rs:1820` and `2308-2311`: `metadata.json` is read and
  written back by the writer thread and by the tasks without a lock; the `Truncated`
  status can be lost.
* `squeezy-store/src/sessions.rs:1608-1634`: the writer upgrades a weak reference to
  report a failure. If the last clone is dropped in between, the writer's own
  reference is the last one, and its drop waits for the writer itself
  (`pc = "stuck"`).
* `squeezy-agent/src/lib.rs:1557`: the MCP queue loads `serving` and then calls
  `notified()`; a wake-up in between is missed.
* `squeezy-llm/src/google.rs:892-898`: Google's call ids are counters of the stream,
  so comparing ids (`retry.rs:414-422`) compares counts; another call in the same
  place passes for the same one.
* `squeezy-llm/src/retry.rs:476-481`: a sealed reasoning block of an abandoned answer
  is called cosmetic, but it stays in the conversation
  (`squeezy-agent/src/lib.rs:9192-9202`).
* `squeezy-agent/src/lib.rs:193-210`: the agent's idle timeout fires no later than the
  provider's, so the provider never reconnects after an idle stream.
* A terminal quota error ends `send_with_retry` at once but is not marked, so
  `with_stream_retry` sends the request again; a cancel during a backoff may end the
  turn as failed instead of cancelled.

---------------------------------------------------------------------------

## 5. The proofs

Assumptions are those on the constants (`MutationQueueAssumption`,
`TurnAssumption`, `JobsAssumption`, `CheckpointAssumption`, `ToolRoundAssumption`,
`SessionLogAssumption`, `StreamAssumption`), and `NoSymlinks` where it is stated: no
path is a symlink. TLC evaluates all but the last in the runs. The invariants that
the proofs use were checked by TLC on the runs' instances before they were proved.
They are not `INVARIANT`s of the runs: they live in the proof modules.

**MutationQueueProofs.** `TypeCorrect`; `Exclusion` and `QueueImplementsLock` from
`LockInv`. Mutual exclusion alone is not inductive: a key's mutex may be pruned
and created anew. `LockInv` adds that every mutex a call holds or waits for is
the one the map has for that key (`ArcMapped`), that two keys never share one
(`MapInjective`), that a guard is held exactly by the head of the mutex's queue
(`HeldOwns`), and that no call needs what it holds. Pruning preserves this
because it removes only mutexes that nobody refers to. Every step then takes or
drops keys of the abstract lock, or maps to a stutter. `Freshness` and
`NoLostUpdate` assume `NoSymlinks` and use `FreshInv`: a call's keys cover what it
touches, past the lock it holds them all, and what is staged is held and
unchanged. Without the assumption a dangling symlink breaks them (section 4).

**TurnLifecycleProofs.** `TurnInv` ties the slot, tokens and receivers to how far
each task is: turns start in order; a watchdog is past waiting only if its token
is cancelled; only cancelled turns are aborted; a terminal event means the turn
is past its last write or aborted. `SlotNamesLatest`, `Superseded` and `Drained`
follow; `PinsSurvive` is a property of each step.

**JobsProofs.** What an update does to the registry is three lemmas: pruning only
takes terminal records (`Retained`), `create` adds one (`Registers`), `finish`
touches one (`Concludes`). `JobsInv` adds to `RunningIsCancellable` that a body
waiting for its first poll has an active record, since `start` does nothing
without one, and that a watchdog which has to mark has aborted already: swap the
two lines of `cancel` and the proof fails there. `RunningCancellable` follows, for
any number of jobs and any limit. `LatestKept` proves the retention rule: no ended record
that stays had ended before one that is forgotten. A step
prunes once, by sorting on the time of the end, and what remains is the upper part
of that order (`Oldest`, `RetainsLatest`). To take the first n of the sorted records
they must be finitely many; this is not assumed of the calls, it is an invariant
(`FewRecords`).

**CheckpointProofs.** For any files, contents, call groups, size limit, and any number
of rollbacks and crashes; `Call` and `Edit` are disjoint because no tool writes exactly
what the user wrote (a coincidence would make an edit invisible to the conflict
check, which compares contents). `IInv` has ten parts. `Journaled`: each row is of one
call that was made, no call has two. `Shaped`: a record has one entry per path, and
it says what the snapshot said. `InCall`: while a call is between capture and journal,
blobs and refs are there before the row is, which with `RecordsRestorable` carries
over a crash at any step, since a sweep removes only what no row names. `Fresh`: every
content in a file, record or plan is one that somebody has written, so a user's next
edit is new. `Quiet`: an edit made while the store was idle is the after content of no
record, so that the conflict check sees it. `Planned`: no rollback in progress has a
restore or a backup of such a file. `BackedUp`: what an Atomic rollback has not put back
yet is what it has backed up, the files around it are as they were. `WillBe`: a rollback
without conflicts will leave each file of its calls as the first of them found it. The
last two speak of the steps still to come: that is what makes them inductive.
`TypeCorrect`, `Restorable`, `EditsSurvive`, `LeavesNoTrace` and `UndoRestores` follow.
Most of the work is what the selection, the ordering by path and the walk that composes
the entries of several records compute (`SelectedFacts`, `ByPathFacts`, `WalkFacts`).

**ToolRoundProofs.** For any set of rounds, any limits and any number of leases
left over. `TInv` is the type invariant with `Sorted`: which kinds of calls each
list may hold and how far it reaches, without which `step` may leave its range.
`BudgetKept` and `CancelStops` need no more. `LInv` adds `Leased`: who is in the
registry is a delegate that runs now or the inline call that is being validated,
so that a batch never meets inline leases; `CapNeverRefuses` follows. `RInv` adds
where the calls without a result are (`Paired`, as long as the round is not
cancelled), that what has ended has an outcome (`Known`) and that only an interrupt
cancels a prompt (`Honest`): without it a round that was not cancelled could take
the way of a cancelled one, which leaves calls unanswered. `Answered` follows.
Order, bill and cards need to know which calls have begun: `OInv`. The lists rise
with the index of the calls (`Rising`); what is not validated yet has not begun
(`Ahead`); in the serial loop what lies behind `step` has a result or waits in the
batch, and what lies ahead has not begun (`Along`); only the place the round is at
lets a call run or ask (`Placed`); an edit begins after everything before it has
ended, and nothing after it begins before it has (`Behind`). Each card is opened
exactly if its call has come that far and closed exactly if it is not in `Unclosed`
(`Cards`): counting completions needs to know, for each place of the round, which
cards are still owed one. Lemma `Effects` reduces the actions to what they do to the
lists and the calls, so that each part is proved once per effect. `EditsOrdered`,
`BillVisible` and `CardsClosed` follow.

**SessionLogProofs.** For any tasks, kinds and sizes of events, cap, durability
and any number of lives and faults. The buffer of a pending handle and the channel
of a live one are one `Backlog`; the first lemmas reduce the actions to what they
do to it and to the files (`Effect`: an event arrives, the writer puts n bytes of
the first one, it syncs, the process ends, ...), which is what the rest of the proof
argues about. `IInv` says: what waits is of this life, in order, after everything in
the files and after every flush that does not cover it (`Waits`); until the first
failure each event of this life is in its file, skipped or waiting (`Accounted`);
a shutdown is the last command (`ShutdownLast`); what is acknowledged lies in the synced
part (`Safe`); everything of a fragment's life that comes before it and was not
skipped lies whole before it (`Holes`). The properties are not inductive alone:
`Safe` at a flush and `Holes` at a write both need `Accounted` and `Waits`,
`CloseIsBarrier` needs `ShutdownLast`, and `Holes` survives a power cut because only the
last fragment is torn. `FlushBarrier`, `CloseBarrier` and `LogHistory` follow.
The cap needs what the writer knows of its files: the size it keeps is the length of the
file (`Measured`), which it asks the disk for when it starts. So a line torn in an earlier
life counts, and what fits by the writer's size fits in the file. `Held` types the rest of
the state, and `InHand` says that the command it truncates for is an append.
`TypeCorrect` and `CapKept` follow.

**StreamRetryProofs.** For any set of answers and any limits. `IInv` separates what
`StreamSkipState` has accumulated from what the agent holds: of each kind the agent's
content is what was emitted (`Passed`), what was emitted is the beginning of a sampled
answer (`Prefixed`), and what has arrived of the answer being streamed is what the prefix holds
up to the cursor (`Covering`, `Level`). What is announced, and latched instead of
compared, is announced once (`Once`). The step that matters is a delta that straddles the end
of what is covered: its first part is compared and dropped, its rest extends `emitted`,
and both remain the beginning of the *same* answer only because the comparison reached
the end of `emitted` before the rest was passed on. `TypeCorrect`, `OneAnswer` and
`DivergenceReal` follow.

**SequenceFacts, Subsequence.** The prover's backends cannot instantiate the library's
induction theorems, which take an operator. These modules prove induction for a *set*
of naturals (`NatSetInduction`) or of sequences (`SeqSetInduction`), from the
well-foundedness of finite subsets, and that functions defined by recursion on an
interval exist (`RecursionExists`). What remains is to put the statement into a set
comprehension. Nothing can be proved of `SelectSeq` and of a recursive operator, so the models
filter with `Only`, a recursive function, sort with a `CHOOSE` of the sorted sequence, whose
existence is lemma `SortedExists`, and walk a journal by a recursive function.

---------------------------------------------------------------------------

## 6. What is only model-checked, and what is not modelled

Only model-checked:

* the liveness properties (`EveryCallEnds`, `CancelledTurnEnds`, `CancelledJobEnds`,
  `WaitsEnd`, `CancelledRoundEnds`, `RequestEnds`): a proof needs `ENABLED` and rules for
  fairness that the prover does not have;
* `StagedIsFresh` and `NoBlindOverwrite` when paths are symlinks: `Freshness` and
  `NoLostUpdate` are proved under `NoSymlinks`, the run has one symlink. With a
  dangling one they are false (section 4);
* `ShadowLock`, whose one property is violated, as are those of the other runs that
  expect a violation.

Not modelled: the components with that status in `PROJECT.json`. Most of the
repository by lines is data and I/O without an ordering to get wrong: the terminal
UI's rendering (one file of it is a sixth of the code), configuration schemas, wire
formats, parsers per language, graph resolution, ranking formulas, prompts,
command-line parsing, evaluation drivers. The share of the source the models cover
is small for that reason: they cover the code where tasks, threads, processes and
faults meet. Within the modelled components, what is left out is named in section 2
and in the components' notes. The hazards that no property covers are listed in
`PROJECT.json`, each with the reason.

---------------------------------------------------------------------------

## 7. Plan

In order of what a fault would cost the user:

1. done: mutation queue and tools, turn lifecycle, checkpoint store, shadow lock,
   job registry; session log, tool rounds with permissions and subagents, model
   requests with their retries.
2. done: proofs of every safety and action property of the passing runs.
3. `McpQueue`: tickets, `serving`, wake-ups, shutdown. To check: FIFO, and
   whether shutdown always ends; to prove: one task is served at a time.
4. `MemoryExtraction` with `clear_conversation`; compaction keeps pinned entries.
5. Project rules: the settings file under its lock file with the five-second
   timeout, and a lock file left by a dead process.
6. `TurnLifecycle` composed with `Jobs`: a turn's watchdog and its jobs in one
   model, with the job records of an aborted turn.
