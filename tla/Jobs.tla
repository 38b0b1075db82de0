------------------------------- MODULE Jobs ---------------------------------
(***************************************************************************)
(* The registry of background jobs (JobRegistry in squeezy-agent): jobs of *)
(* local tool calls, which are tasks of their own with an abort handle,    *)
(* and jobs of the tool calls a turn makes, which live inside the turn's   *)
(* task.  A registry call takes the lock once, so it is one step; a body   *)
(* runs between them on another thread, and goes on after it is aborted    *)
(* until it next yields.  Titles, progress, notifications and the events   *)
(* sent to subscribers are left out.                                       *)
(***************************************************************************)
EXTENDS Naturals, FiniteSets

CONSTANTS LocalCall,    \* calls the user starts (start_local_tool_job)
          TurnCall,     \* tracked calls of one turn (run_one_tool)
          MaxRetained,  \* MAX_JOBS_RETAINED
          MaxCancels,   \* bound: cancellations the user asks for
          NoCall        \* the front end is not registering a call

ASSUME JobsAssumption ==
    /\ MaxRetained \in Nat
    /\ MaxCancels \in Nat
    /\ LocalCall \cap TurnCall = {}
    /\ NoCall \notin LocalCall \cup TurnCall

VARIABLES status,    \* status[j]: its record's status, "none" without a record
          ended,     \* ended[j]: when it ended, 0 if it has not
          clock,     \* the time of the latest end
          attached,  \* the records that have an abort handle
          body,      \* body[j]: how far the call's future is
          aborted,   \* the bodies whose task was aborted
          token,     \* the jobs whose cancellation token is cancelled
          watchers,  \* watchers[j]: watchdogs in their grace window
          marks,     \* marks[j]: watchdogs that aborted and have to mark
          turn,      \* the turn that makes TurnCall
          front,     \* the call the front end has spawned and not attached
          cancels    \* cancellations asked for so far

registry == <<status, ended, clock, attached>>
vars == <<status, ended, clock, attached, body, aborted, token, watchers, marks,
          turn, front, cancels>>

Call == LocalCall \cup TurnCall

ActiveStatus == {"queued", "running"}
TerminalStatus == {"completed", "failed", "cancelled"}

Active(j) == status[j] \in ActiveStatus
Registered == {j \in Call : status[j] # "none"}

Init ==
    /\ status = [j \in Call |-> "none"]
    /\ ended = [j \in Call |-> 0]
    /\ clock = 0
    /\ attached = {}
    /\ body = [j \in Call |-> "unborn"]
    /\ aborted = {}
    /\ token = {}
    /\ watchers = [j \in Call |-> 0]
    /\ marks = [j \in Call |-> 0]
    /\ turn = "running"
    /\ front = NoCall
    /\ cancels = 0

-----------------------------------------------------------------------------
\* Retention: the records to spare go, terminal ones only, the earliest end first.
\* Mutation: the filter on terminal records is dropped.
EveryRecord(st) == {j \in Call : st[j] # "none"}

Expendable(st) == {j \in Call : st[j] \in TerminalStatus}

\* Mutation: the latest end first.
Newest(st, at) ==
    {j \in Expendable(st) :
        Cardinality({k \in Expendable(st) : at[k] > at[j]}) + MaxRetained
            < Cardinality({k \in Call : st[k] # "none"})}

Pruned(st, at) ==
    {j \in Expendable(st) :
        Cardinality({k \in Expendable(st) : at[k] < at[j]}) + MaxRetained
            < Cardinality({k \in Call : st[k] # "none"})}

\* prune_completed_jobs on the records as the caller has just left them
Retain(st, at) ==
    /\ status' = [j \in Call |-> IF j \in Pruned(st, at) THEN "none" ELSE st[j]]
    /\ ended' = at
    /\ attached' = attached \ Pruned(st, at)

\* create (update_record)
Register(j) ==
    /\ Retain([status EXCEPT ![j] = "queued"], ended)
    /\ UNCHANGED clock

\* finish: whatever the status was, if the record is still there
Conclude(j, s) ==
    \/ /\ status[j] # "none"
       /\ clock' = clock + 1
       /\ Retain([status EXCEPT ![j] = s], [ended EXCEPT ![j] = clock'])
    \/ status[j] = "none" /\ UNCHANGED registry

\* finish_if_active
ConcludeIfActive(j, s) ==
    \/ Active(j) /\ Conclude(j, s)
    \/ ~Active(j) /\ UNCHANGED registry

-----------------------------------------------------------------------------
\* The front end's thread: start_local_tool_job creates and spawns, then
\* attaches the abort handle; cancel_job comes from the same thread.
Submit(j) ==
    /\ front = NoCall
    /\ body[j] = "unborn"
    /\ Register(j)
    /\ body' = [body EXCEPT ![j] = "ready"]
    /\ front' = j
    /\ UNCHANGED <<aborted, token, watchers, marks, turn, cancels>>

\* Mutations: the record is not looked up; only a job that has not started is.
AnyRecord(j) == TRUE
QueuedOnly(j) == status[j] = "queued"

\* attach_handle refuses a record that is gone or has ended.
Attachable(j) == Active(j)

Attach ==
    /\ front # NoCall
    /\ attached' = IF Attachable(front) THEN attached \cup {front} ELSE attached
    /\ front' = NoCall
    /\ UNCHANGED <<status, ended, clock, body, aborted, token, watchers, marks, turn, cancels>>

\* cancel: the token, and a watchdog when there is a handle to abort with
Cancel(j) ==
    /\ front = NoCall
    /\ cancels < MaxCancels
    /\ Active(j)
    /\ token' = token \cup {j}
    /\ watchers' = [watchers EXCEPT ![j] = IF j \in attached THEN @ + 1 ELSE @]
    /\ cancels' = cancels + 1
    /\ UNCHANGED <<registry, body, aborted, marks, turn, front>>

-----------------------------------------------------------------------------
\* A turn's tool call; the job's token is a child of the turn's.
Track(j) ==
    /\ turn = "running"
    /\ body[j] = "unborn"
    /\ Register(j)
    /\ body' = [body EXCEPT ![j] = "ready"]
    /\ UNCHANGED <<aborted, token, watchers, marks, turn, front, cancels>>

\* jobs.start sets Running without asking for the status it replaces.
Start(j) ==
    /\ body[j] = "ready"
    /\ status' = [status EXCEPT ![j] = IF @ = "none" THEN @ ELSE "running"]
    /\ body' = [body EXCEPT ![j] = "working"]
    /\ UNCHANGED <<ended, clock, attached, aborted, token, watchers, marks, turn, front, cancels>>

\* The tool returned: success, an error, or cancelled if it saw its token.
Finish(j) ==
    /\ body[j] = "working"
    /\ \E s \in TerminalStatus :
           /\ s = "cancelled" => j \in token
           /\ Conclude(j, s)
    /\ body' = [body EXCEPT ![j] = "finished"]
    /\ UNCHANGED <<aborted, token, watchers, marks, turn, front, cancels>>

\* spawn_observed_job catches a panic of a local call.
Panic(j) ==
    /\ body[j] = "working"
    /\ ConcludeIfActive(j, "failed")
    /\ body' = [body EXCEPT ![j] = "finished"]
    /\ UNCHANGED <<aborted, token, watchers, marks, turn, front, cancels>>

\* notify_waiters wakes the watchdogs that have been polled, and no others.
Notify(j) == \E missed \in 0..watchers[j] : watchers' = [watchers EXCEPT ![j] = missed]

\* The task's last step: done.notify_waiters(); for a turn's call, its return.
Return(j) ==
    /\ body[j] = "finished"
    /\ Notify(j)
    /\ body' = [body EXCEPT ![j] = "over"]
    /\ UNCHANGED <<registry, aborted, token, marks, turn, front, cancels>>

-----------------------------------------------------------------------------
\* A watchdog's grace window ends: abort first, then mark.
GraceExpires(j) ==
    /\ watchers[j] > 0
    /\ aborted' = aborted \cup {j}
    /\ watchers' = [watchers EXCEPT ![j] = @ - 1]
    /\ marks' = [marks EXCEPT ![j] = @ + 1]
    /\ UNCHANGED <<registry, body, token, turn, front, cancels>>

\* finish_if_active(Cancelled), and notify_waiters if that changed something
Mark(j) ==
    /\ marks[j] > 0
    /\ ConcludeIfActive(j, "cancelled")
    /\ marks' = [marks EXCEPT ![j] = @ - 1]
    /\ IF Active(j) THEN Notify(j) ELSE UNCHANGED watchers
    /\ UNCHANGED <<body, aborted, token, turn, front, cancels>>

\* An aborted task is dropped where it next yields.
Drop(j) ==
    /\ j \in aborted
    /\ body[j] \in {"ready", "working"}
    /\ body' = [body EXCEPT ![j] = "dropped"]
    /\ UNCHANGED <<registry, aborted, token, watchers, marks, turn, front, cancels>>

\* The turn is cancelled, and so is every child token.
CancelTurn ==
    /\ turn = "running"
    /\ turn' = "cancelled"
    /\ token' = token \cup TurnCall
    /\ UNCHANGED <<registry, body, aborted, watchers, marks, front, cancels>>

\* The turn's own watchdog (spawn_turn_cancel_monitor).
AbortTurn ==
    /\ turn = "cancelled"
    /\ turn' = "aborted"
    /\ aborted' = aborted \cup TurnCall
    /\ UNCHANGED <<registry, body, token, watchers, marks, front, cancels>>

Left(b) == IF b \in {"ready", "working", "finished"} THEN "dropped" ELSE b

\* The turn's task is dropped, or unwinds, with every call it is making.
DropTurn ==
    /\ turn # "over"
    /\ turn' = "over"
    /\ body' = [j \in Call |-> IF j \in TurnCall THEN Left(body[j]) ELSE body[j]]
    /\ UNCHANGED <<registry, aborted, token, watchers, marks, front, cancels>>

-----------------------------------------------------------------------------
Next ==
    \/ \E j \in LocalCall :
           Submit(j) \/ Panic(j) \/ GraceExpires(j) \/ Mark(j) \/ Drop(j)
    \/ \E j \in TurnCall : Track(j)
    \/ \E j \in Call : Cancel(j) \/ Start(j) \/ Finish(j) \/ Return(j)
    \/ Attach \/ CancelTurn \/ AbortTurn \/ DropTurn

\* The runtime polls its tasks and timers, and drops what was aborted.  No
\* fairness for Finish: a tool may never come back.
Fairness ==
    /\ WF_vars(Attach)
    /\ WF_vars(AbortTurn)
    /\ WF_vars(DropTurn /\ turn = "aborted")
    /\ \A j \in LocalCall :
           /\ WF_vars(GraceExpires(j))
           /\ WF_vars(Mark(j))
           /\ WF_vars(Drop(j))
    /\ \A j \in Call : WF_vars(Start(j)) /\ WF_vars(Return(j))

Spec == Init /\ [][Next]_vars /\ Fairness

-----------------------------------------------------------------------------
\* What a state is made of; a handle belongs to a record.
TypeOK ==
    /\ status \in [Call -> {"none"} \cup ActiveStatus \cup TerminalStatus]
    /\ ended \in [Call -> Nat]
    /\ clock \in Nat
    /\ attached \subseteq Registered \cap LocalCall
    /\ body \in [Call -> {"unborn", "ready", "working", "finished", "over", "dropped"}]
    /\ aborted \subseteq Call
    /\ token \subseteq Call
    /\ watchers \in [Call -> Nat]
    /\ marks \in [Call -> Nat]
    /\ turn \in {"running", "cancelled", "aborted", "over"}
    /\ front \in LocalCall \cup {NoCall}
    /\ cancels \in 0..MaxCancels

\* Work that is going on can be found and cancelled: the record of a body
\* that runs and was not aborted is registered and Running, whatever ends,
\* is pruned or gives up around it (prune_completed_jobs, the order of abort
\* and finish_if_active in the watchdog).
RunningIsCancellable ==
    \A j \in Call : body[j] = "working" /\ j \notin aborted => status[j] = "running"

\* A job that ended later is never dropped before one that ended earlier.
OldestGoesFirst ==
    [][\A j, k \in Call :
           status[j] # "none" /\ status'[j] = "none" /\ status'[k] \in TerminalStatus
               => ended'[j] <= ended'[k]]_vars

\* Cancelling a local job whose body has started ends it, even if the tool
\* never looks at its token (ASYNC_BACKGROUND_WORK.md:12-14).
CancelledJobEnds ==
    \A j \in LocalCall :
        (j \in token /\ body[j] = "working" /\ j \notin aborted) ~> (status[j] \notin ActiveStatus)

\* The same for the jobs of a turn that was aborted: "rather than leaving an
\* active slot behind" (ASYNC_BACKGROUND_WORK.md:14).
AbortedTurnLeavesNoJob ==
    \A j \in TurnCall : (turn = "aborted" /\ Active(j)) ~> ~Active(j)

=============================================================================
