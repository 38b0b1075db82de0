----------------------------- MODULE ToolRound ------------------------------
(***************************************************************************)
(* One round of tool calls (execute_tool_calls in squeezy-agent): the      *)
(* calls of one model response are validated in order, then the delegates  *)
(* and the reads run concurrently and every other tool alone, and the      *)
(* results go to the model together.  Subagents ask for their own edits;   *)
(* the front end shows one permission prompt at a time.                    *)
(*                                                                         *)
(* A call is a kind and what it touches.  A subagent is one request for an *)
(* edit, or none.  The AI reviewer and the shell classifier are left out;  *)
(* what hooks, the exploration plan and project rules refuse is a refusal  *)
(* that may come at any decision.                                          *)
(***************************************************************************)
EXTENDS Naturals, Sequences, FiniteSets

CONSTANTS Round,          \* the sequences of calls to consider
          Target,         \* what edits touch
          Prior,          \* <<calls, bytes>> the turn may have used before
          Mode,           \* the modes the session may be configured with
          MaxConcurrent,  \* subagents.max_concurrent
          MaxParallel,    \* max_parallel_tools
          MaxToolCalls,   \* max_tool_calls_per_turn
          MaxBytesRead,   \* max_tool_bytes_read_per_turn
          RedundantCalls, \* REDUNDANT_DELEGATE_EXPLORE_CALLS
          ReadBytes,      \* what a successful read costs
          MaxLeft,        \* bound: subagents left over from a superseded turn
          None            \* no prompt on the screen

Kind == {"control", "invalid", "explore", "chain", "delegate", "review", "read", "edit"}

ASSUME ToolRoundAssumption ==
    /\ Round \subseteq Seq([kind : Kind, target : Target])
    /\ Prior \subseteq Nat \X (0..MaxBytesRead + ReadBytes - 1)
    /\ Mode \subseteq {"build", "plan"}
    /\ {MaxConcurrent, MaxParallel} \subseteq Nat \ {0}
    /\ {MaxToolCalls, MaxBytesRead, RedundantCalls, MaxLeft} \subseteq Nat
    /\ ReadBytes \in Nat \ {0}
    /\ None \notin Nat

VARIABLES calls,      \* the round
          at,         \* where execute_tool_calls is
          step,       \* the call it validates, then the position in approved
          delegated,  \* delegate_batch_calls
          approved,   \* the approved calls, in order
          batch,      \* parallel_batch
          unit,       \* unit[i]: what call i is doing
          outcome,    \* outcome[i]: how its execution ended
          results,    \* results[i]: its result in the round
          hops,       \* subagents an inline call has still to run
          asked,      \* the subagents that have made their request
          inbox,      \* the prompts on their way to the front end
          slot,       \* pending_approval
          answer,     \* answer[i]: what the user said to call i's prompt
          rules,      \* rules[x]: the last session rule for edits of x
          mode,       \* the session mode, which the user toggles
          configMode, \* the session mode of the configuration
          leases,     \* the calls whose subagent is in the registry
          left,       \* cancelled subagents of a superseded turn still in it
          cancelled,  \* the turn's token
          used,       \* tool_calls
          billed,     \* bytes_read
          started,    \* started[i]: ToolCallStarted events
          completed   \* completed[i]: ToolCallCompleted events

place == <<at, step>>
collected == <<delegated, approved, batch>>
work == <<unit, outcome, hops, asked>>
prompts == <<inbox, slot, answer>>
policy == <<rules, mode, configMode>>
registry == <<leases, left>>
broker == <<used, billed>>
events == <<started, completed>>
vars == <<calls, at, step, delegated, approved, batch, unit, outcome, results, hops, asked,
          inbox, slot, answer, rules, mode, configMode, leases, left, cancelled, used, billed,
          started, completed>>

Index == DOMAIN calls
KindOf(i) == calls[i].kind
Busy == {"queued", "running", "asking", "editing"}

\* is_write_capable; a chain's steps are delegates
Writes(i) == KindOf(i) \in {"delegate", "chain"}

Inline(i) == KindOf(i) \in {"explore", "chain"}
Delegate(i) == KindOf(i) \in {"delegate", "review"}

NoAnswer == [action |-> "none", lasting |-> FALSE]

Init ==
    /\ calls \in Round
    /\ at = "validate" /\ step = 1
    /\ delegated = {} /\ approved = <<>> /\ batch = <<>>
    /\ unit = [i \in Index |-> "none"] /\ outcome = [i \in Index |-> "none"]
    /\ results = [i \in Index |-> "none"]
    /\ hops = 0 /\ asked = {}
    /\ inbox = {} /\ slot = None /\ answer = [i \in Index |-> NoAnswer]
    /\ rules = [x \in Target |-> "none"]
    /\ configMode \in Mode /\ mode \in {"build", "plan"}
    /\ leases = {} /\ left = MaxLeft
    /\ cancelled = FALSE
    /\ \E p \in Prior : used = p[1] /\ billed = p[2]
    /\ started = [i \in Index |-> 0] /\ completed = [i \in Index |-> 0]

-----------------------------------------------------------------------------
(* Permissions. *)

\* mode_permission_verdict, then evaluate_with_extra: the last session rule, else the default
Verdict(m, i) ==
    IF KindOf(i) = "read" THEN "allow"
    ELSE IF m = "plan" THEN "deny"
    ELSE IF rules[calls[i].target] = "none" THEN "ask"
    ELSE rules[calls[i].target]

\* ApprovalRequested, through the drain task of a subagent if it comes from one
Ask(i) ==
    /\ unit' = [unit EXCEPT ![i] = "asking"]
    /\ inbox' = inbox \cup {i}

\* Mutation: the prompt is awaited without or_cancel.
AnswerOnly(i, said) ==
    unit[i] = "asking" /\ said = answer[i].action /\ said # "none"

\* decision_rx.or_cancel: what the wait of call i for its prompt yields
Heard(i, said) ==
    /\ unit[i] = "asking"
    /\ \/ said = answer[i].action /\ said # "none"
       \/ said = "cancel" /\ cancelled

\* install_persistent_rule, for the answers that ask for one
Installed(i) ==
    rules' = IF answer[i].lasting
             THEN [rules EXCEPT ![calls[i].target] = answer[i].action]
             ELSE rules

\* The event loop takes the next prompt; the one on the screen is dropped with its sender.
Show(i) ==
    /\ i \in inbox
    /\ inbox' = inbox \ {i}
    /\ slot' = i
    /\ answer' = IF slot = None THEN answer ELSE [answer EXCEPT ![slot].action = "lost"]
    /\ UNCHANGED <<calls, place, collected, work, results, policy, registry, cancelled, broker,
                   events>>

\* The user answers the prompt on the screen: once, or for the session or the project.
Decide(action, lasting) ==
    /\ slot # None
    /\ action = "ask" => lasting
    /\ answer' = [answer EXCEPT ![slot] = [action |-> action, lasting |-> lasting]]
    /\ slot' = None
    /\ UNCHANGED <<calls, place, collected, work, results, inbox, policy, registry, cancelled,
                   broker, events>>

Ended == at \in {"committed", "cancelled"}

\* request_turn_interrupt
Interrupt ==
    /\ ~cancelled /\ ~Ended
    /\ cancelled' = TRUE
    /\ answer' = IF slot = None THEN answer ELSE [answer EXCEPT ![slot].action = "cancel"]
    /\ slot' = None
    /\ UNCHANGED <<calls, place, collected, work, results, inbox, policy, registry, broker,
                   events>>

\* set_session_mode
Toggle ==
    /\ ~Ended
    /\ mode' = IF mode = "build" THEN "plan" ELSE "build"
    /\ UNCHANGED <<calls, place, collected, work, results, prompts, rules, configMode, registry,
                   cancelled, broker, events>>

-----------------------------------------------------------------------------
(* Validation, one call at a time. *)
Validating(i) == at = "validate" /\ step = i /\ i \in Index /\ unit[i] = "none"

\* a result that needs no execution, with its event
Settled(i, status) ==
    /\ results' = [results EXCEPT ![i] = status]
    /\ completed' = [completed EXCEPT ![i] = @ + 1]

\* The token is looked at before every call.
StopValidating(i) ==
    /\ Validating(i) /\ cancelled
    /\ Settled(i, "cancelled")
    /\ at' = "done"
    /\ UNCHANGED <<calls, step, collected, work, prompts, policy, registry, cancelled, broker,
                   started>>

\* The agent's own tools, invalid arguments, and a delegate the turn no longer needs
AnswerDirectly(i) ==
    /\ Validating(i) /\ ~cancelled
    /\ \/ KindOf(i) = "control"
          /\ results' = [results EXCEPT ![i] = "ok"] /\ UNCHANGED completed
       \/ KindOf(i) = "invalid" /\ Settled(i, "error")
       \/ KindOf(i) = "delegate" /\ used >= RedundantCalls /\ Settled(i, "denied")
    /\ step' = step + 1
    /\ UNCHANGED <<calls, at, collected, work, prompts, policy, registry, cancelled, broker,
                   started>>

CollectDelegate(i) ==
    /\ Validating(i) /\ ~cancelled /\ Delegate(i)
    /\ KindOf(i) = "delegate" => used < RedundantCalls
    /\ delegated' = delegated \cup {i}
    /\ step' = step + 1
    /\ UNCHANGED <<calls, at, approved, batch, work, results, prompts, policy, registry,
                   cancelled, broker, events>>

StartInline(i) ==
    /\ Validating(i) /\ ~cancelled /\ Inline(i)
    /\ started' = [started EXCEPT ![i] = @ + 1]
    /\ hops' = (IF KindOf(i) = "chain" THEN 2 ELSE 1)
    /\ at' = "inline"
    /\ UNCHANGED <<calls, step, collected, unit, outcome, asked, results, prompts, policy,
                   registry, cancelled, broker, completed>>

\* reserve_call, then permission_decision
Judge(i) ==
    /\ Validating(i) /\ ~cancelled /\ KindOf(i) \in {"read", "edit"}
    /\ used' = used + 1
    /\ \/ /\ used' > MaxToolCalls
          /\ Settled(i, "denied") /\ step' = step + 1
          /\ UNCHANGED <<approved, unit, inbox>>
       \/ /\ used' <= MaxToolCalls
          /\ \/ /\ Settled(i, "denied") /\ step' = step + 1
                /\ UNCHANGED <<approved, unit, inbox>>
             \/ /\ Verdict(mode, i) = "allow"
                /\ approved' = Append(approved, i) /\ step' = step + 1
                /\ UNCHANGED <<unit, inbox, results, completed>>
             \/ /\ Verdict(mode, i) = "ask"
                /\ Ask(i)
                /\ UNCHANGED <<approved, step, results, completed>>
    /\ UNCHANGED <<calls, at, delegated, batch, outcome, hops, asked, slot, answer, policy,
                   registry, cancelled, billed, started>>

\* the answer to the prompt of a call being validated
Conclude(i, said) ==
    /\ at = "validate" /\ step = i /\ Heard(i, said)
    /\ unit' = [unit EXCEPT ![i] = "none"]
    /\ inbox' = inbox \ {i}
    /\ IF said \in {"cancel", "lost"} THEN UNCHANGED rules ELSE Installed(i)
    /\ CASE said = "allow" -> /\ approved' = Append(approved, i) /\ step' = step + 1
                              /\ UNCHANGED <<at, results, completed>>
         [] said = "cancel" -> /\ Settled(i, "cancelled") /\ at' = "done"
                               /\ UNCHANGED <<approved, step>>
         [] OTHER -> /\ Settled(i, "denied") /\ step' = step + 1
                     /\ UNCHANGED <<approved, at>>
    /\ UNCHANGED <<calls, delegated, batch, outcome, hops, asked, slot, answer, mode, configMode,
                   registry, cancelled, broker, started>>

-----------------------------------------------------------------------------
(* Subagents: the delegates of the round, and those of an inline call. *)

\* Mutation: cancelled subagents that have not let go of their lease count.
AllLeases == Cardinality(leases) + left

\* SubagentRegistry::start counts the leases whose token is not cancelled
Active == IF cancelled THEN 0 ELSE Cardinality(leases)

\* buffer_unordered for delegates, one at a time for an inline call
MayRun(i) ==
    \/ unit[i] = "queued"
       /\ Cardinality({j \in delegated : unit[j] \in Busy \ {"queued"}}) < MaxConcurrent
    \/ at = "inline" /\ step = i /\ unit[i] = "none" /\ hops > 0
       /\ ~(KindOf(i) = "chain" /\ cancelled)

\* run_subagent_dispatch up to the lease
StartSubagent(i) ==
    /\ Inline(i) \/ i \in delegated
    /\ MayRun(i)
    /\ IF Active < MaxConcurrent
       THEN /\ leases' = leases \cup {i}
            /\ unit' = [unit EXCEPT ![i] = "running"]
            /\ UNCHANGED outcome
       ELSE /\ unit' = [unit EXCEPT ![i] = "ended"]
            /\ outcome' = [outcome EXCEPT ![i] = "capped"]
            /\ UNCHANGED leases
    /\ UNCHANGED <<calls, place, collected, hops, asked, results, prompts, policy, left,
                   cancelled, broker, events>>

\* A worker's round reaches an edit, which is judged in the mode of the configuration.
RequestEdit(i) ==
    /\ i \in leases /\ unit[i] = "running" /\ Writes(i) /\ i \notin asked /\ ~cancelled
    /\ asked' = asked \cup {i}
    /\ \/ UNCHANGED <<unit, inbox>>
       \/ /\ Verdict(configMode, i) = "allow"
          /\ unit' = [unit EXCEPT ![i] = "editing"] /\ UNCHANGED inbox
       \/ Verdict(configMode, i) = "ask" /\ Ask(i)
    /\ UNCHANGED <<calls, place, collected, outcome, hops, results, slot, answer, policy,
                   registry, cancelled, broker, events>>

\* the answer to a subagent's prompt; run_one_tool looks at the token again
HearAnswer(i, said) ==
    /\ i \in leases /\ Heard(i, said)
    /\ unit' = [unit EXCEPT ![i] = IF said = "allow" /\ ~cancelled THEN "editing" ELSE "running"]
    /\ inbox' = inbox \ {i}
    /\ answer' = [answer EXCEPT ![i] = NoAnswer]
    /\ IF said \in {"cancel", "lost"} THEN UNCHANGED rules ELSE Installed(i)
    /\ UNCHANGED <<calls, place, collected, outcome, hops, asked, results, slot, mode,
                   configMode, registry, cancelled, broker, events>>

EndEdit(i) ==
    /\ unit[i] = "editing"
    /\ unit' = [unit EXCEPT ![i] = "running"]
    /\ UNCHANGED <<calls, place, collected, outcome, hops, asked, results, prompts, policy,
                   registry, cancelled, broker, events>>

\* The body ends and its lease is dropped.
EndSubagent(i, status) ==
    /\ i \in leases /\ unit[i] = "running"
    /\ status = "cancelled" => cancelled
    /\ leases' = leases \ {i}
    /\ unit' = [unit EXCEPT ![i] = "ended"]
    /\ outcome' = [outcome EXCEPT ![i] = status]
    /\ UNCHANGED <<calls, place, collected, hops, asked, results, prompts, policy, left,
                   cancelled, broker, events>>

\* Mutation: finish and the drop of the lease both count.
Twice(n) == n - 2

\* SubagentRegistry::finish
Released(n) == n - 1

\* A subagent of a superseded turn notices that it was cancelled.
EndLeftOver ==
    /\ left > 0 /\ left' = Released(left)
    /\ UNCHANGED <<calls, place, collected, work, results, prompts, policy, leases, cancelled,
                   broker, events>>

Reported(i) == IF outcome[i] = "capped" THEN "denied" ELSE outcome[i]

\* handle_delegate_chain_call: a step that succeeded is followed by the next
NextHop(i) ==
    /\ at = "inline" /\ step = i /\ unit[i] = "ended"
    /\ hops > 1 /\ outcome[i] = "ok"
    /\ hops' = hops - 1
    /\ unit' = [unit EXCEPT ![i] = "none"]
    /\ asked' = asked \ {i}
    /\ UNCHANGED <<calls, place, collected, outcome, results, prompts, policy, registry,
                   cancelled, broker, events>>

\* It ends with its last step, with one that failed, or before one when the token is set.
EndInline(i) ==
    /\ at = "inline" /\ step = i
    /\ \/ unit[i] = "ended" /\ (hops = 1 \/ outcome[i] # "ok") /\ Settled(i, Reported(i))
       \/ unit[i] = "none" /\ KindOf(i) = "chain" /\ cancelled /\ Settled(i, "cancelled")
    /\ unit' = [unit EXCEPT ![i] = "ended"]
    /\ hops' = 0 /\ step' = step + 1 /\ at' = "validate"
    /\ UNCHANGED <<calls, collected, outcome, asked, prompts, policy, registry, cancelled,
                   broker, started>>

-----------------------------------------------------------------------------
(* Execution. *)
Approved == {approved[k] : k \in DOMAIN approved}
Batch == {batch[k] : k \in DOMAIN batch}

Queued(set) == unit' = [i \in Index |-> IF i \in set THEN "queued" ELSE unit[i]]

Once(f, set) == [i \in Index |-> IF i \in set THEN f[i] + 1 ELSE f[i]]

\* Mutation: is_parallel_safe is not asked.
AnyTool == TRUE

\* every approved call is parallel-safe
OnlyReads == \A i \in Approved : KindOf(i) = "read"

\* The fast path joins delegates and reads; else the delegates go first.
Dispatch ==
    /\ at = "validate" /\ step = Len(calls) + 1
    /\ started' = Once(started, delegated)
    /\ \/ /\ delegated = {}
          /\ at' = "serial" /\ step' = 1
          /\ UNCHANGED <<batch, unit>>
       \/ /\ delegated # {} /\ OnlyReads /\ ~cancelled
          /\ at' = "joined" /\ step' = Len(approved) + 1
          /\ Queued(delegated \cup Approved) /\ batch' = approved
       \/ /\ delegated # {} /\ (~OnlyReads \/ cancelled)
          /\ at' = "delegating" /\ step' = 1
          /\ Queued(delegated)
          /\ UNCHANGED batch
    /\ UNCHANGED <<calls, delegated, approved, outcome, hops, asked, results, prompts, policy,
                   registry, cancelled, broker, completed>>

\* Mutation: the token is not looked at again.
RunAnyway(i) ==
    /\ started' = [started EXCEPT ![i] = @ + 1]
    /\ unit' = [unit EXCEPT ![i] = "running"]
    /\ UNCHANGED <<outcome, completed>>

\* run_one_tool up to the execution
RunTool(i) ==
    \/ /\ ~cancelled
       /\ started' = [started EXCEPT ![i] = @ + 1]
       /\ unit' = [unit EXCEPT ![i] = "running"]
       /\ UNCHANGED <<outcome, completed>>
    \/ /\ cancelled
       /\ completed' = [completed EXCEPT ![i] = @ + 1]
       /\ unit' = [unit EXCEPT ![i] = "ended"]
       /\ outcome' = [outcome EXCEPT ![i] = "cancelled"]
       /\ UNCHANGED started

\* dispatch_parallel_reads
StartRead(i) ==
    /\ i \in Approved /\ unit[i] = "queued"
    /\ Cardinality({j \in Approved : unit[j] = "running"}) < MaxParallel
    /\ RunTool(i)
    /\ UNCHANGED <<calls, place, collected, hops, asked, results, prompts, policy, registry,
                   cancelled, broker>>

\* The tool returns; it may have been cancelled with its job.
EndTool(i, status) ==
    /\ i \in Approved /\ unit[i] = "running"
    /\ status = "cancelled" => cancelled \/ KindOf(i) = "edit"
    /\ unit' = [unit EXCEPT ![i] = "ended"]
    /\ outcome' = [outcome EXCEPT ![i] = status]
    /\ completed' = [completed EXCEPT ![i] = @ + 1]
    /\ UNCHANGED <<calls, place, collected, hops, asked, results, prompts, policy, registry,
                   cancelled, broker, started>>

-----------------------------------------------------------------------------
(* What becomes of the completions. *)

\* Mutation: the limit itself is still allowed.
PastLimit(bytes) == bytes > MaxBytesRead

\* deny_reason
OverBudget(bytes) == bytes >= MaxBytesRead

AllEnded(set) == \A i \in set : unit[i] = "ended"

\* apply_delegate_completions
EndDelegating ==
    /\ at \in {"joined", "delegating"} /\ AllEnded(delegated)
    /\ at = "joined" => AllEnded(Approved)
    /\ results' = [i \in Index |-> IF i \in delegated THEN Reported(i) ELSE results[i]]
    /\ completed' = Once(completed, delegated)
    /\ at' = IF at = "joined" THEN "folding" ELSE "serial"
    /\ UNCHANGED <<calls, step, collected, work, prompts, policy, registry, cancelled, broker,
                   started>>

EndReading ==
    /\ at = "reading" /\ AllEnded(Batch)
    /\ at' = "folding"
    /\ UNCHANGED <<calls, step, collected, work, results, prompts, policy, registry, cancelled,
                   broker, events>>

\* Mutation: a read is billed whether the model gets it or not.
AnyCost(i) == ReadBytes

\* what record_executed_result adds: nothing for a result that is denied to the model
Cost(i) ==
    IF KindOf(i) = "read" /\ outcome[i] = "ok" /\ ~OverBudget(billed) THEN ReadBytes ELSE 0

\* Mutation: a read that is denied after it ran is announced again.
Reannounced(i) ==
    IF OverBudget(billed) THEN [completed EXCEPT ![i] = @ + 1] ELSE completed

\* The read has sent its own event when it ended.
Announced(i) == completed

\* fold_parallel_read_completions: in the order of the calls, denied once over the budget
FoldRead ==
    /\ at = "folding" /\ batch # <<>>
    /\ LET i == Head(batch)
       IN  /\ results' = [results EXCEPT ![i] = IF OverBudget(billed) THEN "denied" ELSE outcome[i]]
           /\ billed' = billed + Cost(i)
           /\ completed' = Announced(i)
    /\ batch' = Tail(batch)
    /\ UNCHANGED <<calls, place, delegated, approved, work, prompts, policy, registry, cancelled,
                   used, started>>

AfterFlush == IF step > Len(approved) THEN "done" ELSE "edit"

EndFold ==
    /\ at = "folding" /\ batch = <<>>
    /\ at' = AfterFlush
    /\ UNCHANGED <<calls, step, collected, work, results, prompts, policy, registry, cancelled,
                   broker, events>>

-----------------------------------------------------------------------------
(* The approved calls in order: reads are put off until an edit or the end. *)

\* Mutation: the loop ends at the first call over the budget.
LoopEnd == Len(approved) + 1

NextCall == step + 1

\* the top of the loop
Walk ==
    /\ at = "serial" /\ step \in DOMAIN approved
    /\ LET i == approved[step]
       IN  \/ /\ cancelled
              /\ Settled(i, "cancelled")
              /\ at' = "flush" /\ step' = Len(approved) + 1
              /\ UNCHANGED batch
           \/ /\ ~cancelled /\ KindOf(i) = "read" /\ OverBudget(billed)
              /\ results' = [results EXCEPT ![i] = "denied"]
              /\ step' = NextCall
              /\ UNCHANGED <<at, batch, completed>>
           \/ /\ ~cancelled /\ KindOf(i) = "read" /\ ~OverBudget(billed)
              /\ batch' = Append(batch, i)
              /\ step' = step + 1
              /\ UNCHANGED <<at, results, completed>>
           \/ /\ ~cancelled /\ KindOf(i) = "edit"
              /\ at' = "flush"
              /\ UNCHANGED <<step, batch, results, completed>>
    /\ UNCHANGED <<calls, delegated, approved, work, prompts, policy, registry, cancelled, broker,
                   started>>

EndWalk ==
    /\ at = "serial" /\ step = Len(approved) + 1
    /\ at' = "flush"
    /\ UNCHANGED <<calls, step, collected, work, results, prompts, policy, registry, cancelled,
                   broker, events>>

\* flush_parallel_batch
Flush ==
    /\ at = "flush"
    /\ \/ /\ batch = <<>> \/ cancelled
          /\ results' = [i \in Index |-> IF i \in Batch THEN "cancelled" ELSE results[i]]
          /\ completed' = Once(completed, Batch)
          /\ batch' = <<>>
          /\ at' = AfterFlush
          /\ UNCHANGED unit
       \/ /\ batch # <<>> /\ ~cancelled
          /\ Queued(Batch)
          /\ at' = "reading"
          /\ UNCHANGED <<results, completed, batch>>
    /\ UNCHANGED <<calls, step, delegated, approved, outcome, hops, asked, prompts, policy,
                   registry, cancelled, broker, started>>

\* A tool that is not parallel-safe, after the reads before it
RunEdit ==
    /\ at = "edit"
    /\ LET i == approved[step]
       IN  \/ /\ OverBudget(billed) /\ unit[i] = "none"
              /\ results' = [results EXCEPT ![i] = "denied"]
              /\ at' = "serial" /\ step' = NextCall
              /\ UNCHANGED <<unit, outcome, started, completed>>
           \/ /\ ~OverBudget(billed) /\ unit[i] = "none"
              /\ RunTool(i)
              /\ UNCHANGED <<at, step, results>>
           \/ /\ unit[i] = "ended"
              /\ results' = [results EXCEPT ![i] = outcome[i]]
              /\ at' = "serial" /\ step' = step + 1
              /\ UNCHANGED <<unit, outcome, started, completed>>
    /\ UNCHANGED <<calls, collected, hops, asked, prompts, policy, registry, cancelled, broker>>

\* The turn takes the results: into the conversation, unless the round was cancelled.
Commit ==
    /\ at = "done"
    /\ at' = IF cancelled \/ \E i \in Index : results[i] = "cancelled"
             THEN "cancelled" ELSE "committed"
    /\ UNCHANGED <<calls, step, collected, work, results, prompts, policy, registry, cancelled,
                   broker, events>>

-----------------------------------------------------------------------------
Decisions == {"allow", "deny", "ask"}
Answers == Decisions \cup {"lost", "cancel"}
Statuses == {"ok", "error", "cancelled"}

Call(i) ==
    \/ StopValidating(i) \/ AnswerDirectly(i) \/ CollectDelegate(i) \/ StartInline(i)
    \/ Judge(i) \/ StartSubagent(i) \/ RequestEdit(i) \/ EndEdit(i) \/ NextHop(i)
    \/ EndInline(i) \/ StartRead(i)
    \/ \E said \in Answers : Conclude(i, said) \/ HearAnswer(i, said)
    \/ \E status \in Statuses : EndSubagent(i, status) \/ EndTool(i, status)

Agent ==
    \/ \E i \in Index : Call(i)
    \/ Dispatch \/ EndDelegating \/ EndReading \/ FoldRead \/ EndFold
    \/ Walk \/ EndWalk \/ Flush \/ RunEdit \/ Commit

User ==
    \/ Interrupt \/ Toggle
    \/ \E action \in Decisions, lasting \in BOOLEAN : Decide(action, lasting)

Next == Agent \/ User \/ (\E i \in Index : Show(i)) \/ EndLeftOver

Spec == Init /\ [][Next]_vars

\* Every future is polled, and every tool and subagent returns once it is cancelled; one
\* that does not is aborted by the turn's watchdog (TurnLifecycle).
FairSpec == Spec /\ WF_vars(Agent)

-----------------------------------------------------------------------------
TypeOK ==
    /\ calls \in Round
    /\ at \in {"validate", "inline", "joined", "delegating", "serial", "flush", "reading", "folding",
               "edit", "done", "committed", "cancelled"}
    /\ step \in 1..Len(calls) + 1
    /\ delegated \subseteq Index /\ approved \in Seq(Index) /\ batch \in Seq(Index)
    /\ unit \in [Index -> Busy \cup {"none", "ended"}]
    /\ outcome \in [Index -> Statuses \cup {"none", "capped"}]
    /\ results \in [Index -> Statuses \cup {"none", "denied"}]
    /\ hops \in 0..2 /\ asked \subseteq Index
    /\ inbox \subseteq Index /\ slot \in Index \cup {None}
    /\ answer \in [Index -> [action : Answers \cup {"none"}, lasting : BOOLEAN]]
    /\ rules \in [Target -> Decisions \cup {"none"}]
    /\ {mode, configMode} \subseteq {"build", "plan"}
    /\ leases \subseteq Index /\ left \in Nat
    /\ cancelled \in BOOLEAN /\ used \in Nat /\ billed \in Nat
    /\ started \in [Index -> Nat] /\ completed \in [Index -> Nat]

\* An edit of the round runs alone, after every approved call before it and before every one
\* behind it.
EditsInOrder ==
    \A k \in DOMAIN approved : LET i == approved[k] IN KindOf(i) = "edit" =>
        /\ unit[i] = "running" => \A j \in Index \ {i} : unit[j] \notin Busy
        /\ unit[i] # "none" => \A m \in 1..k - 1 : results[approved[m]] # "none"
        /\ unit[i] \in {"none", "running"} /\ results[i] = "none" =>
               \A m \in k + 1..Len(approved) : unit[approved[m]] = "none"

\* What goes to the model has a result for every call.
RoundPaired == at = "committed" => \A i \in Index : results[i] # "none"

\* A batch wider than the cap waits: no delegate is refused, whatever a superseded turn left.
NeverRefused == \A i \in Index : outcome[i] # "capped"

\* The turn stops reading with the read that reaches the byte limit.
BudgetHolds == billed < MaxBytesRead + ReadBytes

Paid == {i \in Index : KindOf(i) = "read" /\ results[i] = "ok"}

\* The bytes the turn is billed for are those of the reads the model gets.
BilledIsVisible == \E p \in Prior : billed = p[2] + ReadBytes * Cardinality(Paid)

\* Every card the front end opens is closed once, and none is closed twice.
CardsClose ==
    \A i \in Index : /\ completed[i] <= 1
                     /\ Ended => started[i] <= completed[i]

\* Nothing new is executed after the turn was cancelled.
CancelStopsTools ==
    [][\A i \in Index : cancelled /\ ~(i \in delegated \/ Inline(i)) /\ unit'[i] = "running"
           => unit[i] = "running"]_vars

\* A cancelled round ends as one, whatever prompt or tool it was waiting for.
CancelledRoundEnds == cancelled ~> at = "cancelled"

\* A prompt that is waited for is on its way, on the screen or answered by the user.
PromptsReachUser ==
    \A i \in Index : unit[i] = "asking" /\ ~cancelled => answer[i].action # "lost"

=============================================================================
