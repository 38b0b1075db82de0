--------------------------- MODULE TurnLifecycle ---------------------------
(***************************************************************************)
(* The life of an agent turn in squeezy-agent: the spawned turn task, the  *)
(* watchdog that aborts it when it does not drain after a cancellation,    *)
(* the active-turn slot that steer uses, the conversation every turn       *)
(* clones when it begins and writes back when it ends, and the front end   *)
(* that waits for a terminal event on the turn's channel.                  *)
(*                                                                         *)
(* Model rounds and tool calls are inside "running".  An aborted task      *)
(* keeps going until the runtime drops it at one of its awaits (Killed).   *)
(***************************************************************************)
EXTENDS Naturals

CONSTANTS MaxTurns,   \* bound: turns started in one session
          FollowUp,   \* follow-up messages, each pushed once
          Pin         \* context pins, each added once

ASSUME TurnAssumption == MaxTurns \in Nat /\ FollowUp \cap Nat = {}

Turn == 1..MaxTurns

VARIABLES
    started,    \* id of the latest turn, 0 before the first
    slot,       \* the active_turn slot, 0 when empty
    cancelled,  \* the turns whose CancellationToken is cancelled
    aborted,    \* the turns whose AbortHandle was used
    pc,         \* where each turn task is
    monitor,    \* where the cancel monitor of each turn is
    conv,       \* ConversationState.conversation: the exchanges and follow-ups in it
    local,      \* local[t]: the conversation turn t works on
    pins,       \* ConversationState.context_compaction.pinned
    localPins,  \* localPins[t]: the pins turn t cloned
    pushed,     \* follow-ups pushed so far
    unpinned,   \* pins removed so far
    sent,       \* the turns with a terminal event (any of the three) on their channel
    open        \* the turns whose receiver the front end still polls

taskVars == <<pc, local, localPins>>
sharedVars == <<conv, pins>>
userVars == <<pushed, unpinned>>
vars == <<started, slot, cancelled, aborted, monitor, taskVars, sharedVars, userVars,
          sent, open>>

\* What a conversation is made of: the exchange of a turn, or a follow-up.
Message == Turn \cup FollowUp

PC == {"unborn", "spawned", "running", "preserve", "persist", "report", "closing",
       "done", "killed"}

TypeOK ==
    /\ started \in 0..MaxTurns
    /\ slot \in 0..MaxTurns
    /\ cancelled \subseteq Turn
    /\ aborted \subseteq Turn
    /\ pc \in [Turn -> PC]
    /\ monitor \in [Turn -> {"waiting", "armed", "select", "marking", "off"}]
    /\ conv \subseteq Message
    /\ local \in [Turn -> SUBSET Message]
    /\ pins \subseteq Pin
    /\ localPins \in [Turn -> SUBSET Pin]
    /\ pushed \subseteq FollowUp
    /\ unpinned \subseteq Pin
    /\ sent \subseteq Turn
    /\ open \subseteq Turn

Init ==
    /\ started = 0
    /\ slot = 0
    /\ cancelled = {}
    /\ aborted = {}
    /\ pc = [t \in Turn |-> "unborn"]
    /\ monitor = [t \in Turn |-> "off"]
    /\ conv = {}
    /\ local = [t \in Turn |-> {}]
    /\ pins = {}
    /\ localPins = [t \in Turn |-> {}]
    /\ pushed = {}
    /\ unpinned = {}
    /\ sent = {}
    /\ open = {}

-----------------------------------------------------------------------------
(* The caller's side.                                                      *)

\* start_turn_with_display_input: take the slot, spawn the task and its monitor.
Spawn(t) ==
    /\ t = started + 1
    /\ started' = t
    /\ slot' = t
    /\ pc' = [pc EXCEPT ![t] = "spawned"]
    /\ monitor' = [monitor EXCEPT ![t] = "waiting"]
    /\ UNCHANGED <<aborted, local, localPins, sharedVars, userVars, sent>>

\* The front end starts a turn when it waits for none.
Start(t) ==
    /\ open = {}
    /\ Spawn(t)
    /\ open' = {t}
    /\ UNCHANGED cancelled

\* Mutant: the replacement starts without cancelling anything.
NothingReplaced == {}

\* Mutant: an empty slot is cancelled like a turn.
SlotAsTurn == {slot}

\* cancel_active_turn
Replaced == {slot} \ {0}

\* steer: cancel whatever the slot names, then start the replacement.
Steer(t) ==
    /\ started > 0
    /\ cancelled' = cancelled \cup Replaced
    /\ Spawn(t)
    /\ open' = open \cup {t}

\* request_turn_interrupt: the front end cancels the token of the turn it waits for.
Interrupt(t) ==
    /\ t \in open \ cancelled
    /\ cancelled' = cancelled \cup {t}
    /\ UNCHANGED <<started, slot, aborted, monitor, taskVars, sharedVars, userVars,
                   sent, open>>

\* Mutant: any event makes the front end drop the receiver.
AnyEvent(t) == pc[t] \notin {"unborn", "spawned"}

\* Completed, Cancelled and Failed clear keep_rx.
TerminalEvent(t) == t \in sent

\* The event loop reads a terminal event and lets go of the receiver.
Drain(t) ==
    /\ t \in open
    /\ TerminalEvent(t)
    /\ open' = open \ {t}
    /\ UNCHANGED <<started, slot, cancelled, aborted, monitor, taskVars, sharedVars,
                   userVars, sent>>

\* follow_up / queue_user_message: push onto the shared conversation.
PushFollowUp(f) ==
    /\ f \notin pushed
    /\ pushed' = pushed \cup {f}
    /\ conv' = conv \cup {f}
    /\ UNCHANGED <<started, slot, cancelled, aborted, monitor, taskVars, pins, unpinned,
                   sent, open>>

\* pin_context_entry
AddPin(p) ==
    /\ p \notin pins \cup unpinned
    /\ pins' = pins \cup {p}
    /\ UNCHANGED <<started, slot, cancelled, aborted, monitor, taskVars, conv, userVars,
                   sent, open>>

\* unpin_context_entry
Unpin(p) ==
    /\ p \in pins
    /\ pins' = pins \ {p}
    /\ unpinned' = unpinned \cup {p}
    /\ UNCHANGED <<started, slot, cancelled, aborted, monitor, taskVars, conv, pushed,
                   sent, open>>

-----------------------------------------------------------------------------
(* The turn task.                                                          *)

taskOnly == <<started, cancelled, aborted, userVars, open>>

\* TurnRuntime::run clones the conversation state and adds the user's message.
Begin(t) ==
    /\ pc[t] = "spawned"
    /\ local' = [local EXCEPT ![t] = conv \cup {t}]
    /\ localPins' = [localPins EXCEPT ![t] = pins]
    /\ pc' = [pc EXCEPT ![t] = "running"]
    /\ UNCHANGED <<taskOnly, slot, monitor, sharedVars, sent>>

\* A local command or a help turn: the exchange is pushed under the lock at the
\* end (a `!!` command is kept out of the conversation).
InlineTurn(t) ==
    /\ pc[t] = "spawned"
    /\ conv' \in {conv, conv \cup {t}}
    /\ pc' = [pc EXCEPT ![t] = "report"]
    /\ UNCHANGED <<taskOnly, slot, monitor, local, localPins, pins, sent>>

\* The turn reads its locals no more.
Forget(t) ==
    /\ local' = [local EXCEPT ![t] = {}]
    /\ localPins' = [localPins EXCEPT ![t] = {}]

\* The model answers: the last cancellation check is behind the turn.
Answer(t) ==
    /\ pc[t] = "running"
    /\ t \notin cancelled
    /\ pc' = [pc EXCEPT ![t] = "persist"]
    /\ UNCHANGED <<taskOnly, slot, monitor, local, localPins, sharedVars, sent>>

\* The turn ends between rounds: cancelled (its token or a cancelled tool call),
\* a cost cap, an error before any text, a panic its wrapper catches.
StopBetweenRounds(t) ==
    /\ pc[t] = "running"
    /\ pc' = [pc EXCEPT ![t] = "report"]
    /\ Forget(t)
    /\ UNCHANGED <<taskOnly, slot, monitor, sharedVars, sent>>

\* The turn ends mid-stream, cancelled or failed.  Its partial answer is kept if the
\* turn is still the active one; the conversation lock is taken after that check.
StopMidStream(t) ==
    /\ pc[t] = "running"
    /\ slot = t
    /\ pc' = [pc EXCEPT ![t] = "preserve"]
    /\ UNCHANGED <<taskOnly, slot, monitor, local, localPins, sharedVars, sent>>

\* Mutant: the pins cloned when the turn began replace the shared ones.
StalePins(t) == localPins[t]

\* merge_concurrent_pins: the turn's own pins and those added since.
MergedPins(t) == localPins[t] \cup pins

\* The turn's conversation replaces the shared one.
Commit(t) ==
    /\ conv' = local[t]
    /\ pins' = MergedPins(t)
    /\ Forget(t)
    /\ UNCHANGED <<taskOnly, slot, monitor, sent>>

\* preserve_partial_assistant_on_cancel, preserve_visible_assistant_before_terminal_failure
Preserve(t) ==
    /\ pc[t] = "preserve"
    /\ pc' = [pc EXCEPT ![t] = "report"]
    /\ Commit(t)

\* persist_turn_state, whether or not the turn is still the active one.
Persist(t) ==
    /\ pc[t] = "persist"
    /\ pc' = [pc EXCEPT ![t] = "report"]
    /\ Commit(t)

\* The terminal event: Completed, Cancelled or Failed.
Report(t) ==
    /\ pc[t] = "report"
    /\ sent' = sent \cup {t}
    /\ pc' = [pc EXCEPT ![t] = "closing"]
    /\ UNCHANGED <<taskOnly, slot, monitor, local, localPins, sharedVars>>

\* Mutant: the slot is emptied whoever it names.
ClearedAlways(t) == 0

\* clear_active_turn_if_current
Cleared(t) == IF slot = t THEN 0 ELSE slot

\* The end of spawn_observed_turn: clear the slot, notify the monitor if it waits.
Close(t) ==
    /\ pc[t] = "closing"
    /\ slot' = Cleared(t)
    /\ monitor' = [monitor EXCEPT ![t] = IF @ = "select" THEN "off" ELSE @]
    /\ pc' = [pc EXCEPT ![t] = "done"]
    /\ UNCHANGED <<taskOnly, local, localPins, sharedVars, sent>>

\* The runtime drops an aborted task at one of its awaits; nothing after it runs.
Killed(t) ==
    /\ t \in aborted
    /\ pc[t] \in {"spawned", "running", "preserve", "persist", "report"}
    /\ pc' = [pc EXCEPT ![t] = "killed"]
    /\ Forget(t)
    /\ UNCHANGED <<taskOnly, slot, monitor, sharedVars, sent>>

-----------------------------------------------------------------------------
(* spawn_turn_cancel_monitor.                                              *)

monitorOnly == <<started, slot, cancelled, taskVars, sharedVars, userVars, open>>

\* cancel.cancelled().await returns.
Wake(t) ==
    /\ monitor[t] = "waiting"
    /\ t \in cancelled
    /\ monitor' = [monitor EXCEPT ![t] = "armed"]
    /\ UNCHANGED <<monitorOnly, aborted, sent>>

\* done.notified() is polled: from here on a notification is seen.
Select(t) ==
    /\ monitor[t] = "armed"
    /\ monitor' = [monitor EXCEPT ![t] = "select"]
    /\ UNCHANGED <<monitorOnly, aborted, sent>>

\* Mutant: the watchdog gives up on the turn without aborting it.
NeverAborted(t) == aborted

Aborted(t) == aborted \cup {t}

\* The grace window passes without a notification.
GraceExpires(t) ==
    /\ monitor[t] = "select"
    /\ aborted' = Aborted(t)
    /\ monitor' = [monitor EXCEPT ![t] = "marking"]
    /\ UNCHANGED <<monitorOnly, sent>>

\* tx.upgrade() gives a sender as long as the task is not dropped; after that only a
\* background MCP refresh may still own one.
Mark(t) ==
    /\ monitor[t] = "marking"
    /\ \/ sent' = sent \cup {t}
       \/ pc[t] \in {"done", "killed"} /\ UNCHANGED sent
    /\ monitor' = [monitor EXCEPT ![t] = "off"]
    /\ UNCHANGED <<monitorOnly, aborted>>

-----------------------------------------------------------------------------
Task(t) == \/ Begin(t) \/ InlineTurn(t) \/ Answer(t)
           \/ StopBetweenRounds(t) \/ StopMidStream(t)
           \/ Preserve(t) \/ Persist(t) \/ Report(t) \/ Close(t) \/ Killed(t)

Monitor(t) == Wake(t) \/ Select(t) \/ GraceExpires(t) \/ Mark(t)

Caller == \/ \E t \in Turn : Start(t) \/ Steer(t) \/ Interrupt(t) \/ Drain(t)
          \/ \E f \in FollowUp : PushFollowUp(f)
          \/ \E p \in Pin : AddPin(p) \/ Unpin(p)

\* No turn is left to start and every one has ended.
Idle ==
    /\ started = MaxTurns
    /\ \A t \in Turn : pc[t] \in {"done", "killed"}
    /\ UNCHANGED vars

Next == Caller \/ (\E t \in Turn : Task(t) \/ Monitor(t)) \/ Idle

Spec == Init /\ [][Next]_vars

\* The runtime polls what is ready, drops what is aborted and fires the timer; the
\* event loop keeps draining.  Nothing makes a model or a tool answer.
FairSpec ==
    /\ Spec
    /\ \A t \in Turn : /\ WF_vars(Preserve(t)) /\ WF_vars(Persist(t))
                       /\ WF_vars(Report(t)) /\ WF_vars(Close(t)) /\ WF_vars(Killed(t))
                       /\ WF_vars(Monitor(t))
                       /\ WF_vars(Drain(t))

-----------------------------------------------------------------------------
(* Properties.                                                             *)

Ended(t) == pc[t] \in {"done", "killed"}

PastLastWrite(t) == pc[t] \in {"report", "closing", "done", "killed"}

\* Until it ends, the latest turn is the one the slot names, however late the
\* wrappers of earlier turns run: steer always finds the turn to cancel.
LatestTurnOwnsSlot ==
    /\ slot \in {0, started}
    /\ started > 0 /\ ~Ended(started) => slot = started

\* Two turns never race unless the older one was told to stop: a superseded turn is
\* cancelled, or is past its last write to the conversation.
SupersededIsCancelled ==
    \A t \in Turn : t < started =>
        t \in cancelled \/ PastLastWrite(t)

\* When the front end stops waiting for a turn, the turn writes nothing more,
\* unless the watchdog is just aborting it.
DrainedIsSettled ==
    \A t \in Turn : t <= started /\ t \notin open =>
        t \in aborted \/ PastLastWrite(t)

\* A pin is only ever removed by the user: a turn that ends never clobbers a pin that
\* landed while it ran (comment in persist_turn_state).
PinsKept == [][\A p \in pins \ pins' : Unpin(p)]_vars

\* Cancelling a turn ends it, even when it never looks at its token.
CancelledTurnEnds == \A t \in Turn : (t \in cancelled) ~> Ended(t)

\* A follow-up is in the conversation the next request is built from
\* (doc comment of Agent::follow_up).
FollowUpsKept == pushed \subseteq conv

=============================================================================
