------------------------ MODULE TurnLifecycleProofs ------------------------
(***************************************************************************)
(* Proofs about TurnLifecycle, for any number of turns, follow-ups and     *)
(* pins.  TurnInv is inductive: it ties the slot, the cancelled tokens and *)
(* the front end's open receivers to how far each turn task has come.      *)
(***************************************************************************)
EXTENDS TurnLifecycle, TLAPS

USE DEF Turn

-----------------------------------------------------------------------------
(* Type correctness.                                                       *)

LEMMA TypeInit == Init => TypeOK
BY TurnAssumption DEF Init, TypeOK, PC, Message

LEMMA TypeInductive == TypeOK /\ [Next]_vars => TypeOK'
<1> SUFFICES ASSUME TypeOK, [Next]_vars PROVE TypeOK'
  OBVIOUS
<1> USE TurnAssumption DEF TypeOK, PC, Message, taskVars, sharedVars, userVars
<1>1. ASSUME NEW t \in Turn, Start(t) \/ Steer(t) PROVE TypeOK'
  <2>1. pc' = [pc EXCEPT ![t] = "spawned"] /\ monitor' = [monitor EXCEPT ![t] = "waiting"]
    BY <1>1 DEF Start, Steer, Spawn
  <2>2. cancelled' \subseteq Turn /\ open' \subseteq Turn
    <3>1. Replaced \subseteq Turn
      BY DEF Replaced
    <3>2. CASE Start(t)
      BY <3>2 DEF Start
    <3>3. CASE Steer(t)
      BY <3>1, <3>3 DEF Steer
    <3>4. QED
      BY <1>1, <3>2, <3>3
  <2>3. started' \in 0..MaxTurns /\ slot' \in 0..MaxTurns
    BY <1>1 DEF Start, Steer, Spawn
  <2>4. UNCHANGED <<aborted, local, localPins, sharedVars, userVars, sent>>
    BY <1>1 DEF Start, Steer, Spawn
  <2>5. QED
    BY <2>1, <2>2, <2>3, <2>4
<1>2. ASSUME NEW t \in Turn, Interrupt(t) \/ Drain(t) PROVE TypeOK'
  BY <1>2 DEF Interrupt, Drain
<1>3. ASSUME NEW f \in FollowUp, PushFollowUp(f) PROVE TypeOK'
  BY <1>3 DEF PushFollowUp
<1>4. ASSUME NEW p \in Pin, AddPin(p) \/ Unpin(p) PROVE TypeOK'
  BY <1>4 DEF AddPin, Unpin
<1>5. ASSUME NEW t \in Turn, Begin(t) PROVE TypeOK'
  BY <1>5 DEF Begin, taskOnly
<1>6. ASSUME NEW t \in Turn, InlineTurn(t) \/ Answer(t) \/ StopMidStream(t) PROVE TypeOK'
  BY <1>6 DEF InlineTurn, Answer, StopMidStream, taskOnly
<1>7. ASSUME NEW t \in Turn, StopBetweenRounds(t) \/ Killed(t) PROVE TypeOK'
  BY <1>7 DEF StopBetweenRounds, Killed, Forget, taskOnly
<1>8. ASSUME NEW t \in Turn, Preserve(t) \/ Persist(t) PROVE TypeOK'
  BY <1>8 DEF Preserve, Persist, Commit, MergedPins, Forget, taskOnly
<1>9. ASSUME NEW t \in Turn, Report(t) \/ Close(t) PROVE TypeOK'
  <2>1. CASE Report(t)
    BY <2>1 DEF Report, taskOnly
  <2>2. CASE Close(t)
    <3>1. slot' \in 0..MaxTurns /\ pc' \in [Turn -> PC]
      BY <2>2 DEF Close, Cleared
    <3>2. monitor' \in [Turn -> {"waiting", "armed", "select", "marking", "off"}]
      BY <2>2 DEF Close
    <3>3. QED
      BY <2>2, <3>1, <3>2 DEF Close, taskOnly
  <2>3. QED
    BY <1>9, <2>1, <2>2
<1>10. ASSUME NEW t \in Turn, Monitor(t) PROVE TypeOK'
  BY <1>10 DEF Monitor, Wake, Select, GraceExpires, Aborted, Mark, monitorOnly
<1>11. CASE UNCHANGED vars
  BY <1>11 DEF vars
<1>12. QED
  BY <1>1, <1>2, <1>3, <1>4, <1>5, <1>6, <1>7, <1>8, <1>9, <1>10, <1>11
     DEF Next, Caller, Task, Idle

\* Every variable keeps its type.
THEOREM TypeCorrect == Spec => []TypeOK
BY TypeInit, TypeInductive, PTL DEF Spec

-----------------------------------------------------------------------------
(* The invariant.                                                          *)

\* Turns are started in order, and nothing is said of a turn before it is.
StartedInOrder ==
    /\ \A t \in Turn : (t > started) <=> (pc[t] = "unborn")
    /\ \A t \in cancelled \cup sent \cup open : t <= started

\* The monitor only moves once its turn is cancelled, and marks what it aborted.
MonitorFollowsToken ==
    \A t \in Turn : /\ monitor[t] \in {"armed", "select", "marking"} => t \in cancelled
                    /\ monitor[t] = "marking" => t \in aborted

AbortedWasCancelled == aborted \subseteq cancelled

\* A terminal event comes from a turn past its last write, or from the watchdog.
SentIsSettled == \A t \in sent : t \in aborted \/ PastLastWrite(t)

TurnInv ==
    /\ TypeOK
    /\ StartedInOrder
    /\ MonitorFollowsToken
    /\ AbortedWasCancelled
    /\ SentIsSettled
    /\ DrainedIsSettled
    /\ LatestTurnOwnsSlot
    /\ SupersededIsCancelled

LEMMA TurnInit == Init => TurnInv
BY TypeInit, TurnAssumption
   DEF Init, TurnInv, StartedInOrder, MonitorFollowsToken, AbortedWasCancelled,
       SentIsSettled, DrainedIsSettled, LatestTurnOwnsSlot, SupersededIsCancelled

-----------------------------------------------------------------------------
(* One lemma per kind of step.                                             *)

\* A turn task that moves to another place without starting.
Moves(t, from, to) == pc[t] \in from /\ pc' = [pc EXCEPT ![t] = to]

\* Steps of a task before its terminal event, and its being dropped.
LEMMA TaskStep ==
    ASSUME TurnInv, TypeOK', NEW t \in Turn,
           NEW to \in {"running", "preserve", "persist", "report", "killed"},
           Moves(t, {"spawned", "running", "preserve", "persist"}, to)
             \/ (to = "killed" /\ Moves(t, {"report"}, to)),
           UNCHANGED <<started, slot, cancelled, aborted, monitor, sent, open>>
    PROVE  TurnInv'
BY DEF TurnInv, TypeOK, StartedInOrder, MonitorFollowsToken, AbortedWasCancelled, SentIsSettled,
       DrainedIsSettled, LatestTurnOwnsSlot, SupersededIsCancelled, Moves, PastLastWrite, Ended

\* Steps that touch none of the variables the invariant is about.
LEMMA OtherStep ==
    ASSUME TurnInv, TypeOK',
           UNCHANGED <<started, slot, cancelled, aborted, monitor, pc, sent, open>>
    PROVE  TurnInv'
BY DEF TurnInv, StartedInOrder, MonitorFollowsToken, AbortedWasCancelled, SentIsSettled,
       DrainedIsSettled, LatestTurnOwnsSlot, SupersededIsCancelled, PastLastWrite, Ended

\* The turn a new one supersedes is cancelled, or is past its last write.
LEMMA SpawnStep ==
    ASSUME TurnInv, TypeOK', NEW t \in Turn, Start(t) \/ Steer(t)
    PROVE  TurnInv'
<1>1. /\ t = started + 1 /\ started' = t /\ slot' = t
      /\ pc' = [pc EXCEPT ![t] = "spawned"]
      /\ monitor' = [monitor EXCEPT ![t] = "waiting"]
      /\ UNCHANGED <<aborted, sent>>
  BY DEF Start, Steer, Spawn
<1>2. /\ started \in Nat /\ t \in Nat /\ t > 0
      /\ \A u \in Turn : u < t <=> u <= started
      /\ \A u \in Turn : u # t => pc'[u] = pc[u] /\ monitor'[u] = monitor[u]
      /\ pc'[t] = "spawned" /\ monitor'[t] = "waiting" /\ pc[t] = "unborn"
      /\ aborted \subseteq Turn /\ sent \subseteq Turn /\ cancelled \subseteq Turn
      /\ open \subseteq Turn
  BY <1>1 DEF TurnInv, TypeOK, StartedInOrder
<1>3. cancelled \subseteq cancelled' /\ cancelled' \subseteq cancelled \cup ({slot} \ {0})
  BY DEF Start, Steer, Replaced
<1>4. t \in open' /\ open \subseteq open' /\ open' \subseteq open \cup {t}
  BY DEF Start, Steer
<1>5. \A u \in Turn : u # t => (PastLastWrite(u) <=> PastLastWrite(u)')
  BY <1>2 DEF PastLastWrite
<1>6. StartedInOrder'
  <2>1. \A u \in Turn : (u > started') <=> (pc'[u] = "unborn")
    BY <1>1, <1>2 DEF TurnInv, StartedInOrder
  <2>2. \A u \in cancelled' \cup sent' \cup open' : u <= started'
    BY <1>1, <1>2, <1>3, <1>4 DEF TurnInv, StartedInOrder, LatestTurnOwnsSlot
  <2>3. QED
    BY <2>1, <2>2 DEF StartedInOrder
<1>7. MonitorFollowsToken' /\ AbortedWasCancelled'
  BY <1>1, <1>2, <1>3 DEF TurnInv, MonitorFollowsToken, AbortedWasCancelled
<1>8. SentIsSettled'
  BY <1>1, <1>2, <1>5 DEF TurnInv, SentIsSettled, StartedInOrder
<1>9. DrainedIsSettled'
  BY <1>1, <1>2, <1>4, <1>5 DEF TurnInv, DrainedIsSettled
<1>10. LatestTurnOwnsSlot'
  BY <1>1 DEF LatestTurnOwnsSlot
<1>11. SupersededIsCancelled'
  <2>1. \A u \in Turn : u < started => u \in cancelled' \/ PastLastWrite(u)'
    BY <1>2, <1>3, <1>5 DEF TurnInv, SupersededIsCancelled
  <2>2. ASSUME NEW u \in Turn, u = started PROVE u \in cancelled' \/ PastLastWrite(u)'
    <3>1. u # t /\ u <= started /\ started > 0
      BY <1>1, <1>2, <2>2
    <3>2. CASE Start(t)
      <4>1. u \in aborted \/ PastLastWrite(u)
        BY <3>1, <3>2 DEF Start, TurnInv, DrainedIsSettled
      <4>2. QED
        BY <1>3, <1>5, <3>1, <4>1 DEF TurnInv, AbortedWasCancelled
    <3>3. CASE Steer(t)
      <4>1. PastLastWrite(u) \/ slot = u
        BY <2>2, <3>1 DEF TurnInv, LatestTurnOwnsSlot, Ended, PastLastWrite
      <4>2. CASE slot = u
        BY <2>2, <3>1, <3>3, <4>2 DEF Steer, Replaced
      <4>3. QED
        BY <1>5, <3>1, <4>1, <4>2
    <3>4. QED
      BY <3>2, <3>3
  <2>3. ASSUME NEW u \in Turn, u < started' PROVE u < started \/ u = started
    BY <1>1, <1>2, <2>3
  <2>4. QED
    BY <2>1, <2>2, <2>3 DEF SupersededIsCancelled
<1>12. QED
  BY <1>6, <1>7, <1>8, <1>9, <1>10, <1>11 DEF TurnInv

\* The front end cancels a turn it waits for, or lets go of one that has reported.
LEMMA FrontEndStep ==
    ASSUME TurnInv, TypeOK', NEW t \in Turn, Interrupt(t) \/ Drain(t)
    PROVE  TurnInv'
<1>1. CASE Interrupt(t)
  BY <1>1 DEF Interrupt, taskVars, TurnInv, TypeOK, StartedInOrder, MonitorFollowsToken,
       AbortedWasCancelled, SentIsSettled, DrainedIsSettled, LatestTurnOwnsSlot,
       SupersededIsCancelled, PastLastWrite, Ended
<1>2. CASE Drain(t)
  BY <1>2 DEF Drain, TerminalEvent, taskVars, TurnInv, TypeOK, StartedInOrder,
       MonitorFollowsToken, AbortedWasCancelled, SentIsSettled, DrainedIsSettled,
       LatestTurnOwnsSlot, SupersededIsCancelled, PastLastWrite, Ended
<1>3. QED
  BY <1>1, <1>2

\* The turn sends its terminal event, then leaves the slot to whoever owns it.
LEMMA EndStep ==
    ASSUME TurnInv, TypeOK', NEW t \in Turn, Report(t) \/ Close(t)
    PROVE  TurnInv'
<1>1. CASE Report(t)
  BY <1>1 DEF Report, taskOnly, TurnInv, TypeOK, StartedInOrder, MonitorFollowsToken,
       AbortedWasCancelled, SentIsSettled, DrainedIsSettled, LatestTurnOwnsSlot,
       SupersededIsCancelled, PastLastWrite, Ended
<1>2. CASE Close(t)
  <2>1. /\ pc[t] = "closing" /\ pc' = [pc EXCEPT ![t] = "done"]
        /\ UNCHANGED <<started, cancelled, aborted, sent, open>>
        /\ slot' = IF slot = t THEN 0 ELSE slot
    BY <1>2 DEF Close, Cleared, taskOnly
  <2>2. \A u \in Turn : monitor'[u] \in {monitor[u], "off"}
    BY <1>2 DEF Close, TurnInv, TypeOK
  <2>3. \A u \in Turn : (PastLastWrite(u) => PastLastWrite(u)') /\ (Ended(u) => Ended(u)')
    BY <2>1 DEF PastLastWrite, Ended, TurnInv, TypeOK
  <2>4. StartedInOrder'
    BY <2>1 DEF TurnInv, TypeOK, StartedInOrder
  <2>5. MonitorFollowsToken' /\ AbortedWasCancelled'
    BY <2>1, <2>2 DEF TurnInv, MonitorFollowsToken, AbortedWasCancelled
  <2>6. SentIsSettled' /\ DrainedIsSettled' /\ SupersededIsCancelled'
    BY <2>1, <2>3 DEF TurnInv, TypeOK, SentIsSettled, DrainedIsSettled, SupersededIsCancelled
  <2>7. LatestTurnOwnsSlot'
    BY <2>1 DEF TurnInv, TypeOK, LatestTurnOwnsSlot, Ended
  <2>8. QED
    BY <2>4, <2>5, <2>6, <2>7 DEF TurnInv
<1>3. QED
  BY <1>1, <1>2

LEMMA MonitorStep ==
    ASSUME TurnInv, TypeOK', NEW t \in Turn, Monitor(t)
    PROVE  TurnInv'
<1> USE DEF monitorOnly, taskVars, TurnInv, TypeOK, StartedInOrder, MonitorFollowsToken,
            AbortedWasCancelled, SentIsSettled, DrainedIsSettled, LatestTurnOwnsSlot,
            SupersededIsCancelled, PastLastWrite, Ended
<1>1. CASE Wake(t)
  BY <1>1 DEF Wake
<1>2. CASE Select(t)
  BY <1>2 DEF Select
<1>3. CASE GraceExpires(t)
  BY <1>3 DEF GraceExpires, Aborted
<1>4. CASE Mark(t)
  BY <1>4 DEF Mark
<1>5. QED
  BY <1>1, <1>2, <1>3, <1>4 DEF Monitor

-----------------------------------------------------------------------------
(* The theorems.                                                           *)

LEMMA TurnInductive == TurnInv /\ [Next]_vars => TurnInv'
<1> SUFFICES ASSUME TurnInv, [Next]_vars PROVE TurnInv'
  OBVIOUS
<1>0. TypeOK'
  BY TypeInductive DEF TurnInv
<1>1. ASSUME NEW t \in Turn, Start(t) \/ Steer(t) PROVE TurnInv'
  BY <1>0, <1>1, SpawnStep
<1>2. ASSUME NEW t \in Turn, Interrupt(t) \/ Drain(t) PROVE TurnInv'
  BY <1>0, <1>2, FrontEndStep
<1>3. ASSUME NEW f \in FollowUp, PushFollowUp(f) PROVE TurnInv'
  BY <1>0, <1>3, OtherStep DEF PushFollowUp, taskVars
<1>4. ASSUME NEW p \in Pin, AddPin(p) \/ Unpin(p) PROVE TurnInv'
  BY <1>0, <1>4, OtherStep DEF AddPin, Unpin, taskVars
<1>5. ASSUME NEW t \in Turn,
             \/ Begin(t) \/ InlineTurn(t) \/ Answer(t) \/ StopBetweenRounds(t)
             \/ StopMidStream(t) \/ Preserve(t) \/ Persist(t) \/ Killed(t)
      PROVE  TurnInv'
  <2>1. PICK to \in {"running", "preserve", "persist", "report", "killed"} :
          /\ \/ Moves(t, {"spawned", "running", "preserve", "persist"}, to)
             \/ to = "killed" /\ Moves(t, {"report"}, to)
          /\ UNCHANGED <<started, slot, cancelled, aborted, monitor, sent, open>>
    BY <1>5 DEF Begin, InlineTurn, Answer, StopBetweenRounds, StopMidStream, Preserve,
                Persist, Killed, Commit, Forget, taskOnly, Moves
  <2>2. QED
    BY <1>0, <2>1, TaskStep
<1>6. ASSUME NEW t \in Turn, Report(t) \/ Close(t) PROVE TurnInv'
  BY <1>0, <1>6, EndStep
<1>7. ASSUME NEW t \in Turn, Monitor(t) PROVE TurnInv'
  BY <1>0, <1>7, MonitorStep
<1>8. CASE UNCHANGED vars
  BY <1>0, <1>8, OtherStep DEF vars, taskVars
<1>9. QED
  BY <1>1, <1>2, <1>3, <1>4, <1>5, <1>6, <1>7, <1>8 DEF Next, Caller, Task, Idle

\* A late wrapper of an earlier turn never takes the slot from the turn steer must find.
THEOREM SlotNamesLatest == Spec => []LatestTurnOwnsSlot
<1>1. TurnInv => LatestTurnOwnsSlot
  BY DEF TurnInv
<1>2. QED
  BY <1>1, TurnInit, TurnInductive, PTL DEF Spec

\* Whatever the order of steers, interrupts and new prompts, a turn that was superseded
\* before its last write had its token cancelled.
THEOREM Superseded == Spec => []SupersededIsCancelled
<1>1. TurnInv => SupersededIsCancelled
  BY DEF TurnInv
<1>2. QED
  BY <1>1, TurnInit, TurnInductive, PTL DEF Spec

\* The front end lets go of a turn only when it writes nothing more or is being aborted.
THEOREM Drained == Spec => []DrainedIsSettled
<1>1. TurnInv => DrainedIsSettled
  BY DEF TurnInv
<1>2. QED
  BY <1>1, TurnInit, TurnInductive, PTL DEF Spec

\* No turn's write-back drops a pin: only the user removes one.
THEOREM PinsSurvive == Spec => PinsKept
<1>1. [Next]_vars => [\A p \in pins \ pins' : Unpin(p)]_vars
  <2> SUFFICES ASSUME [Next]_vars, NEW p \in pins \ pins' PROVE Unpin(p)
    OBVIOUS
  <2>1. ASSUME NEW t \in Turn, Commit(t) PROVE pins \subseteq pins'
    BY <2>1 DEF Commit, MergedPins
  <2>2. \/ pins \subseteq pins'
        \/ \E q \in Pin : Unpin(q)
    BY <2>1 DEF Next, Caller, Task, Monitor, Idle, Start, Steer, Spawn, Interrupt, Drain,
        PushFollowUp, AddPin, Begin, InlineTurn, Answer, StopBetweenRounds, StopMidStream,
        Preserve, Persist, Report, Close, Killed, Wake, Select, GraceExpires, Mark,
        taskOnly, monitorOnly, sharedVars, vars
  <2>3. QED
    BY <2>2 DEF Unpin
<1>2. QED
  BY <1>1, PTL DEF Spec, PinsKept

=============================================================================
