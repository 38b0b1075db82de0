----------------------------- MODULE JobsProofs -----------------------------
(***************************************************************************)
(* Proofs about Jobs, for any calls and any retention limit: a body that   *)
(* runs keeps a Running record.  What an update of the registry does is    *)
(* stated once (Retained, Registers, Concludes); the invariant adds what   *)
(* the watchdogs have done to the bodies they mark.  Retention drops the   *)
(* jobs that ended first, of the finitely many that have a record.         *)
(***************************************************************************)
EXTENDS Jobs, FiniteSetTheorems, TLAPS

USE DEF Call, ActiveStatus, TerminalStatus

Status == {"none"} \cup ActiveStatus \cup TerminalStatus

\* The registry's part of TypeOK
RegistryOK ==
    /\ status \in [Call -> Status]
    /\ ended \in [Call -> Nat]
    /\ clock \in Nat
    /\ attached \subseteq Registered \cap LocalCall

\* Apart from j, no active record is touched.
OthersKept(j) == \A k \in Call \ {j} : Active(k) => status'[k] = status[k]

-----------------------------------------------------------------------------
(* Updates of the registry.                                                *)

\* Pruning takes terminal records only, and a handle goes with its record.
LEMMA Retained ==
    ASSUME RegistryOK,
           NEW st \in [Call -> Status], NEW at \in [Call -> Nat],
           \A j \in Call : status[j] # "none" => st[j] # "none",
           Retain(st, at)
    PROVE  /\ status' \in [Call -> Status]
           /\ ended' \in [Call -> Nat]
           /\ attached' \subseteq Registered' \cap LocalCall
           /\ \A j \in Call : st[j] \in ActiveStatus => status'[j] = st[j]
<1>1. \A j \in Pruned(st, at) : st[j] \in TerminalStatus
  BY DEF Pruned, Expendable
<1>2. \A j \in Call : status'[j] = IF j \in Pruned(st, at) THEN "none" ELSE st[j]
  BY DEF Retain
<1>3. status' \in [Call -> Status] /\ ended' \in [Call -> Nat]
  BY DEF Retain, Status
<1>4. attached' \subseteq Registered' \cap LocalCall
  BY <1>2 DEF Retain, RegistryOK, Registered
<1>5. \A j \in Call : st[j] \in ActiveStatus => status'[j] = st[j]
  BY <1>1, <1>2
<1>6. QED
  BY <1>3, <1>4, <1>5

\* create adds a queued record.
LEMMA Registers ==
    ASSUME RegistryOK, NEW j \in Call, Register(j)
    PROVE  RegistryOK' /\ status'[j] = "queued" /\ OthersKept(j)
<1> DEFINE st == [status EXCEPT ![j] = "queued"]
<1>1. st \in [Call -> Status] /\ (\A k \in Call : status[k] # "none" => st[k] # "none")
  BY DEF RegistryOK, Status
<1>2. Retain(st, ended) /\ clock' = clock
  BY DEF Register
<1>3. ended \in [Call -> Nat]
  BY DEF RegistryOK
<1> HIDE DEF st
<1>4. /\ status' \in [Call -> Status]
      /\ ended' \in [Call -> Nat]
      /\ attached' \subseteq Registered' \cap LocalCall
      /\ \A k \in Call : st[k] \in ActiveStatus => status'[k] = st[k]
  BY <1>1, <1>2, <1>3, Retained
<1>5. st[j] = "queued" /\ \A k \in Call \ {j} : st[k] = status[k]
  BY DEF st, RegistryOK
<1>6. QED
  BY <1>2, <1>4, <1>5 DEF RegistryOK, OthersKept, Active

\* finish ends one record, if it is still there.
LEMMA Concludes ==
    ASSUME RegistryOK, NEW j \in Call, NEW s \in TerminalStatus, Conclude(j, s)
    PROVE  RegistryOK' /\ OthersKept(j)
<1> DEFINE st == [status EXCEPT ![j] = s]
           at == [ended EXCEPT ![j] = clock + 1]
<1>1. CASE status[j] = "none" /\ UNCHANGED registry
  BY <1>1 DEF registry, RegistryOK, OthersKept, Registered
<1>2. CASE status[j] # "none" /\ clock' = clock + 1 /\ Retain(st, at)
  <2>1. st \in [Call -> Status] /\ (\A k \in Call : status[k] # "none" => st[k] # "none")
    BY DEF RegistryOK, Status
  <2>2. at \in [Call -> Nat]
    BY DEF RegistryOK
  <2>3. \A k \in Call \ {j} : st[k] = status[k]
    BY DEF RegistryOK
  <2> HIDE DEF st, at
  <2>4. /\ status' \in [Call -> Status]
        /\ ended' \in [Call -> Nat]
        /\ attached' \subseteq Registered' \cap LocalCall
        /\ \A k \in Call : st[k] \in ActiveStatus => status'[k] = st[k]
    BY <1>2, <2>1, <2>2, Retained
  <2>5. clock' \in Nat
    BY <1>2 DEF RegistryOK
  <2>6. QED
    BY <2>3, <2>4, <2>5 DEF RegistryOK, OthersKept, Active
<1>3. QED
  BY <1>1, <1>2 DEF Conclude

\* finish_if_active does so to an active record.
LEMMA ConcludesActive ==
    ASSUME RegistryOK, NEW j \in Call, NEW s \in TerminalStatus, ConcludeIfActive(j, s)
    PROVE  RegistryOK' /\ OthersKept(j)
<1>1. CASE Conclude(j, s)
  BY <1>1, Concludes
<1>2. CASE UNCHANGED registry
  BY <1>2 DEF registry, RegistryOK, OthersKept, Registered
<1>3. QED
  BY <1>1, <1>2 DEF ConcludeIfActive

-----------------------------------------------------------------------------
(* Type correctness.                                                       *)

\* TypeOK in two halves: the registry, and the tasks around it.
TasksOK ==
    /\ body \in [Call -> {"unborn", "ready", "working", "finished", "over", "dropped"}]
    /\ aborted \subseteq Call
    /\ token \subseteq Call
    /\ watchers \in [Call -> Nat]
    /\ marks \in [Call -> Nat]
    /\ turn \in {"running", "cancelled", "aborted", "over"}
    /\ front \in LocalCall \cup {NoCall}
    /\ cancels \in 0..MaxCancels

LEMMA Halves == TypeOK <=> RegistryOK /\ TasksOK
BY DEF TypeOK, RegistryOK, TasksOK, Status

LEMMA HalvesNext == TypeOK' <=> RegistryOK' /\ TasksOK'
BY DEF TypeOK, RegistryOK, TasksOK, Status

LEMMA SameRegistry == RegistryOK /\ UNCHANGED registry => RegistryOK'
BY DEF RegistryOK, registry, Registered

LEMMA TypeInit == Init => TypeOK
BY JobsAssumption DEF Init, TypeOK, Registered

\* A notification leaves some number of watchdogs.
LEMMA Notifies ==
    ASSUME NEW j \in Call, watchers \in [Call -> Nat], Notify(j)
    PROVE  watchers' \in [Call -> Nat]
BY DEF Notify

LEMMA RegistryInductive == TypeOK /\ [Next]_vars => RegistryOK'
<1> SUFFICES ASSUME RegistryOK, TasksOK, [Next]_vars PROVE RegistryOK'
  BY Halves
<1>1. ASSUME NEW j \in Call, Submit(j) \/ Track(j) PROVE RegistryOK'
  BY <1>1, Registers DEF Submit, Track
<1>2. ASSUME NEW j \in LocalCall, Panic(j) \/ Mark(j) PROVE RegistryOK'
  BY <1>2, ConcludesActive DEF Panic, Mark
<1>3. ASSUME NEW j \in Call, Finish(j) PROVE RegistryOK'
  BY <1>3, Concludes DEF Finish
<1>4. ASSUME NEW j \in Call, Start(j) PROVE RegistryOK'
  <2>1. status' = [status EXCEPT ![j] = IF @ = "none" THEN @ ELSE "running"]
        /\ UNCHANGED <<ended, clock, attached>>
    BY <1>4 DEF Start
  <2>2. status' \in [Call -> Status] /\ Registered' = Registered
    BY <2>1 DEF RegistryOK, Status, Registered
  <2>3. QED
    BY <2>1, <2>2 DEF RegistryOK
<1>5. CASE Attach
  <2>1. front \in LocalCall
    BY <1>5 DEF Attach, TasksOK
  <2>2. UNCHANGED <<status, ended, clock>> /\ Registered' = Registered
    BY <1>5 DEF Attach, Registered
  <2>3. Attachable(front) => front \in Registered
    BY <2>1 DEF Attachable, Active, Registered
  <2>4. attached' \subseteq Registered' \cap LocalCall
    BY <1>5, <2>1, <2>2, <2>3 DEF Attach, RegistryOK
  <2>5. QED
    BY <2>2, <2>4 DEF RegistryOK
<1>6. ASSUME NEW j \in Call, Cancel(j) \/ Return(j) PROVE RegistryOK'
  BY <1>6, SameRegistry DEF Cancel, Return
<1>7. ASSUME NEW j \in LocalCall, GraceExpires(j) \/ Drop(j) PROVE RegistryOK'
  BY <1>7, SameRegistry DEF GraceExpires, Drop
<1>8. CASE CancelTurn \/ AbortTurn \/ DropTurn
  BY <1>8, SameRegistry DEF CancelTurn, AbortTurn, DropTurn
<1>9. CASE UNCHANGED vars
  BY <1>9, SameRegistry DEF vars, registry
<1>10. QED
  BY <1>1, <1>2, <1>3, <1>4, <1>5, <1>6, <1>7, <1>8, <1>9 DEF Next

LEMMA TasksInductive == TypeOK /\ [Next]_vars => TasksOK'
<1> SUFFICES ASSUME TasksOK, [Next]_vars PROVE TasksOK'
  BY Halves
<1> USE JobsAssumption DEF TasksOK
<1>1. ASSUME NEW j \in LocalCall, Submit(j) PROVE TasksOK'
  BY <1>1 DEF Submit
<1>2. ASSUME NEW j \in TurnCall, Track(j) PROVE TasksOK'
  BY <1>2 DEF Track
<1>3. ASSUME NEW j \in LocalCall, Panic(j) \/ Drop(j) PROVE TasksOK'
  BY <1>3 DEF Panic, Drop
<1>4. ASSUME NEW j \in LocalCall, GraceExpires(j) PROVE TasksOK'
  BY <1>4 DEF GraceExpires
<1>5. ASSUME NEW j \in LocalCall, Mark(j) PROVE TasksOK'
  <2>1. watchers' \in [Call -> Nat]
    BY <1>5, Notifies DEF Mark
  <2>2. marks' \in [Call -> Nat]
    BY <1>5 DEF Mark
  <2>3. QED
    BY <1>5, <2>1, <2>2 DEF Mark
<1>6. ASSUME NEW j \in Call, Cancel(j) PROVE TasksOK'
  BY <1>6 DEF Cancel
<1>7. ASSUME NEW j \in Call, Start(j) \/ Finish(j) PROVE TasksOK'
  BY <1>7 DEF Start, Finish
<1>8. ASSUME NEW j \in Call, Return(j) PROVE TasksOK'
  <2>1. watchers' \in [Call -> Nat]
    BY <1>8, Notifies DEF Return
  <2>2. QED
    BY <1>8, <2>1 DEF Return
<1>9. CASE Attach \/ CancelTurn \/ AbortTurn
  BY <1>9 DEF Attach, CancelTurn, AbortTurn
<1>10. CASE DropTurn
  BY <1>10 DEF DropTurn, Left
<1>11. CASE UNCHANGED vars
  BY <1>11 DEF vars
<1>12. QED
  BY <1>1, <1>2, <1>3, <1>4, <1>5, <1>6, <1>7, <1>8, <1>9, <1>10, <1>11 DEF Next

LEMMA TypeInductive == TypeOK /\ [Next]_vars => TypeOK'
BY RegistryInductive, TasksInductive, HalvesNext

\* Every variable of the job registry keeps its type.
THEOREM TypeCorrect == Spec => []TypeOK
BY TypeInit, TypeInductive, PTL DEF Spec

-----------------------------------------------------------------------------
(* Running bodies keep their record.                                       *)

\* A watchdog that has to mark has already aborted.
MarksFollowAborts == \A j \in Call : marks[j] > 0 => j \in aborted

\* A body that waits for its first poll has a record for start to find.
ReadyIsRegistered == \A j \in Call : body[j] = "ready" /\ j \notin aborted => Active(j)

JobsInv ==
    /\ TypeOK
    /\ MarksFollowAborts
    /\ ReadyIsRegistered
    /\ RunningIsCancellable

LEMMA JobsInit == Init => JobsInv
BY TypeInit DEF Init, JobsInv, MarksFollowAborts, ReadyIsRegistered, RunningIsCancellable

\* What a step has to leave alone for the invariant to hold after it: bodies that are not
\* new in their state, and, for those not aborted, their active records.
LEMMA Undisturbed ==
    ASSUME JobsInv, TypeOK', NEW j \in Call,
           OthersKept(j), aborted \subseteq aborted',
           \A k \in Call \ {j} : body'[k] = body[k],
           body'[j] \in {"ready", "working"} /\ j \notin aborted' =>
               status'[j] = (IF body'[j] = "ready" THEN "queued" ELSE "running")
    PROVE  ReadyIsRegistered' /\ RunningIsCancellable'
<1> USE DEF Active
<1>1. ReadyIsRegistered'
  <2> SUFFICES ASSUME NEW k \in Call, body'[k] = "ready", k \notin aborted'
               PROVE  Active(k)'
    BY DEF ReadyIsRegistered
  <2>1. CASE k = j
    BY <2>1
  <2>2. CASE k # j
    BY <2>2 DEF OthersKept, JobsInv, ReadyIsRegistered
  <2>3. QED
    BY <2>1, <2>2
<1>2. RunningIsCancellable'
  <2> SUFFICES ASSUME NEW k \in Call, body'[k] = "working", k \notin aborted'
               PROVE  status'[k] = "running"
    BY DEF RunningIsCancellable
  <2>1. CASE k = j
    BY <2>1
  <2>2. CASE k # j
    BY <2>2 DEF OthersKept, JobsInv, RunningIsCancellable
  <2>3. QED
    BY <2>1, <2>2
<1>3. QED
  BY <1>1, <1>2

LEMMA JobsInductive == JobsInv /\ [Next]_vars => JobsInv'
<1> SUFFICES ASSUME JobsInv, [Next]_vars PROVE JobsInv'
  OBVIOUS
<1>1. TypeOK' /\ RegistryOK /\ TasksOK
  BY TypeInductive, Halves DEF JobsInv
<1> USE DEF Active
<1>2. MarksFollowAborts'
  <2>1. ASSUME NEW j \in LocalCall, GraceExpires(j) PROVE MarksFollowAborts'
    BY <1>1, <2>1 DEF GraceExpires, JobsInv, MarksFollowAborts, TasksOK
  <2>2. ASSUME NEW j \in LocalCall, Mark(j) PROVE MarksFollowAborts'
    BY <1>1, <2>2 DEF Mark, JobsInv, MarksFollowAborts, TasksOK
  <2>3. CASE UNCHANGED marks /\ aborted \subseteq aborted'
    BY <2>3 DEF JobsInv, MarksFollowAborts
  <2>4. QED
    BY <2>1, <2>2, <2>3 DEF Next, Submit, Panic, Drop, Track, Cancel, Start, Finish, Return,
        Attach, CancelTurn, AbortTurn, DropTurn, vars
<1>3. ReadyIsRegistered' /\ RunningIsCancellable'
  <2>1. ASSUME NEW j \in Call, Submit(j) \/ Track(j)
        PROVE  ReadyIsRegistered' /\ RunningIsCancellable'
    <3>1. status'[j] = "queued" /\ OthersKept(j)
      BY <1>1, <2>1, Registers DEF Submit, Track
    <3>2. aborted' = aborted /\ body' = [body EXCEPT ![j] = "ready"]
      BY <2>1 DEF Submit, Track
    <3>3. body'[j] = "ready" /\ \A k \in Call \ {j} : body'[k] = body[k]
      BY <1>1, <3>2 DEF TasksOK
    <3>4. QED
      BY <1>1, <3>1, <3>2, <3>3, Undisturbed
  <2>2. ASSUME NEW j \in Call, Finish(j) \/ (j \in LocalCall /\ Panic(j))
        PROVE  ReadyIsRegistered' /\ RunningIsCancellable'
    <3>1. OthersKept(j)
      BY <1>1, <2>2, Concludes, ConcludesActive DEF Finish, Panic
    <3>2. aborted' = aborted /\ body' = [body EXCEPT ![j] = "finished"]
      BY <2>2 DEF Finish, Panic
    <3>3. body'[j] = "finished" /\ \A k \in Call \ {j} : body'[k] = body[k]
      BY <1>1, <3>2 DEF TasksOK
    <3>4. QED
      BY <1>1, <3>1, <3>2, <3>3, Undisturbed
  <2>3. ASSUME NEW j \in Call, Start(j)
        PROVE  ReadyIsRegistered' /\ RunningIsCancellable'
    <3>1. body[j] = "ready" /\ aborted' = aborted /\ body' = [body EXCEPT ![j] = "working"]
          /\ status' = [status EXCEPT ![j] = IF @ = "none" THEN @ ELSE "running"]
      BY <2>3 DEF Start
    <3>2. OthersKept(j)
      BY <1>1, <3>1 DEF OthersKept, RegistryOK
    <3>3. j \notin aborted => status'[j] = "running"
      BY <1>1, <3>1 DEF JobsInv, ReadyIsRegistered, RegistryOK
    <3>4. body'[j] = "working" /\ \A k \in Call \ {j} : body'[k] = body[k]
      BY <1>1, <3>1 DEF TasksOK
    <3>5. QED
      BY <1>1, <3>1, <3>2, <3>3, <3>4, Undisturbed
  <2>4. ASSUME NEW j \in LocalCall, Mark(j)
        PROVE  ReadyIsRegistered' /\ RunningIsCancellable'
    <3>1. OthersKept(j)
      BY <1>1, <2>4, ConcludesActive DEF Mark
    <3>2. j \in aborted /\ aborted' = aborted /\ body' = body
      BY <1>1, <2>4 DEF Mark, JobsInv, MarksFollowAborts, TasksOK
    <3>3. QED
      BY <1>1, <3>1, <3>2, Undisturbed
  <2>5. CASE /\ UNCHANGED status
             /\ aborted \subseteq aborted'
             /\ \A k \in Call : body'[k] \in {"ready", "working"} => body'[k] = body[k]
    BY <2>5 DEF JobsInv, ReadyIsRegistered, RunningIsCancellable
  <2>6. CASE Attach \/ CancelTurn \/ AbortTurn \/ DropTurn \/ UNCHANGED vars
    <3>1. UNCHANGED status /\ aborted \subseteq aborted'
      BY <2>6 DEF Attach, CancelTurn, AbortTurn, DropTurn, vars, registry
    <3>2. \A k \in Call : body'[k] \in {"ready", "working"} => body'[k] = body[k]
      BY <1>1, <2>6 DEF Attach, CancelTurn, AbortTurn, DropTurn, Left, vars, TasksOK
    <3>3. QED
      BY <2>5, <3>1, <3>2
  <2>7. ASSUME NEW j \in Call, Cancel(j) \/ Return(j) \/ GraceExpires(j) \/ Drop(j)
        PROVE  ReadyIsRegistered' /\ RunningIsCancellable'
    <3>1. UNCHANGED status /\ aborted \subseteq aborted'
      BY <2>7 DEF Cancel, Return, GraceExpires, Drop, registry
    <3>2. \A k \in Call : body'[k] \in {"ready", "working"} => body'[k] = body[k]
      BY <1>1, <2>7 DEF Cancel, Return, GraceExpires, Drop, TasksOK
    <3>3. QED
      BY <2>5, <3>1, <3>2
  <2>8. QED
    BY <2>1, <2>2, <2>3, <2>4, <2>6, <2>7 DEF Next
<1>4. QED
  BY <1>1, <1>2, <1>3 DEF JobsInv

\* Whatever ends, is pruned, is aborted or panics around it, a body that runs has a
\* Running record: /tasks shows it and cancel_job reaches it.
THEOREM RunningCancellable == Spec => []RunningIsCancellable
<1>1. JobsInv => RunningIsCancellable
  BY DEF JobsInv
<1>2. QED
  BY <1>1, JobsInit, JobsInductive, PTL DEF Spec

-----------------------------------------------------------------------------
(* The order in which records go.                                          *)
Records(st) == {j \in Call : st[j] # "none"}

\* Only finitely many records are there to be counted.
FewRecords == IsFiniteSet(Registered)

\* What retention drops ended no later than what it keeps.
Oldest(st, at) ==
    \A j, k \in Call :
        st[j] # "none" /\ status'[j] = "none" /\ status'[k] \in TerminalStatus => at[j] <= at[k]

\* Of two terminal records, no more ended before the one that ended first than before the
\* other: if the other is to spare, so is it.
LEMMA RetainsLatest ==
    ASSUME NEW st \in [Call -> Status], NEW at \in [Call -> Nat],
           IsFiniteSet(Records(st)), Retain(st, at)
    PROVE  Oldest(st, at) /\ IsFiniteSet(Records(status'))
<1>1. \A j \in Call : status'[j] = IF j \in Pruned(st, at) THEN "none" ELSE st[j]
  BY DEF Retain
<1>2. Oldest(st, at)
  <2>1. SUFFICES ASSUME NEW j \in Call, NEW k \in Call, st[j] # "none", status'[j] = "none",
                        status'[k] \in TerminalStatus, ~(at[j] <= at[k])
                 PROVE  FALSE
    BY DEF Oldest
  <2> DEFINE Before(x) == {l \in Expendable(st) : at[l] < at[x]}
  <2>2. j \in Pruned(st, at) /\ k \in Expendable(st) /\ k \notin Pruned(st, at)
    BY <1>1, <2>1 DEF Expendable
  <2>3. at[j] \in Nat /\ at[k] \in Nat /\ \A l \in Expendable(st) : at[l] \in Nat
    BY DEF Expendable
  <2>4. Before(k) \subseteq Before(j)
    BY <2>1, <2>3
  <2>5. IsFiniteSet(Before(j))
    <3>1. Before(j) \subseteq Records(st)
      BY DEF Expendable, Records
    <3>2. QED
      BY <3>1, FS_Subset
  <2>6. /\ Cardinality(Before(k)) \in Nat /\ Cardinality(Before(j)) \in Nat
        /\ Cardinality(Before(k)) <= Cardinality(Before(j))
    BY <2>4, <2>5, FS_Subset, FS_CardinalityType
  <2>7. Cardinality(Records(st)) \in Nat /\ MaxRetained \in Nat
    BY FS_CardinalityType, JobsAssumption
  <2>8. /\ Cardinality(Before(j)) + MaxRetained < Cardinality(Records(st))
        /\ ~(Cardinality(Before(k)) + MaxRetained < Cardinality(Records(st)))
    BY <2>2 DEF Pruned, Records
  <2> HIDE DEF Before
  <2>9. QED
    BY <2>6, <2>7, <2>8
<1>3. IsFiniteSet(Records(status'))
  <2>1. Records(status') \subseteq Records(st)
    BY <1>1 DEF Records
  <2>2. QED
    BY <2>1, FS_Subset
<1>4. QED
  BY <1>2, <1>3

\* One step: a record that goes ended no later than any that stays.
Orderly ==
    \A j, k \in Call :
        status[j] # "none" /\ status'[j] = "none" /\ status'[k] \in TerminalStatus
            => ended'[j] <= ended'[k]

LEMMA UpdatesOrderly ==
    ASSUME FewRecords, NEW j \in Call, NEW s \in Status \ {"none"}, NEW at \in [Call -> Nat],
           RegistryOK, Retain([status EXCEPT ![j] = s], at)
    PROVE  Orderly /\ FewRecords'
<1> DEFINE st == [status EXCEPT ![j] = s]
<1>1. st \in [Call -> Status] /\ \A k \in Call : status[k] # "none" => st[k] # "none"
  BY DEF RegistryOK, Status
<1>2. IsFiniteSet(Records(st))
  <2>1. Records(st) \subseteq Registered \cup {j}
    BY DEF RegistryOK, Records, Registered
  <2>2. IsFiniteSet(Registered \cup {j})
    BY FS_AddElement DEF FewRecords
  <2>3. QED
    BY <2>1, <2>2, FS_Subset
<1>3. Retain(st, at) /\ ended' = at
  BY DEF Retain
<1> HIDE DEF st
<1>4. Oldest(st, at) /\ IsFiniteSet(Records(status'))
  BY <1>1, <1>2, <1>3, RetainsLatest
<1>5. FewRecords'
  <2>1. Registered' = Records(status')
    BY DEF Registered, Records
  <2>2. QED
    BY <1>4, <2>1 DEF FewRecords
<1>6. Orderly
  BY <1>1, <1>3, <1>4 DEF Orderly, Oldest
<1>7. QED
  BY <1>5, <1>6

LEMMA OrderlyStep == TypeOK /\ FewRecords /\ [Next]_vars => Orderly /\ FewRecords'
<1> SUFFICES ASSUME TypeOK, FewRecords, [Next]_vars PROVE Orderly /\ FewRecords'
  OBVIOUS
<1>0. RegistryOK /\ TasksOK
  BY Halves
<1>1. ASSUME \A j \in Call : status[j] = "none" <=> status'[j] = "none"
      PROVE  Orderly /\ FewRecords'
  <2>1. Registered' = Registered
    BY <1>1 DEF Registered
  <2>2. QED
    BY <1>1, <2>1 DEF Orderly, FewRecords
<1>2. CASE UNCHANGED status
  BY <1>1, <1>2
<1>3. ASSUME NEW j \in Call, Register(j)
      PROVE  Orderly /\ FewRecords'
  BY <1>0, <1>3, UpdatesOrderly DEF Register, RegistryOK, Status
<1>4. ASSUME NEW j \in Call, NEW s \in TerminalStatus, Conclude(j, s)
      PROVE  Orderly /\ FewRecords'
  <2>1. CASE Retain([status EXCEPT ![j] = s], [ended EXCEPT ![j] = clock']) /\ clock' = clock + 1
    <3>1. [ended EXCEPT ![j] = clock'] \in [Call -> Nat]
      BY <1>0, <2>1 DEF RegistryOK
    <3>2. QED
      BY <1>0, <2>1, <3>1, UpdatesOrderly DEF Status
  <2>2. QED
    BY <1>2, <1>4, <2>1 DEF Conclude, registry
<1>5. ASSUME NEW j \in Call, NEW s \in TerminalStatus, ConcludeIfActive(j, s)
      PROVE  Orderly /\ FewRecords'
  BY <1>2, <1>4, <1>5 DEF ConcludeIfActive, registry
<1>6. ASSUME NEW j \in Call, Submit(j) \/ Track(j)
      PROVE  Orderly /\ FewRecords'
  BY <1>3, <1>6 DEF Submit, Track
<1>7. ASSUME NEW j \in LocalCall, Panic(j) \/ Mark(j)
      PROVE  Orderly /\ FewRecords'
  BY <1>5, <1>7 DEF Panic, Mark
<1>8. ASSUME NEW j \in Call, Finish(j)
      PROVE  Orderly /\ FewRecords'
  BY <1>4, <1>8 DEF Finish
<1>9. ASSUME NEW j \in Call, Start(j)
      PROVE  Orderly /\ FewRecords'
  <2>1. \A k \in Call : status[k] = "none" <=> status'[k] = "none"
    BY <1>0, <1>9 DEF Start, RegistryOK
  <2>2. QED
    BY <1>1, <2>1
<1>10. ASSUME NEW j \in Call, Cancel(j) \/ Return(j) \/ GraceExpires(j) \/ Drop(j)
       PROVE  Orderly /\ FewRecords'
  BY <1>2, <1>10 DEF Cancel, Return, GraceExpires, Drop, registry
<1>11. CASE Attach \/ CancelTurn \/ AbortTurn \/ DropTurn \/ UNCHANGED vars
  BY <1>2, <1>11 DEF Attach, CancelTurn, AbortTurn, DropTurn, vars, registry
<1>12. QED
  BY <1>6, <1>7, <1>8, <1>9, <1>10, <1>11 DEF Next

\* The registry forgets jobs in the order in which they ended, so that the outcome a user has
\* just been told of is still listed, however many jobs end or are created at the limit.
THEOREM LatestKept == Spec => OldestGoesFirst
<1>1. Init => FewRecords
  <2>1. Init => Registered = {}
    BY DEF Init, Registered
  <2>2. QED
    BY <2>1, FS_EmptySet DEF FewRecords
<1>2. TypeOK /\ FewRecords /\ [Next]_vars =>
          [\A j, k \in Call :
               status[j] # "none" /\ status'[j] = "none" /\ status'[k] \in TerminalStatus
                   => ended'[j] <= ended'[k]]_vars
  BY OrderlyStep DEF Orderly
<1>3. TypeOK /\ FewRecords /\ [Next]_vars => FewRecords'
  BY OrderlyStep
<1>4. QED
  BY <1>1, <1>2, <1>3, TypeInit, TypeInductive, PTL DEF Spec, OldestGoesFirst

=============================================================================
