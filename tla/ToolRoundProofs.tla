--------------------------- MODULE ToolRoundProofs ---------------------------
(***************************************************************************)
(* Proofs about ToolRound, for any round of calls, any limits and any      *)
(* number of leases left over: type correctness, the byte budget, what a   *)
(* cancellation stops, the cap on subagents, a result for every call, the  *)
(* order of the edits, the bill and the cards.                             *)
(***************************************************************************)
EXTENDS ToolRound, FiniteSetTheorems, TLAPS

-----------------------------------------------------------------------------
(* The parts of the invariant. *)

\* Where validation puts the calls of each kind, and how far each list reaches
Sorted ==
    /\ \A i \in delegated : Delegate(i)
    /\ \A k \in DOMAIN approved : KindOf(approved[k]) \in {"read", "edit"}
    /\ \A k \in DOMAIN batch : batch[k] \in Approved /\ KindOf(batch[k]) = "read"
    /\ Len(approved) <= Len(calls)
    /\ at \in {"validate", "inline"} => Len(approved) < step /\ batch = <<>>
    /\ at = "inline" => step \in Index /\ Inline(step)
    /\ at = "edit" => step \in DOMAIN approved /\ batch = <<>>
    /\ \A i \in Index : outcome[i] = "capped" \/ i \in leases => Inline(i) \/ Delegate(i)
    /\ \A i \in Index : at \in {"validate", "inline"} /\ i > step => unit[i] = "none"
    /\ \A i \in Index : at = "validate" /\ i = step =>
           unit[i] = "none" \/ (unit[i] = "asking" /\ KindOf(i) \in {"read", "edit"})

\* Who is in the registry, and who waits for a slot
Leased ==
    /\ \A i \in leases :
           /\ unit[i] \in {"running", "asking", "editing"}
           /\ \/ i \in delegated /\ at \in {"joined", "delegating"}
              \/ Inline(i) /\ at = "inline" /\ step = i
    /\ \A i \in Index : unit[i] = "editing" => i \in leases
    /\ \A i \in Index : unit[i] = "queued" =>
           \/ i \in delegated /\ at \in {"joined", "delegating"}
           \/ i \in Approved /\ at = "joined"
           \/ i \in Batch /\ at = "reading"

\* What has ended has an outcome.
Known ==
    /\ \A i \in Index : unit[i] = "ended" /\ ~Inline(i) => outcome[i] # "none"
    /\ at = "inline" /\ unit[step] = "ended" => outcome[step] # "none"

\* Only an interrupt cancels a prompt.
Honest == \A i \in Index : answer[i].action = "cancel" => cancelled

Has(i) == results[i] # "none"

\* Where the calls without a result are, as long as the round is not cancelled
Paired ==
    /\ at \in {"validate", "inline"} =>
           \A i \in 1..step - 1 : Has(i) \/ i \in delegated \/ i \in Approved
    /\ at \in {"joined", "delegating"} =>
           \A i \in Index : Has(i) \/ i \in delegated \/ i \in Approved
    /\ at = "joined" => batch = approved /\ step = Len(approved) + 1
    /\ at = "delegating" => batch = <<>> /\ step = 1
    /\ at \in {"serial", "flush", "reading", "folding", "edit"} =>
           /\ \A i \in Index : Has(i) \/ i \in Approved
           /\ \A m \in DOMAIN approved : m < step => Has(approved[m]) \/ approved[m] \in Batch
    /\ at = "folding" => AllEnded(Batch)
    /\ at = "done" => \A i \in Index : Has(i)

TInv == TypeOK /\ Sorted
LInv == TInv /\ Leased
RInv == LInv /\ Known /\ Honest /\ (cancelled \/ Paired) /\ NeverRefused /\ RoundPaired

USE DEF place, collected, work, prompts, policy, registry, broker, events

-----------------------------------------------------------------------------
(* Type correctness, by groups of variables. *)
Where == {"validate", "inline", "joined", "delegating", "serial", "flush", "reading", "folding",
          "edit", "done", "committed", "cancelled"}

PlaceOK == calls \in Round /\ at \in Where /\ step \in 1..Len(calls) + 1
ListsOK == delegated \subseteq Index /\ approved \in Seq(Index) /\ batch \in Seq(Index)
WorkOK ==
    /\ unit \in [Index -> Busy \cup {"none", "ended"}]
    /\ outcome \in [Index -> Statuses \cup {"none", "capped"}]
    /\ hops \in 0..2 /\ asked \subseteq Index
ResultsOK ==
    /\ results \in [Index -> Statuses \cup {"none", "denied"}]
    /\ started \in [Index -> Nat] /\ completed \in [Index -> Nat]
PromptsOK ==
    /\ inbox \subseteq Index /\ slot \in Index \cup {None}
    /\ answer \in [Index -> [action : Answers \cup {"none"}, lasting : BOOLEAN]]
    /\ rules \in [Target -> Decisions \cup {"none"}]
CountsOK ==
    /\ {mode, configMode} \subseteq {"build", "plan"}
    /\ leases \subseteq Index /\ left \in Nat
    /\ cancelled \in BOOLEAN /\ used \in Nat /\ billed \in Nat

LEMMA Groups ==
    TypeOK <=> PlaceOK /\ ListsOK /\ WorkOK /\ ResultsOK /\ PromptsOK /\ CountsOK
BY DEF TypeOK, PlaceOK, ListsOK, WorkOK, ResultsOK, PromptsOK, CountsOK, Where

LEMMA GroupsNext ==
    TypeOK' <=> PlaceOK' /\ ListsOK' /\ WorkOK' /\ ResultsOK' /\ PromptsOK' /\ CountsOK'
BY DEF TypeOK, PlaceOK, ListsOK, WorkOK, ResultsOK, PromptsOK, CountsOK, Where

LEMMA Element ==
    ASSUME NEW S, NEW s \in Seq(S), NEW k \in DOMAIN s
    PROVE  s[k] \in S /\ k \in 1..Len(s)
OBVIOUS

LEMMA Calls ==
    ASSUME PlaceOK
    PROVE  /\ Len(calls) \in Nat /\ Index = 1..Len(calls)
           /\ \A i \in Index : KindOf(i) \in Kind /\ calls[i].target \in Target
<1>1. calls \in Seq([kind : Kind, target : Target])
  BY ToolRoundAssumption DEF PlaceOK
<1>2. /\ Len(calls) \in Nat /\ Index = 1..Len(calls)
      /\ \A i \in 1..Len(calls) : calls[i] \in [kind : Kind, target : Target]
  <2>1. Len(calls) \in Nat /\ DOMAIN calls = 1..Len(calls)
    BY <1>1
  <2>2. ASSUME NEW i \in 1..Len(calls) PROVE calls[i] \in [kind : Kind, target : Target]
    BY <1>1, <2>1, Element
  <2>3. QED
    BY <2>1, <2>2 DEF Index
<1>3. ASSUME NEW i \in Index PROVE KindOf(i) \in Kind /\ calls[i].target \in Target
  BY <1>2 DEF KindOf
<1>4. QED
  BY <1>2, <1>3

LEMMA Steady == Next => calls' = calls /\ (cancelled => cancelled')
<1> SUFFICES ASSUME Next PROVE calls' = calls /\ (cancelled => cancelled')
  OBVIOUS
<1>1. ASSUME NEW i \in Index, Call(i) PROVE UNCHANGED <<calls, cancelled>>
  BY ONLY <1>1
     DEF Call, StopValidating, AnswerDirectly, CollectDelegate, StartInline, Judge, StartSubagent,
         RequestEdit, EndEdit, NextHop, EndInline, StartRead, Conclude, HearAnswer, EndSubagent,
         EndTool
<1>2. CASE Agent
  BY ONLY <1>1, <1>2
     DEF Agent, Dispatch, EndDelegating, EndReading, FoldRead, EndFold, Walk, EndWalk, Flush,
         RunEdit, Commit
<1>3. CASE User \/ EndLeftOver \/ \E i \in Index : Show(i)
  BY ONLY <1>3 DEF User, Interrupt, Toggle, Decide, Show, EndLeftOver
<1>4. QED
  BY <1>2, <1>3 DEF Next

LEMMA TypeInit == Init => TypeOK
<1> SUFFICES ASSUME Init PROVE TypeOK
  OBVIOUS
<1>1. PlaceOK
  <2>1. calls \in Seq([kind : Kind, target : Target])
    BY ToolRoundAssumption DEF Init
  <2>2. QED
    BY <2>1 DEF Init, PlaceOK, Where
<1>2. ListsOK /\ WorkOK /\ ResultsOK
  BY DEF Init, ListsOK, WorkOK, ResultsOK
<1>3. PromptsOK
  BY DEF Init, PromptsOK, NoAnswer
<1>4. CountsOK
  <2>1. PICK p \in Prior : used = p[1] /\ billed = p[2]
    BY DEF Init
  <2>2. p \in Nat \X (0..MaxBytesRead + ReadBytes - 1) /\ MaxLeft \in Nat
    BY <2>1, ToolRoundAssumption
  <2>3. used \in Nat /\ billed \in Nat
    BY <2>1, <2>2
  <2>4. QED
    BY <2>2, <2>3, ToolRoundAssumption DEF Init, CountsOK
<1>5. QED
  BY <1>1, <1>2, <1>3, <1>4, Groups

LEMMA SameIndex == UNCHANGED calls => Index' = Index /\ \A i : KindOf(i)' = KindOf(i)
BY DEF Index, KindOf

LEMMA PlaceStep == PlaceOK /\ Sorted /\ ListsOK /\ Next => PlaceOK'
<1> SUFFICES ASSUME PlaceOK, Sorted, ListsOK, Next PROVE PlaceOK'
  OBVIOUS
<1> USE Steady, Calls
<1>1. CASE UNCHANGED place
  BY <1>1 DEF PlaceOK
<1>2. ASSUME NEW i \in Index, StopValidating(i) \/ AnswerDirectly(i) \/ CollectDelegate(i)
                              \/ StartInline(i) \/ Judge(i) \/ EndInline(i)
      PROVE  PlaceOK'
  BY <1>2 DEF PlaceOK, Where, StopValidating, AnswerDirectly, CollectDelegate, StartInline,
              Judge, EndInline, Validating
<1>3. ASSUME NEW i \in Index, NEW said \in Answers, Conclude(i, said)
      PROVE  PlaceOK'
  BY <1>3 DEF PlaceOK, Where, Conclude, Validating
<1>4. CASE Dispatch \/ EndDelegating \/ EndReading \/ EndFold \/ EndWalk \/ Flush \/ Commit
  BY <1>4 DEF PlaceOK, Where, ListsOK, Sorted, Dispatch, EndDelegating, EndReading, EndFold,
              EndWalk, Flush, Commit, AfterFlush
<1>5. CASE Walk \/ RunEdit
  BY <1>5 DEF PlaceOK, Where, ListsOK, Sorted, Walk, RunEdit, NextCall
<1>6. QED
  BY <1>1, <1>2, <1>3, <1>4, <1>5
     DEF Next, Agent, User, Call, StartSubagent, RequestEdit, EndEdit, NextHop, StartRead,
         HearAnswer, EndSubagent, EndTool, FoldRead, Interrupt, Toggle, Decide, Show, EndLeftOver

LEMMA ListsStep == PlaceOK /\ ListsOK /\ Next => ListsOK'
<1> SUFFICES ASSUME PlaceOK, ListsOK, Next PROVE ListsOK'
  OBVIOUS
<1>0. Index' = Index
  BY Steady, SameIndex
<1>1. CASE UNCHANGED collected
  BY <1>0, <1>1 DEF ListsOK
<1>2. ASSUME NEW i \in Index, CollectDelegate(i) \/ Judge(i)
      PROVE  ListsOK'
  <2>1. CASE CollectDelegate(i)
    BY <1>0, <2>1 DEF ListsOK, CollectDelegate
  <2>2. CASE Judge(i)
    <3>1. /\ UNCHANGED <<delegated, batch>>
          /\ approved' = approved \/ approved' = Append(approved, i)
      BY ONLY <2>2 DEF Judge
    <3>2. QED
      BY <1>0, <3>1 DEF ListsOK
  <2>3. QED
    BY <1>2, <2>1, <2>2
<1>3. ASSUME NEW i \in Index, NEW said \in Answers, Conclude(i, said)
      PROVE  ListsOK'
  BY <1>0, <1>3 DEF ListsOK, Conclude
<1>4. CASE Dispatch \/ FoldRead \/ Flush
  <2>1. CASE Dispatch
    BY <1>0, <2>1 DEF ListsOK, Dispatch
  <2>2. CASE FoldRead
    BY <1>0, <2>2 DEF ListsOK, FoldRead
  <2>3. CASE Flush
    <3>1. UNCHANGED <<delegated, approved>> /\ (batch' = <<>> \/ UNCHANGED batch)
      BY <2>3 DEF Flush
    <3>2. batch' \in Seq(Index)
      <4>1. <<>> \in Seq(Index)
        OBVIOUS
      <4>2. QED
        BY <1>0, <3>1, <4>1 DEF ListsOK
    <3>3. QED
      BY <1>0, <3>1, <3>2 DEF ListsOK
  <2>4. QED
    BY <1>4, <2>1, <2>2, <2>3
<1>5. CASE Walk
  <2>1. step \in DOMAIN approved /\ approved[step] \in Index
    BY <1>5, Element DEF ListsOK, Walk
  <2>2. CASE UNCHANGED batch
    BY <1>0, <1>5, <2>2 DEF ListsOK, Walk
  <2>3. CASE batch' = Append(batch, approved[step])
    BY <1>0, <1>5, <2>1, <2>3 DEF ListsOK, Walk
  <2>4. QED
    BY <1>5, <2>2, <2>3 DEF Walk
<1>6. QED
  BY <1>1, <1>2, <1>3, <1>4, <1>5, ZenonT(60)
     DEF Next, Agent, User, Call, StopValidating, AnswerDirectly, StartInline, StartSubagent,
         RequestEdit, EndEdit, NextHop, EndInline, StartRead, HearAnswer, EndSubagent, EndTool,
         EndDelegating, EndReading, EndFold, EndWalk, RunEdit, Commit, Interrupt, Toggle, Decide,
         Show, EndLeftOver

LEMMA WorkStep == PlaceOK /\ ListsOK /\ WorkOK /\ Sorted /\ Next => WorkOK'
<1> SUFFICES ASSUME PlaceOK, ListsOK, WorkOK, Sorted, Next PROVE WorkOK'
  OBVIOUS
<1>0. Index' = Index
  BY Steady, SameIndex
<1> USE <1>0 DEF WorkOK, Busy
<1>1. CASE UNCHANGED work
  BY <1>1
<1>2. ASSUME NEW i \in Index, StartInline(i) \/ Judge(i) \/ StartSubagent(i) \/ RequestEdit(i)
                              \/ EndEdit(i) \/ NextHop(i) \/ EndInline(i) \/ StartRead(i)
      PROVE  WorkOK'
  BY <1>2 DEF StartInline, Judge, StartSubagent, RequestEdit, EndEdit, NextHop, EndInline,
              StartRead, RunTool, Ask, Statuses
<1>3. ASSUME NEW i \in Index, NEW said \in Answers, Conclude(i, said) \/ HearAnswer(i, said)
      PROVE  WorkOK'
  BY <1>3 DEF Conclude, HearAnswer
<1>4. ASSUME NEW i \in Index, NEW status \in Statuses, EndSubagent(i, status) \/ EndTool(i, status)
      PROVE  WorkOK'
  BY <1>4 DEF EndSubagent, EndTool
<1>5. CASE Dispatch \/ Flush
  BY <1>5 DEF Dispatch, Flush, Queued
<1>6. CASE RunEdit
  <2>1. CASE UNCHANGED work
    BY <2>1
  <2>2. approved[step] \in Index
    BY <1>6, Element DEF ListsOK, Sorted, RunEdit
  <2>3. CASE RunTool(approved[step])
    BY <1>6, <2>2, <2>3 DEF RunTool, RunEdit, Statuses
  <2>4. QED
    BY <1>6, <2>1, <2>3 DEF RunEdit
<1>7. QED
  BY <1>1, <1>2, <1>3, <1>4, <1>5, <1>6
     DEF Next, Agent, User, Call, StopValidating, AnswerDirectly, CollectDelegate,
         EndDelegating, EndReading, FoldRead, EndFold, Walk, EndWalk, Commit, Interrupt, Toggle,
         Decide, Show, EndLeftOver

LEMMA ResultsStep ==
    PlaceOK /\ ListsOK /\ WorkOK /\ ResultsOK /\ Sorted /\ Next => ResultsOK'
<1> SUFFICES ASSUME PlaceOK, ListsOK, WorkOK, ResultsOK, Sorted, Next PROVE ResultsOK'
  OBVIOUS
<1>0. Index' = Index
  BY Steady, SameIndex
<1> USE <1>0 DEF ResultsOK, Statuses
<1>1. CASE UNCHANGED <<results, events>>
  BY <1>1
<1>2. ASSUME NEW i \in Index, StopValidating(i) \/ AnswerDirectly(i) \/ StartInline(i)
                              \/ Judge(i) \/ EndInline(i) \/ StartRead(i)
      PROVE  ResultsOK'
  <2>1. Reported(i) \in Statuses \cup {"denied", "none"}
    BY DEF WorkOK, Reported
  <2>2. ASSUME NEW status \in Statuses \cup {"denied", "none"}, Settled(i, status),
               UNCHANGED started
        PROVE  ResultsOK'
    BY <2>2 DEF Settled
  <2>3. CASE StopValidating(i) \/ AnswerDirectly(i) \/ Judge(i)
    BY <2>2, <2>3 DEF StopValidating, AnswerDirectly, Judge
  <2>4. CASE EndInline(i)
    BY <2>1, <2>2, <2>4 DEF EndInline
  <2>5. CASE StartInline(i)
    BY <2>5 DEF StartInline
  <2>6. CASE StartRead(i)
    BY <2>6 DEF StartRead, RunTool
  <2>7. QED
    BY <1>2, <2>3, <2>4, <2>5, <2>6
<1>3. ASSUME NEW i \in Index, NEW said \in Answers, Conclude(i, said)
      PROVE  ResultsOK'
  <2>1. CASE UNCHANGED <<results, completed>>
    BY <1>3, <2>1 DEF Conclude
  <2>2. ASSUME NEW status \in {"cancelled", "denied"}, Settled(i, status), UNCHANGED started
        PROVE  ResultsOK'
    BY <2>2 DEF Settled
  <2>3. QED
    BY <1>3, <2>1, <2>2 DEF Conclude
<1>4. ASSUME NEW i \in Index, NEW status \in Statuses, EndTool(i, status)
      PROVE  ResultsOK'
  BY <1>4 DEF EndTool
<1>5. CASE Dispatch \/ Flush
  <2>1. CASE Dispatch
    BY <2>1 DEF Dispatch, Once
  <2>2. CASE Flush
    <3>1. /\ UNCHANGED started
          /\ \/ UNCHANGED <<results, completed>>
             \/ /\ results' = [i \in Index |-> IF i \in Batch THEN "cancelled" ELSE results[i]]
                /\ completed' = Once(completed, Batch)
      BY <2>2 DEF Flush
    <3>2. QED
      BY <3>1 DEF Once
  <2>3. QED
    BY <1>5, <2>1, <2>2
<1>6. CASE EndDelegating
  <2>1. \A i \in Index : Reported(i) \in Statuses \cup {"denied", "none"}
    BY DEF WorkOK, Reported
  <2>2. QED
    BY <1>6, <2>1 DEF EndDelegating, Once
<1>7. ASSUME NEW k \in DOMAIN approved
      PROVE  approved[k] \in Index /\ outcome[approved[k]] \in Statuses \cup {"none"}
  <2>1. approved[k] \in Index /\ KindOf(approved[k]) \in {"read", "edit"}
    BY Element DEF ListsOK, Sorted
  <2>2. QED
    BY <2>1 DEF Sorted, WorkOK, Inline, Delegate
<1>8. CASE FoldRead
  <2>1. 1 \in DOMAIN batch /\ batch[1] = Head(batch)
    BY <1>8 DEF FoldRead, ListsOK
  <2>2. Head(batch) \in Index /\ outcome[Head(batch)] \in Statuses \cup {"none"}
    BY <1>7, <2>1 DEF Sorted, Approved
  <2>3. QED
    BY <1>8, <2>2 DEF FoldRead, Announced
<1>9. CASE Walk \/ RunEdit
  <2>1. step \in DOMAIN approved
    BY <1>9 DEF Walk, RunEdit, Sorted
  <2>2. approved[step] \in Index /\ outcome[approved[step]] \in Statuses \cup {"none"}
    BY <1>7, <2>1
  <2>3. CASE Walk
    BY <2>2, <2>3 DEF Walk, Settled
  <2>4. CASE RunEdit
    BY <2>2, <2>4 DEF RunEdit, RunTool
  <2>5. QED
    BY <1>9, <2>3, <2>4
<1>10. QED
  BY <1>1, <1>2, <1>3, <1>4, <1>5, <1>6, <1>8, <1>9
     DEF Next, Agent, User, Call, CollectDelegate, StartSubagent, RequestEdit, EndEdit, NextHop,
         HearAnswer, EndSubagent, EndReading, EndFold, EndWalk, Commit, Interrupt, Toggle,
         Decide, Show, EndLeftOver

LEMMA PromptsStep == PlaceOK /\ PromptsOK /\ Next => PromptsOK'
<1> SUFFICES ASSUME PlaceOK, PromptsOK, Next PROVE PromptsOK'
  OBVIOUS
<1>0. Index' = Index
  BY Steady, SameIndex
<1> USE <1>0 DEF PromptsOK
<1>1. CASE UNCHANGED <<prompts, rules>>
  BY <1>1
<1>2. ASSUME NEW i \in Index, Judge(i) \/ RequestEdit(i)
      PROVE  PromptsOK'
  BY <1>2 DEF Judge, RequestEdit, Ask
<1>3. ASSUME NEW i \in Index, NEW said \in Answers, Conclude(i, said) \/ HearAnswer(i, said)
      PROVE  PromptsOK'
  <2>0. /\ UNCHANGED slot /\ inbox' \subseteq Index
        /\ answer' \in [Index -> [action : Answers \cup {"none"}, lasting : BOOLEAN]]
    <3>1. CASE Conclude(i, said)
      BY <3>1 DEF Conclude
    <3>2. CASE HearAnswer(i, said)
      BY <3>2 DEF HearAnswer, NoAnswer
    <3>3. QED
      BY <1>3, <3>1, <3>2
  <2>1. CASE UNCHANGED rules
    BY <2>0, <2>1
  <2>2. CASE Installed(i) /\ said \notin {"cancel", "lost"}
    <3>1. said = answer[i].action /\ said \in Decisions /\ calls[i].target \in Target
      BY <1>3, <2>2, Calls DEF Conclude, HearAnswer, Heard, Answers
    <3>2. rules' \in [Target -> Decisions \cup {"none"}]
      BY <2>2, <3>1 DEF Installed
    <3>3. QED
      BY <2>0, <3>2
  <2>3. QED
    BY <1>3, <2>1, <2>2 DEF Conclude, HearAnswer
<1>4. ASSUME NEW i \in Index, Show(i)
      PROVE  PromptsOK'
  BY <1>4 DEF Show, Answers
<1>5. ASSUME NEW action \in Decisions, NEW lasting \in BOOLEAN, Decide(action, lasting)
      PROVE  PromptsOK'
  BY <1>5 DEF Decide, Answers
<1>6. CASE Interrupt
  BY <1>6 DEF Interrupt, Answers
<1>7. QED
  BY <1>1, <1>2, <1>3, <1>4, <1>5, <1>6
     DEF Next, Agent, User, Call, StopValidating, AnswerDirectly, CollectDelegate, StartInline,
         StartSubagent, EndEdit, NextHop, EndInline, StartRead, EndSubagent, EndTool, Dispatch,
         EndDelegating, EndReading, FoldRead, EndFold, Walk, EndWalk, Flush, RunEdit, Commit,
         Toggle, EndLeftOver

LEMMA CountsStep == PlaceOK /\ CountsOK /\ Next => CountsOK'
<1> SUFFICES ASSUME PlaceOK, CountsOK, Next PROVE CountsOK'
  OBVIOUS
<1>0. Index' = Index
  BY Steady, SameIndex
<1> USE <1>0 DEF CountsOK
<1>1. CASE UNCHANGED <<mode, configMode, registry, cancelled, broker>>
  BY <1>1
<1>2. ASSUME NEW i \in Index, Judge(i) \/ StartSubagent(i)
      PROVE  CountsOK'
  BY <1>2 DEF Judge, StartSubagent
<1>3. ASSUME NEW i \in Index, NEW status \in Statuses, EndSubagent(i, status)
      PROVE  CountsOK'
  BY <1>3 DEF EndSubagent
<1>4. CASE FoldRead
  BY <1>4, ToolRoundAssumption DEF FoldRead, Cost
<1>5. CASE Interrupt \/ Toggle
  BY <1>5 DEF Interrupt, Toggle
<1>6. CASE EndLeftOver
  <2>1. left' \in Nat
    BY <1>6 DEF EndLeftOver, Released
  <2>2. QED
    BY <1>6, <2>1 DEF EndLeftOver
<1>7. QED
  BY <1>1, <1>2, <1>3, <1>4, <1>5, <1>6, ZenonT(60)
     DEF Next, Agent, User, Call, StopValidating, AnswerDirectly, CollectDelegate, StartInline,
         RequestEdit, EndEdit, NextHop, EndInline, StartRead, Conclude, HearAnswer, EndTool,
         Dispatch, EndDelegating, EndReading, EndFold, Walk, EndWalk, Flush, RunEdit, Commit,
         Decide, Show

-----------------------------------------------------------------------------
(* What validation has sorted stays sorted. *)
SortedLists ==
    /\ \A i \in delegated : Delegate(i)
    /\ \A k \in DOMAIN approved : KindOf(approved[k]) \in {"read", "edit"}
    /\ \A k \in DOMAIN batch : batch[k] \in Approved /\ KindOf(batch[k]) = "read"

LEMMA Appended ==
    ASSUME NEW S, NEW s \in Seq(S), NEW e \in S
    PROVE  /\ DOMAIN Append(s, e) = 1..Len(s) + 1
           /\ Append(s, e)[Len(s) + 1] = e
           /\ \A k \in DOMAIN s : Append(s, e)[k] = s[k]
           /\ Len(Append(s, e)) = Len(s) + 1
OBVIOUS

LEMMA Rest ==
    ASSUME NEW S, NEW s \in Seq(S), s # <<>>
    PROVE  /\ Len(Tail(s)) = Len(s) - 1
           /\ \A k \in DOMAIN Tail(s) : k + 1 \in DOMAIN s /\ Tail(s)[k] = s[k + 1]
OBVIOUS

LEMMA ListsSorted == TypeOK /\ Sorted /\ Next => SortedLists'
<1> SUFFICES ASSUME TypeOK, Sorted, Next PROVE SortedLists'
  OBVIOUS
<1>0. Index' = Index /\ (\A i : KindOf(i)' = KindOf(i)) /\ ListsOK /\ PlaceOK
  BY Steady, SameIndex, Groups
<1>1. CASE UNCHANGED collected
  BY <1>0, <1>1 DEF Sorted, SortedLists, Approved, Delegate
<1>2. ASSUME NEW i \in Index, CollectDelegate(i)
      PROVE  SortedLists'
  BY <1>0, <1>2 DEF Sorted, SortedLists, Approved, Delegate, CollectDelegate
<1>3. ASSUME NEW i \in Index, KindOf(i) \in {"read", "edit"}, approved' = Append(approved, i),
             at = "validate", UNCHANGED <<delegated, batch>>
      PROVE  SortedLists'
  <2>1. batch = <<>>
    BY <1>3 DEF Sorted
  <2>2. \A k \in DOMAIN approved' : KindOf(approved'[k]) \in {"read", "edit"}
    BY <1>0, <1>3, Appended DEF Sorted, ListsOK
  <2>3. QED
    BY <1>0, <1>3, <2>1, <2>2 DEF Sorted, SortedLists, Delegate
<1>4. ASSUME NEW i \in Index, Judge(i)
      PROVE  SortedLists'
  BY <1>1, <1>3, <1>4 DEF Judge, Validating
<1>5. ASSUME NEW i \in Index, NEW said \in Answers, Conclude(i, said)
      PROVE  SortedLists'
  <2>1. KindOf(i) \in {"read", "edit"} /\ at = "validate" /\ UNCHANGED <<delegated, batch>>
    BY <1>5 DEF Conclude, Heard, Sorted
  <2>2. UNCHANGED approved \/ approved' = Append(approved, i)
    BY <1>5 DEF Conclude
  <2>3. QED
    BY <1>1, <1>3, <2>1, <2>2
<1>6. CASE Dispatch
  BY <1>0, <1>6 DEF Sorted, SortedLists, Approved, Delegate, Dispatch, OnlyReads
<1>7. CASE FoldRead
  <2>1. UNCHANGED <<delegated, approved>> /\ batch' = Tail(batch) /\ batch # <<>>
    BY <1>7 DEF FoldRead
  <2>2. \A k \in DOMAIN batch' : batch'[k] \in Approved /\ KindOf(batch'[k]) = "read"
    BY <1>0, <2>1, Rest DEF Sorted, ListsOK
  <2>3. QED
    BY <1>0, <2>1, <2>2 DEF Sorted, SortedLists, Approved, Delegate
<1>8. CASE Walk
  <2>1. UNCHANGED <<delegated, approved>> /\ step \in DOMAIN approved
    BY <1>8 DEF Walk
  <2>2. CASE batch' = Append(batch, approved[step]) /\ KindOf(approved[step]) = "read"
    <3>1. approved[step] \in Index /\ approved[step] \in Approved
      BY <1>0, <2>1, Element DEF ListsOK, Approved
    <3>2. \A k \in DOMAIN batch' : batch'[k] \in Approved /\ KindOf(batch'[k]) = "read"
      BY <1>0, <2>2, <3>1, Appended DEF Sorted, ListsOK
    <3>3. QED
      BY <1>0, <2>1, <3>2 DEF Sorted, SortedLists, Approved, Delegate
  <2>3. QED
    BY <1>1, <1>8, <2>2 DEF Walk
<1>9. CASE Flush
  <2>1. UNCHANGED <<delegated, approved>> /\ (batch' = <<>> \/ UNCHANGED batch)
    BY <1>9 DEF Flush
  <2>2. QED
    BY <1>0, <1>1, <2>1 DEF Sorted, SortedLists, Delegate
<1>10. QED
  BY <1>1, <1>2, <1>4, <1>5, <1>6, <1>7, <1>8, <1>9, ZenonT(60)
     DEF Next, Agent, User, Call, StopValidating, AnswerDirectly, StartInline, StartSubagent,
         RequestEdit, EndEdit, NextHop, EndInline, StartRead, HearAnswer, EndSubagent, EndTool,
         EndDelegating, EndReading, EndFold, EndWalk, RunEdit, Commit, Interrupt, Toggle, Decide,
         Show, EndLeftOver

Reach ==
    /\ Len(approved) <= Len(calls)
    /\ at \in {"validate", "inline"} => Len(approved) < step /\ batch = <<>>
    /\ at = "inline" => step \in Index /\ Inline(step)
    /\ at = "edit" => step \in DOMAIN approved /\ batch = <<>>

LEMMA ReachNext == TypeOK /\ Sorted /\ Next => Reach'
<1> SUFFICES ASSUME TypeOK, Sorted, Next PROVE Reach'
  OBVIOUS
<1>0. /\ calls' = calls /\ Index' = Index /\ (\A i : KindOf(i)' = KindOf(i))
      /\ ListsOK /\ PlaceOK /\ Len(calls) \in Nat /\ Index = 1..Len(calls)
      /\ Len(approved) \in Nat /\ DOMAIN approved = 1..Len(approved)
      /\ step \in 1..Len(calls) + 1
  <2>1. ListsOK /\ PlaceOK
    BY Groups
  <2>2. Len(approved) \in Nat /\ DOMAIN approved = 1..Len(approved)
    BY <2>1 DEF ListsOK
  <2>3. step \in 1..Len(calls) + 1
    BY <2>1 DEF PlaceOK
  <2>4. QED
    BY <2>1, <2>2, <2>3, Steady, SameIndex, Calls
<1>1. CASE UNCHANGED <<at, step, approved, batch>>
  BY <1>0, <1>1 DEF Sorted, Reach, Inline
<1>2. ASSUME NEW i \in Index, StopValidating(i) \/ AnswerDirectly(i) \/ CollectDelegate(i)
                              \/ StartInline(i) \/ EndInline(i)
      PROVE  Reach'
  BY <1>0, <1>2 DEF Sorted, Reach, Inline, StopValidating, AnswerDirectly, CollectDelegate,
                    StartInline, EndInline, Validating
<1>3. ASSUME NEW i \in Index, at = "validate", step = i, UNCHANGED batch,
             \/ UNCHANGED approved /\ step' \in {step, step + 1} /\ at' \in {at, "done"}
             \/ approved' = Append(approved, i) /\ step' = step + 1 /\ UNCHANGED at
      PROVE  Reach'
  <2>1. UNCHANGED approved \/ Len(approved') = Len(approved) + 1
    BY <1>0, <1>3, Appended DEF ListsOK
  <2>2. QED
    BY <1>0, <1>3, <2>1 DEF Sorted, Reach
<1>4. ASSUME NEW i \in Index, Judge(i)
      PROVE  Reach'
  BY <1>3, <1>4 DEF Judge, Validating
<1>5. ASSUME NEW i \in Index, NEW said \in Answers, Conclude(i, said)
      PROVE  Reach'
  BY <1>3, <1>5 DEF Conclude
<1>6. CASE Dispatch \/ EndDelegating \/ EndReading \/ Walk \/ EndWalk \/ FoldRead \/ Commit
  BY <1>0, <1>6 DEF Sorted, Reach, Dispatch, EndDelegating, EndReading, Walk, EndWalk, FoldRead,
                    Commit
<1>7. CASE EndFold \/ Flush
  <2>1. /\ UNCHANGED <<step, approved>>
        /\ at' = "edit" => batch' = <<>> /\ step <= Len(approved)
        /\ at' \in {"done", "edit", "reading"}
    BY <1>0, <1>7 DEF EndFold, Flush, AfterFlush
  <2>2. QED
    BY <1>0, <2>1 DEF Sorted, Reach
<1>8. CASE RunEdit
  BY <1>0, <1>8 DEF Sorted, Reach, RunEdit
<1>9. QED
  BY <1>1, <1>2, <1>4, <1>5, <1>6, <1>7, <1>8
     DEF Next, Agent, User, Call, StartSubagent, RequestEdit, EndEdit, NextHop, StartRead,
         HearAnswer, EndSubagent, EndTool, Interrupt, Toggle, Decide, Show, EndLeftOver

Untouched ==
    /\ \A i \in Index : outcome[i] = "capped" \/ i \in leases => Inline(i) \/ Delegate(i)
    /\ \A i \in Index : at \in {"validate", "inline"} /\ i > step => unit[i] = "none"
    /\ \A i \in Index : at = "validate" /\ i = step =>
           unit[i] = "none" \/ (unit[i] = "asking" /\ KindOf(i) \in {"read", "edit"})

LEMMA UntouchedNext == TypeOK /\ Sorted /\ Next => Untouched'
<1> SUFFICES ASSUME TypeOK, Sorted, Next PROVE Untouched'
  OBVIOUS
<1>0. /\ Index' = Index /\ (\A i : KindOf(i)' = KindOf(i)) /\ WorkOK
      /\ Index \subseteq Nat /\ step \in Nat
  <2>1. PlaceOK /\ WorkOK
    BY Groups
  <2>2. QED
    BY <2>1, Steady, SameIndex, Calls DEF PlaceOK
<1> USE <1>0 DEF Sorted, Untouched, Inline, Delegate, WorkOK
<1>1. CASE UNCHANGED <<place, unit, outcome, leases>>
  BY <1>1
<1>2. ASSUME NEW i \in Index, StopValidating(i) \/ AnswerDirectly(i) \/ CollectDelegate(i)
                              \/ StartInline(i) \/ EndInline(i)
      PROVE  Untouched'
  BY <1>2 DEF StopValidating, AnswerDirectly, CollectDelegate, StartInline, EndInline, Validating
<1>3. ASSUME NEW i \in Index, Judge(i)
      PROVE  Untouched'
  BY <1>3 DEF Judge, Validating, Ask
<1>4. ASSUME NEW i \in Index, NEW said \in Answers, Conclude(i, said)
      PROVE  Untouched'
  BY <1>4 DEF Conclude
<1>5. ASSUME NEW i \in Index, StartSubagent(i)
      PROVE  Untouched'
  BY <1>5 DEF StartSubagent, MayRun
<1>6. ASSUME NEW i \in Index, RequestEdit(i) \/ EndEdit(i) \/ NextHop(i)
      PROVE  Untouched'
  BY <1>6 DEF RequestEdit, EndEdit, NextHop, Ask
<1>7. ASSUME NEW i \in Index, NEW said \in Answers, HearAnswer(i, said)
      PROVE  Untouched'
  BY <1>7 DEF HearAnswer, Heard
<1>8. ASSUME NEW i \in Index, NEW status \in Statuses, EndSubagent(i, status) \/ EndTool(i, status)
      PROVE  Untouched'
  BY <1>8 DEF EndSubagent, EndTool, Statuses
<1>9. ASSUME NEW i \in Index, StartRead(i)
      PROVE  Untouched'
  BY <1>9 DEF StartRead, RunTool
<1>10. CASE Dispatch \/ EndDelegating \/ EndReading \/ EndFold \/ Walk \/ EndWalk \/ Commit
  BY <1>10 DEF Dispatch, EndDelegating, EndReading, EndFold, Walk, EndWalk, Commit, AfterFlush
<1>11. CASE Flush \/ RunEdit
  BY <1>11 DEF Flush, RunEdit, RunTool, AfterFlush
<1>12. QED
  BY <1>1, <1>2, <1>3, <1>4, <1>5, <1>6, <1>7, <1>8, <1>9, <1>10, <1>11
     DEF Next, Agent, User, Call, FoldRead, Interrupt, Toggle, Decide, Show, EndLeftOver

LEMMA TInvInit == Init => TInv
<1> SUFFICES ASSUME Init PROVE TInv
  OBVIOUS
<1>1. TypeOK
  BY TypeInit
<1>2. Len(calls) \in Nat /\ DOMAIN approved = {} /\ DOMAIN batch = {} /\ Len(approved) = 0
  BY <1>1, Groups, Calls DEF Init
<1>3. Sorted
  BY <1>1, <1>2 DEF Init, Sorted
<1>4. QED
  BY <1>1, <1>3 DEF TInv

LEMMA TInvNext == TInv /\ [Next]_vars => TInv'
<1> SUFFICES ASSUME TInv, [Next]_vars PROVE TInv'
  OBVIOUS
<1>1. CASE Next
  <2>1. PlaceOK' /\ ListsOK' /\ WorkOK' /\ ResultsOK' /\ PromptsOK' /\ CountsOK'
    BY <1>1, Groups, PlaceStep, ListsStep, WorkStep, ResultsStep, PromptsStep, CountsStep DEF TInv
  <2>2. SortedLists' /\ Reach' /\ Untouched'
    BY <1>1, ListsSorted, ReachNext, UntouchedNext DEF TInv
  <2>3. Sorted'
    BY <2>2 DEF SortedLists, Reach, Untouched, Sorted
  <2>4. QED
    BY <2>1, <2>3, GroupsNext DEF TInv
<1>2. CASE UNCHANGED vars
  <2>1. Sorted'
    BY <1>2 DEF TInv, vars, Sorted, Approved, Index, KindOf, Delegate, Inline
  <2>2. TypeOK'
    BY <1>2 DEF TInv, vars, TypeOK, Index
  <2>3. QED
    BY <2>1, <2>2 DEF TInv
<1>3. QED
  BY <1>1, <1>2

\* Every variable of a round keeps its type, for every round of calls and all limits: in
\* particular no result is ever missing from the values the model is sent.
THEOREM TypeCorrect == Spec => []TypeOK
<1>1. TInv => TypeOK
  BY DEF TInv
<1>2. QED
  BY <1>1, TInvInit, TInvNext, PTL DEF Spec

\* The turn is never billed more than one read past the byte limit, whatever it used before
\* and however many reads run side by side: each of them is billed in turn, against the sum
\* the ones before it left (fold_parallel_read_completions).
THEOREM BudgetKept == Spec => []BudgetHolds
<1>1. Init => BudgetHolds
  <2> SUFFICES ASSUME Init PROVE BudgetHolds
    OBVIOUS
  <2>1. PICK p \in Prior : billed = p[2]
    BY DEF Init
  <2>2. p[2] \in 0..MaxBytesRead + ReadBytes - 1
    BY ToolRoundAssumption
  <2>3. QED
    BY <2>1, <2>2, ToolRoundAssumption DEF BudgetHolds
<1>2. TInv /\ BudgetHolds /\ [Next]_vars => BudgetHolds'
  <2> SUFFICES ASSUME TInv, BudgetHolds, [Next]_vars PROVE BudgetHolds'
    OBVIOUS
  <2>1. CASE UNCHANGED billed
    BY <2>1 DEF BudgetHolds
  <2>2. CASE FoldRead
    <3>1. billed' = billed + Cost(Head(batch))
      BY <2>2 DEF FoldRead
    <3>2. Cost(Head(batch)) = 0 \/ (Cost(Head(batch)) = ReadBytes /\ ~(billed >= MaxBytesRead))
      BY DEF Cost, OverBudget
    <3>3. billed \in Nat /\ MaxBytesRead \in Nat /\ ReadBytes \in Nat
      BY ToolRoundAssumption DEF TInv, TypeOK
    <3>4. QED
      BY <3>1, <3>2, <3>3 DEF BudgetHolds
  <2>3. ASSUME NEW i \in Index, Call(i) PROVE UNCHANGED billed
    BY ONLY <2>3
       DEF Call, StopValidating, AnswerDirectly, CollectDelegate, StartInline, Judge,
           StartSubagent, RequestEdit, EndEdit, NextHop, EndInline, StartRead, Conclude,
           HearAnswer, EndSubagent, EndTool, broker
  <2>4. CASE Agent
    BY ONLY <2>1, <2>2, <2>3, <2>4
       DEF Agent, Dispatch, EndDelegating, EndReading, EndFold, Walk, EndWalk, Flush, RunEdit,
           Commit, broker
  <2>5. ASSUME \/ User \/ EndLeftOver \/ (\E i \in Index : Show(i)) \/ UNCHANGED vars
        PROVE  UNCHANGED billed
    BY ONLY <2>5 DEF User, Interrupt, Toggle, Decide, Show, EndLeftOver, broker, vars
  <2>6. QED
    BY <2>1, <2>4, <2>5 DEF Next
<1>3. QED
  BY <1>1, <1>2, TInvInit, TInvNext, PTL DEF Spec

-----------------------------------------------------------------------------
(* The registry. *)

\* What the running subagents hold, and who waits
Holding ==
    /\ \A i \in leases :
           /\ unit[i] \in {"running", "asking", "editing"}
           /\ \/ i \in delegated /\ at \in {"joined", "delegating"}
              \/ Inline(i) /\ at = "inline" /\ step = i
    /\ \A i \in Index : unit[i] = "editing" => i \in leases

Waiting ==
    \A i \in Index : unit[i] = "queued" =>
        \/ i \in delegated /\ at \in {"joined", "delegating"}
        \/ i \in Approved /\ at = "joined"
        \/ i \in Batch /\ at = "reading"

LEMMA LeasedParts == Leased <=> Holding /\ Waiting
BY DEF Leased, Holding, Waiting

LEMMA HoldingNext == TInv /\ Holding /\ Waiting /\ Next => Holding'
<1> SUFFICES ASSUME TInv, Holding, Waiting, Next PROVE Holding'
  OBVIOUS
<1>0. /\ Index' = Index /\ (\A i : KindOf(i)' = KindOf(i)) /\ WorkOK
      /\ Index \subseteq Nat /\ step \in Nat /\ delegated \subseteq Index
      /\ \A k \in DOMAIN approved : approved[k] \in Index
  <2>1. PlaceOK /\ WorkOK /\ ListsOK
    BY Groups DEF TInv
  <2>2. QED
    BY <2>1, Steady, SameIndex, Calls, Element DEF PlaceOK, ListsOK
<1> USE <1>0 DEF Holding, Inline, Delegate, WorkOK
<1>1. CASE UNCHANGED <<place, delegated, unit, leases>>
  BY <1>1
<1>2. ASSUME NEW i \in Index, StopValidating(i) \/ AnswerDirectly(i) \/ CollectDelegate(i)
                              \/ StartInline(i) \/ Judge(i)
      PROVE  Holding'
  BY <1>2 DEF StopValidating, AnswerDirectly, CollectDelegate, StartInline, Judge, Validating, Ask
<1>3. ASSUME NEW i \in Index, NEW said \in Answers, Conclude(i, said)
      PROVE  Holding'
  BY <1>3 DEF Conclude
<1>4. ASSUME NEW i \in Index, StartSubagent(i)
      PROVE  Holding'
  <2>0. KindOf(i) \notin {"read", "edit"}
    <3>1. Inline(i) \/ Delegate(i)
      BY ONLY <1>4, TInv DEF TInv, Sorted, StartSubagent
    <3>2. QED
      BY ONLY <3>1 DEF Inline, Delegate
  <2>1. ~(i \in Approved) /\ ~(i \in Batch)
    BY ONLY <2>0, TInv DEF TInv, Sorted, Approved, Batch
  <2>2. \/ i \in delegated /\ at \in {"joined", "delegating"}
        \/ Inline(i) /\ at = "inline" /\ step = i
    BY <1>4, <2>1 DEF StartSubagent, MayRun, Waiting, TInv, Sorted
  <2>3. unit[i] \in {"queued", "none"} /\ UNCHANGED <<place, delegated>>
    BY <1>4 DEF StartSubagent, MayRun
  <2>4. \/ unit' = [unit EXCEPT ![i] = "running"] /\ leases' = leases \cup {i}
        \/ unit' = [unit EXCEPT ![i] = "ended"] /\ UNCHANGED leases
    BY <1>4 DEF StartSubagent
  <2>5. QED
    BY <2>2, <2>3, <2>4
<1>5. ASSUME NEW i \in Index, RequestEdit(i) \/ EndEdit(i)
      PROVE  Holding'
  <2>1. UNCHANGED <<at, step, delegated, leases, KindOf(i)>>
    BY <1>5 DEF RequestEdit, EndEdit, place, collected, registry
  <2>2. \/ /\ i \in leases
           /\ \/ unit' = unit
              \/ unit' = [unit EXCEPT ![i] = "asking"]
              \/ unit' = [unit EXCEPT ![i] = "editing"]
        \/ unit[i] = "editing" /\ unit' = [unit EXCEPT ![i] = "running"]
    BY ONLY <1>5 DEF RequestEdit, EndEdit, Ask
  <2>3. ASSUME NEW j \in Index
        PROVE  /\ unit'[j] = unit[j] \/ (j = i /\ i \in leases)
               /\ unit'[i] \in {unit[i], "running", "asking", "editing"}
    BY <2>2
  <2>4. QED
    BY <2>1, <2>2, <2>3
<1>6. ASSUME NEW i \in Index, NextHop(i) \/ EndInline(i)
      PROVE  Holding'
  BY <1>6 DEF NextHop, EndInline
<1>7. ASSUME NEW i \in Index, NEW said \in Answers, HearAnswer(i, said)
      PROVE  Holding'
  BY <1>7 DEF HearAnswer
<1>8. ASSUME NEW i \in Index, NEW status \in Statuses, EndSubagent(i, status)
      PROVE  Holding'
  BY <1>8 DEF EndSubagent
<1>9. ASSUME NEW i \in Index, NEW status \in Statuses, EndTool(i, status)
      PROVE  Holding'
  BY <1>9 DEF EndTool, TInv, Sorted, Approved
<1>10. ASSUME NEW i \in Index, StartRead(i)
      PROVE  Holding'
  <2>1. UNCHANGED <<place, delegated, leases>> /\ unit[i] = "queued"
    BY <1>10 DEF StartRead
  <2>2. \E u \in {"running", "ended"} : unit' = [unit EXCEPT ![i] = u]
    BY <1>10 DEF StartRead, RunTool
  <2>3. QED
    BY <2>1, <2>2
<1>11. CASE Dispatch \/ EndDelegating
  BY <1>11 DEF Dispatch, EndDelegating, Queued, AllEnded
<1>12. CASE EndReading \/ EndFold \/ Walk \/ EndWalk \/ Commit
  BY <1>12 DEF EndReading, EndFold, Walk, EndWalk, Commit, AfterFlush
<1>13. CASE Flush \/ RunEdit
  BY <1>13 DEF Flush, RunEdit, RunTool, Queued
<1>14. QED
  BY <1>1, <1>2, <1>3, <1>4, <1>5, <1>6, <1>7, <1>8, <1>9, <1>10, <1>11, <1>12, <1>13
     DEF Next, Agent, User, Call, FoldRead, Interrupt, Toggle, Decide, Show, EndLeftOver

LEMMA WaitingNext == TInv /\ Holding /\ Waiting /\ Next => Waiting'
<1> SUFFICES ASSUME TInv, Holding, Waiting, Next PROVE Waiting'
  OBVIOUS
<1>0. Index' = Index /\ WorkOK
  BY Groups, Steady, SameIndex DEF TInv
<1> USE <1>0 DEF Waiting, Approved, Batch
<1>1. CASE UNCHANGED <<at, delegated, approved, batch, unit>>
  BY <1>1
<1>2. ASSUME at \in {"validate", "inline", "serial", "flush", "folding", "edit", "done"},
             at' \notin {"joined", "delegating", "reading"},
             \A i \in Index : unit'[i] = unit[i] \/ unit'[i] # "queued"
      PROVE  Waiting'
  BY <1>2
<1>3. ASSUME NEW i \in Index, StopValidating(i) \/ AnswerDirectly(i) \/ CollectDelegate(i)
                              \/ StartInline(i) \/ Judge(i) \/ NextHop(i) \/ EndInline(i)
      PROVE  Waiting'
  BY <1>2, <1>3 DEF StopValidating, AnswerDirectly, CollectDelegate, StartInline, Judge,
                    Validating, Ask, NextHop, EndInline, WorkOK
<1>4. ASSUME NEW i \in Index, NEW said \in Answers, Conclude(i, said)
      PROVE  Waiting'
  BY <1>2, <1>4 DEF Conclude, WorkOK
<1>5. ASSUME UNCHANGED <<at, delegated, approved, batch>>,
             \A i \in Index : unit'[i] = unit[i] \/ unit'[i] # "queued"
      PROVE  Waiting'
  BY <1>5
<1>6. ASSUME NEW i \in Index, StartSubagent(i) \/ RequestEdit(i) \/ EndEdit(i)
      PROVE  Waiting'
  BY <1>5, <1>6 DEF StartSubagent, RequestEdit, EndEdit, Ask, WorkOK
<1>7. ASSUME NEW i \in Index, NEW said \in Answers, HearAnswer(i, said)
      PROVE  Waiting'
  BY <1>5, <1>7 DEF HearAnswer, WorkOK
<1>8. ASSUME NEW i \in Index, NEW status \in Statuses, EndSubagent(i, status) \/ EndTool(i, status)
      PROVE  Waiting'
  BY <1>5, <1>8 DEF EndSubagent, EndTool, WorkOK
<1>9. ASSUME NEW i \in Index, StartRead(i)
      PROVE  Waiting'
  BY <1>5, <1>9 DEF StartRead, RunTool, WorkOK
<1>10. CASE Dispatch
  <2>1. CASE UNCHANGED unit /\ at' = "serial"
    BY <1>2, <1>10, <2>1 DEF Dispatch
  <2>2. CASE at' = "joined" /\ Queued(delegated \cup Approved) /\ UNCHANGED <<delegated, approved>>
    BY <1>10, <2>2 DEF Dispatch, Queued
  <2>3. CASE at' = "delegating" /\ Queued(delegated) /\ UNCHANGED <<delegated, approved>>
    BY <1>10, <2>3 DEF Dispatch, Queued
  <2>4. QED
    BY <1>10, <2>1, <2>2, <2>3 DEF Dispatch
<1>11. CASE EndDelegating
  BY <1>11 DEF EndDelegating, AllEnded
<1>12. CASE EndReading
  BY <1>12 DEF EndReading, AllEnded
<1>13. CASE FoldRead \/ EndFold \/ Walk \/ EndWalk \/ RunEdit \/ Commit
  BY <1>2, <1>13 DEF FoldRead, EndFold, Walk, EndWalk, RunEdit, RunTool, Commit, AfterFlush, WorkOK
<1>14. CASE Flush
  <2>1. CASE UNCHANGED unit /\ at' = AfterFlush
    BY <1>2, <1>14, <2>1 DEF Flush, AfterFlush
  <2>2. CASE Queued(Batch) /\ at' = "reading" /\ UNCHANGED batch
    BY <1>14, <2>2 DEF Flush, Queued
  <2>3. QED
    BY <1>14, <2>1, <2>2 DEF Flush
<1>15. QED
  BY <1>1, <1>3, <1>4, <1>6, <1>7, <1>8, <1>9, <1>10, <1>11, <1>12, <1>13, <1>14
     DEF Next, Agent, User, Call, Interrupt, Toggle, Decide, Show, EndLeftOver

-----------------------------------------------------------------------------
(* The cap on subagents. *)

LEMMA Fewer ==
    ASSUME NEW S, NEW T, S \subseteq T, IsFiniteSet(T)
    PROVE  Cardinality(S) \in Nat /\ Cardinality(T) \in Nat /\ Cardinality(S) <= Cardinality(T)
BY FS_Subset, FS_CardinalityType

LEMMA Finite ==
    ASSUME NEW n \in Nat, NEW S, S \subseteq 1..n
    PROVE  IsFiniteSet(S)
<1>1. IsFiniteSet(1..n)
  BY FS_Interval
<1>2. QED
  BY <1>1, FS_Subset

\* A delegate that may run finds room: the leases are those of the delegates that run.
LEMMA Room ==
    ASSUME TypeOK, Sorted, Holding, Waiting, NEW i \in Index, MayRun(i)
    PROVE  Active < MaxConcurrent
<1>0. MaxConcurrent \in Nat \ {0} /\ Index = 1..Len(calls) /\ Len(calls) \in Nat
  BY ToolRoundAssumption, Groups, Calls
<1>1. CASE cancelled
  BY <1>0, <1>1 DEF Active
<1>2. CASE ~cancelled /\ unit[i] = "queued"
           /\ Cardinality({j \in delegated : unit[j] \in Busy \ {"queued"}}) < MaxConcurrent
  <2> DEFINE Running == {j \in delegated : unit[j] \in Busy \ {"queued"}}
  <2>1. IsFiniteSet(Running)
    <3>1. Running \subseteq 1..Len(calls)
      BY <1>0 DEF TypeOK
    <3>2. QED
      BY <1>0, <3>1, Finite
  <2>2. leases \subseteq Running
    BY <1>2 DEF Holding, Waiting, Busy
  <2>3. QED
    BY <1>0, <1>2, <2>1, <2>2, Fewer DEF Active
<1>3. CASE ~cancelled /\ at = "inline" /\ step = i /\ unit[i] = "none"
  <2>1. leases = {}
    BY <1>3 DEF Holding
  <2>2. QED
    BY <1>0, <1>3, <2>1, FS_EmptySet DEF Active
<1>4. QED
  BY <1>1, <1>2, <1>3 DEF MayRun

LEMMA LInvInit == Init => LInv
<1> SUFFICES ASSUME Init PROVE LInv
  OBVIOUS
<1>1. TInv
  BY TInvInit
<1>2. Leased
  BY DEF Init, Leased
<1>3. QED
  BY <1>1, <1>2 DEF LInv

LEMMA LInvNext == LInv /\ [Next]_vars => LInv'
<1> SUFFICES ASSUME LInv, [Next]_vars PROVE LInv'
  OBVIOUS
<1>1. CASE Next
  <2>1. TInv' /\ Holding' /\ Waiting'
    BY <1>1, TInvNext, HoldingNext, WaitingNext, LeasedParts DEF LInv
  <2>2. QED
    BY <2>1 DEF LInv, Leased, Holding, Waiting
<1>2. CASE UNCHANGED vars
  <2>1. Leased'
    BY <1>2 DEF LInv, vars, Leased, Approved, Batch, Index, KindOf, Inline
  <2>2. QED
    BY <1>2, <2>1, TInvNext DEF LInv
<1>3. QED
  BY <1>1, <1>2

LEMMA RefusedNext == LInv /\ NeverRefused /\ [Next]_vars => NeverRefused'
<1> SUFFICES ASSUME LInv, NeverRefused, [Next]_vars PROVE NeverRefused'
  OBVIOUS
<1>0. TypeOK /\ Sorted /\ Holding /\ Waiting /\ WorkOK
  BY LeasedParts, Groups DEF LInv, TInv
<1>1. CASE UNCHANGED <<calls, outcome>>
  BY <1>1 DEF NeverRefused, Index
<1>2. Next => Index' = Index
  BY Steady, SameIndex
<1> USE <1>2 DEF NeverRefused, WorkOK, Statuses
<1>3. ASSUME NEW i \in Index, StartSubagent(i)
      PROVE  UNCHANGED <<calls, outcome>>
  <2>1. Active < MaxConcurrent
    BY <1>0, <1>3, Room DEF StartSubagent
  <2>2. QED
    BY <1>3, <2>1 DEF StartSubagent
<1>4. ASSUME NEW i \in Index, StartRead(i), Next
      PROVE  NeverRefused'
  BY <1>0, <1>4 DEF StartRead, RunTool
<1>5. ASSUME NEW i \in Index, NEW status \in Statuses, EndSubagent(i, status) \/ EndTool(i, status),
             Next
      PROVE  NeverRefused'
  BY <1>0, <1>5 DEF EndSubagent, EndTool
<1>6. CASE RunEdit /\ Next
  <2>1. approved[step] \in Index
    BY <1>0, <1>6, Groups, Element DEF ListsOK, Sorted, RunEdit
  <2>2. QED
    BY <1>0, <1>6, <2>1 DEF RunEdit, RunTool
<1>7. QED
  BY <1>1, <1>3, <1>4, <1>5, <1>6, ZenonT(60)
     DEF Next, Agent, User, Call, StopValidating, AnswerDirectly, CollectDelegate, StartInline,
         Judge, RequestEdit, EndEdit, NextHop, EndInline, Conclude, HearAnswer, Dispatch,
         EndDelegating, EndReading, FoldRead, EndFold, Walk, EndWalk, Flush, Commit, Interrupt,
         Toggle, Decide, Show, EndLeftOver, vars

\* However many delegates one response asks for, and whatever a superseded turn left in the
\* registry: the batch waits for room (buffer_unordered of max_concurrent), and
\* SubagentRegistry::start, which counts only leases that are not cancelled, refuses none.
THEOREM CapNeverRefuses == Spec => []NeverRefused
<1>1. Init => NeverRefused
  BY DEF Init, NeverRefused
<1>2. QED
  BY <1>1, LInvInit, LInvNext, RefusedNext, PTL DEF Spec

-----------------------------------------------------------------------------
(* Cancellation. *)

\* Once the turn is cancelled no tool begins to execute: not one that was approved before,
\* not one that was queued behind others, not one whose prompt was answered too late.
THEOREM CancelStops == Spec => CancelStopsTools
<1> DEFINE Stopped == \A i \in Index :
               cancelled /\ ~(i \in delegated \/ Inline(i)) /\ unit'[i] = "running"
                   => unit[i] = "running"
<1>1. LInv /\ [Next]_vars => [Stopped]_vars
  <2> SUFFICES ASSUME LInv, Next PROVE Stopped
    OBVIOUS
  <2>0. Index' = Index /\ WorkOK /\ Holding
    BY Steady, SameIndex, LeasedParts, Groups DEF LInv, TInv
  <2> USE <2>0 DEF WorkOK
  <2>1. CASE UNCHANGED unit
    BY <2>1
  <2>2. ASSUME NEW i \in Index, NEW u \in Busy \cup {"none", "ended"},
               unit' = [unit EXCEPT ![i] = u], u = "running" => i \in delegated \/ Inline(i)
        PROVE  Stopped
    BY <2>2
  <2>3. ASSUME NEW i \in Index, Judge(i) \/ StartSubagent(i) \/ RequestEdit(i) \/ EndEdit(i)
                                \/ NextHop(i) \/ EndInline(i)
        PROVE  Stopped
    BY <2>1, <2>2, <2>3 DEF Judge, StartSubagent, RequestEdit, EndEdit, NextHop, EndInline, Ask,
                           Busy, Holding
  <2>4. ASSUME NEW i \in Index, NEW said \in Answers, Conclude(i, said) \/ HearAnswer(i, said)
        PROVE  Stopped
    BY <2>4 DEF Conclude, HearAnswer, Holding
  <2>5. ASSUME NEW i \in Index, NEW status \in Statuses,
               EndSubagent(i, status) \/ EndTool(i, status)
        PROVE  Stopped
    BY <2>5 DEF EndSubagent, EndTool
  <2>6. ASSUME NEW i \in Index, RunTool(i)
        PROVE  Stopped
    BY <2>6 DEF RunTool
  <2>7. ASSUME NEW i \in Index, StartRead(i)
        PROVE  Stopped
    BY <2>6, <2>7 DEF StartRead
  <2>8. CASE RunEdit
    <3>1. approved[step] \in Index
      BY <2>8, Groups, Element DEF LInv, TInv, ListsOK, Sorted, RunEdit
    <3>2. QED
      BY <2>1, <2>6, <2>8, <3>1 DEF RunEdit
  <2>9. CASE Dispatch \/ Flush
    BY <2>1, <2>9 DEF Dispatch, Flush, Queued
  <2>10. QED
    BY <2>1, <2>3, <2>4, <2>5, <2>7, <2>8, <2>9
       DEF Next, Agent, User, Call, StopValidating, AnswerDirectly, CollectDelegate, StartInline,
           EndDelegating, EndReading, FoldRead, EndFold, Walk, EndWalk, Commit, Interrupt,
           Toggle, Decide, Show, EndLeftOver
<1>2. QED
  BY <1>1, LInvInit, LInvNext, PTL DEF Spec, CancelStopsTools

-----------------------------------------------------------------------------
(* A result for every call. *)

LEMMA KnownNext == TInv /\ Known /\ Next => Known'
<1> SUFFICES ASSUME TInv, Known, Next PROVE Known'
  OBVIOUS
<1>0. Index' = Index /\ (\A i : KindOf(i)' = KindOf(i)) /\ WorkOK
  BY Steady, SameIndex, Groups DEF TInv
<1> USE <1>0 DEF Known, WorkOK, Inline
<1>1. CASE UNCHANGED <<place, unit, outcome>>
  BY <1>1
<1>2. ASSUME NEW i \in Index, StopValidating(i) \/ AnswerDirectly(i) \/ CollectDelegate(i)
                              \/ StartInline(i) \/ Judge(i)
      PROVE  Known'
  BY <1>2 DEF StopValidating, AnswerDirectly, CollectDelegate, StartInline, Judge, Validating, Ask
<1>3. ASSUME NEW i \in Index, NEW u, u # "ended", unit' = [unit EXCEPT ![i] = u],
             UNCHANGED outcome, UNCHANGED place \/ at' # "inline"
      PROVE  Known'
  BY <1>3
<1>4. ASSUME NEW i \in Index, NEW o, o # "none", unit' = [unit EXCEPT ![i] = "ended"],
             outcome' = [outcome EXCEPT ![i] = o], UNCHANGED place \/ at' # "inline"
      PROVE  Known'
  BY <1>4
<1>5. ASSUME NEW i \in Index, NEW said \in Answers, Conclude(i, said)
      PROVE  Known'
  <2>1. at' # "inline"
    BY <1>5 DEF Conclude
  <2>2. QED
    BY <1>3, <1>5, <2>1 DEF Conclude
<1>6. ASSUME NEW i \in Index, NEW said \in Answers, HearAnswer(i, said)
      PROVE  Known'
  BY <1>3, <1>6 DEF HearAnswer
<1>7. ASSUME NEW i \in Index, StartSubagent(i) \/ RequestEdit(i) \/ EndEdit(i) \/ NextHop(i)
      PROVE  Known'
  BY <1>1, <1>3, <1>4, <1>7 DEF StartSubagent, RequestEdit, EndEdit, NextHop, Ask
<1>8. ASSUME NEW i \in Index, EndInline(i)
      PROVE  Known'
  BY <1>8 DEF EndInline, TInv, Sorted
<1>9. ASSUME NEW i \in Index, NEW status \in Statuses, EndSubagent(i, status) \/ EndTool(i, status)
      PROVE  Known'
  BY <1>4, <1>9 DEF EndSubagent, EndTool, Statuses
<1>10. ASSUME NEW i \in Index, RunTool(i), UNCHANGED place \/ at' # "inline"
      PROVE  Known'
  BY <1>3, <1>4, <1>10 DEF RunTool
<1>11. ASSUME NEW i \in Index, StartRead(i)
      PROVE  Known'
  BY <1>10, <1>11 DEF StartRead
<1>12. CASE Dispatch \/ EndDelegating \/ EndReading \/ EndFold \/ Walk \/ EndWalk \/ Commit
  BY <1>12 DEF Dispatch, EndDelegating, EndReading, EndFold, Walk, EndWalk, Commit, Queued,
              AfterFlush
<1>13. CASE Flush
  BY <1>13 DEF Flush, Queued, AfterFlush
<1>14. CASE RunEdit
  <2>1. approved[step] \in Index
    BY <1>14, Groups, Element DEF TInv, ListsOK, Sorted, RunEdit
  <2>2. at # "inline" /\ at' # "inline"
    BY <1>14 DEF RunEdit
  <2>3. CASE UNCHANGED <<unit, outcome>>
    BY <2>2, <2>3
  <2>4. QED
    BY <1>10, <1>14, <2>1, <2>2, <2>3 DEF RunEdit
<1>15. QED
  BY <1>1, <1>2, <1>5, <1>6, <1>7, <1>8, <1>9, <1>11, <1>12, <1>13, <1>14
     DEF Next, Agent, User, Call, FoldRead, Interrupt, Toggle, Decide, Show, EndLeftOver

LEMMA HonestNext == TInv /\ Honest /\ Next => Honest'
<1> SUFFICES ASSUME TInv, Honest, Next PROVE Honest'
  OBVIOUS
<1>0. Index' = Index /\ PromptsOK
  BY Steady, SameIndex, Groups DEF TInv
<1> USE <1>0 DEF Honest, PromptsOK
<1>1. CASE UNCHANGED <<answer, cancelled>>
  BY <1>1
<1>2. CASE Interrupt
  BY <1>2 DEF Interrupt
<1>3. ASSUME NEW i \in Index, Show(i)
      PROVE  Honest'
  BY <1>3 DEF Show
<1>4. ASSUME NEW action \in Decisions, NEW lasting \in BOOLEAN, Decide(action, lasting)
      PROVE  Honest'
  BY <1>4 DEF Decide, Decisions
<1>5. ASSUME NEW i \in Index, NEW said \in Answers, HearAnswer(i, said)
      PROVE  Honest'
  BY <1>5 DEF HearAnswer, NoAnswer
<1>6. QED
  BY <1>1, <1>2, <1>3, <1>4, <1>5, ZenonT(60)
     DEF Next, Agent, User, Call, StopValidating, AnswerDirectly, CollectDelegate, StartInline,
         Judge, StartSubagent, RequestEdit, EndEdit, NextHop, EndInline, StartRead, Conclude,
         EndSubagent, EndTool, Dispatch, EndDelegating, EndReading, FoldRead, EndFold, Walk,
         EndWalk, Flush, RunEdit, Commit, Toggle, EndLeftOver

LEMMA PairedNext == RInv /\ Next => cancelled' \/ Paired'
<1> SUFFICES ASSUME RInv, Next, ~cancelled' PROVE Paired'
  OBVIOUS
<1>0. /\ Index' = Index /\ calls' = calls /\ (\A i : KindOf(i)' = KindOf(i))
      /\ ListsOK /\ PlaceOK /\ WorkOK /\ ResultsOK
  BY Steady, SameIndex, Groups DEF RInv, LInv, TInv
<1>a. /\ Len(calls) \in Nat /\ Index = 1..Len(calls) /\ step \in 1..Len(calls) + 1
      /\ Len(approved) \in Nat /\ DOMAIN approved = 1..Len(approved)
  BY <1>0, Calls DEF PlaceOK, ListsOK
<1>b. ~cancelled
  BY Steady
<1>c. Paired /\ Known /\ Honest /\ Sorted
  BY <1>b DEF RInv, LInv, TInv
<1>d. /\ \A k \in DOMAIN approved : approved[k] \in Index /\ ~Inline(approved[k])
      /\ \A i \in Batch : i \in Approved
  BY <1>0, <1>c, Element DEF ListsOK, Sorted, Inline, Batch
<1>1. ASSUME UNCHANGED <<place, collected, results>>,
             \A i \in Index : unit[i] = "ended" => unit'[i] = "ended" \/ at # "folding"
      PROVE  Paired'
  <2>1. Approved' = Approved /\ Batch' = Batch /\ \A i \in Batch : i \in Index
    BY <1>1, <1>d DEF Approved, Batch
  <2>2. at = "folding" => \A i \in Batch' : unit'[i] = "ended"
    BY <1>1, <1>c, <2>1 DEF Paired, AllEnded
  <2>3. QED
    BY <1>0, <1>1, <1>c, <2>1, <2>2 DEF Paired, Has, AllEnded
<1>2. CASE UNCHANGED <<place, collected, results, unit>>
  BY <1>1, <1>2
<1>3. ASSUME NEW i \in Index, at = "validate" \/ at = "inline", step = i, step' = step + 1,
             at' = "validate",
             \A j \in Index : Has(j) => results'[j] # "none",
             delegated \subseteq delegated', \A j \in Approved : j \in Approved',
             results'[i] # "none" \/ i \in delegated' \/ i \in Approved'
      PROVE  Paired'
  <2>1. \A j \in 1..i - 1 : Has(j) \/ j \in delegated \/ j \in Approved
    BY <1>3, <1>c DEF Paired
  <2>2. \A j \in 1..step' - 1 : results'[j] # "none" \/ j \in delegated' \/ j \in Approved'
    BY <1>3, <1>a, <2>1
  <2>3. QED
    BY <1>3, <2>2 DEF Paired, Has
<1>4. ASSUME NEW i \in Index, AnswerDirectly(i) \/ CollectDelegate(i)
      PROVE  Paired'
  BY <1>0, <1>3, <1>4
     DEF AnswerDirectly, CollectDelegate, Validating, Settled, ResultsOK, Has, Approved
<1>5. ASSUME NEW i \in Index, StartInline(i)
      PROVE  Paired'
  BY <1>5, <1>c DEF StartInline, Validating, Paired, Has, Approved
<1>6. ASSUME NEW i \in Index, approved' = Append(approved, i), at = "validate", step = i,
             step' = step + 1, UNCHANGED <<at, delegated, results>>
      PROVE  Paired'
  <2>1. i \in Approved' /\ \A j \in Approved : j \in Approved'
    <3>1. /\ DOMAIN approved' = 1..Len(approved) + 1 /\ approved'[Len(approved) + 1] = i
          /\ \A k \in DOMAIN approved : approved'[k] = approved[k]
      BY <1>0, <1>6, Appended DEF ListsOK
    <3>2. Len(approved) + 1 \in DOMAIN approved' /\ DOMAIN approved \subseteq DOMAIN approved'
      BY <1>a, <3>1
    <3>3. QED
      BY <3>1, <3>2 DEF Approved
  <2>2. QED
    BY <1>3, <1>6, <2>1 DEF Has
<1>7. ASSUME NEW i \in Index, NEW status \in {"denied", "cancelled"}, Settled(i, status),
             at = "validate", step = i, step' = step + 1, UNCHANGED <<at, delegated, approved>>
      PROVE  Paired'
  BY <1>0, <1>3, <1>7 DEF Settled, ResultsOK, Has, Approved
<1>8. ASSUME NEW i \in Index, Judge(i)
      PROVE  Paired'
  <2>1. CASE UNCHANGED <<place, collected, results>>
    BY <1>1, <1>8, <2>1 DEF Judge, Validating
  <2>2. QED
    BY <1>6, <1>7, <1>8, <2>1 DEF Judge, Validating
<1>9. ASSUME NEW i \in Index, NEW said \in Answers, Conclude(i, said)
      PROVE  Paired'
  <2>1. said # "cancel"
    BY <1>9, <1>b, <1>c DEF Conclude, Heard, Honest
  <2>2. QED
    BY <1>6, <1>7, <1>9, <2>1 DEF Conclude
<1>10. ASSUME NEW i \in Index, StartSubagent(i) \/ RequestEdit(i) \/ EndEdit(i) \/ NextHop(i)
       PROVE  Paired'
  <2>1. UNCHANGED <<place, collected, results>>
    BY <1>10 DEF StartSubagent, RequestEdit, EndEdit, NextHop
  <2>2. \A j \in Index : unit[j] = "ended" => unit'[j] = "ended" \/ at # "folding"
    BY <1>0, <1>10 DEF StartSubagent, MayRun, RequestEdit, EndEdit, NextHop, Ask, WorkOK
  <2>3. QED
    BY <1>1, <2>1, <2>2
<1>11. ASSUME NEW i \in Index, NEW said \in Answers, HearAnswer(i, said)
       PROVE  Paired'
  BY <1>0, <1>1, <1>11 DEF HearAnswer, Heard, WorkOK
<1>12. ASSUME NEW i \in Index, NEW status \in Statuses, EndSubagent(i, status) \/ EndTool(i, status)
       PROVE  Paired'
  BY <1>0, <1>1, <1>12 DEF EndSubagent, EndTool, WorkOK
<1>13. ASSUME NEW i \in Index, StartRead(i)
       PROVE  Paired'
  BY <1>0, <1>1, <1>13 DEF StartRead, RunTool, WorkOK
<1>14. ASSUME NEW i \in Index, EndInline(i)
       PROVE  Paired'
  <2>1. Reported(i) # "none" \/ unit[i] # "ended"
    BY <1>14, <1>c DEF EndInline, Known, Reported
  <2>2. QED
    BY <1>0, <1>3, <1>14, <2>1 DEF EndInline, Settled, ResultsOK, Has, Approved
<1>15. CASE Dispatch
  <2>1. \A i \in Index : Has(i) \/ i \in delegated \/ i \in Approved
    BY <1>15, <1>a, <1>c DEF Dispatch, Paired
  <2>2. batch = <<>>
    BY <1>15, <1>c DEF Dispatch, Sorted
  <2>3. QED
    BY <1>0, <1>15, <1>a, <2>1, <2>2 DEF Dispatch, Paired, Has, Approved, Batch
<1>16. ASSUME at \in {"serial", "flush", "reading", "folding", "edit"},
             at' \in {"serial", "flush", "reading", "edit"}, UNCHANGED approved,
             \A j \in Index : Has(j) => results'[j] # "none",
             \/ step' = step /\ \A j \in Batch : j \in Batch' \/ results'[j] # "none"
             \/ /\ step' = step + 1 /\ step \in DOMAIN approved
                /\ \A j \in Batch : j \in Batch'
                /\ approved[step] \in Batch' \/ results'[approved[step]] # "none"
       PROVE  Paired'
  <2>1. \A j \in Index : results'[j] # "none" \/ j \in Approved'
    BY <1>16, <1>c DEF Paired, Approved
  <2>2. ASSUME NEW m \in DOMAIN approved', m < step'
        PROVE  results'[approved'[m]] # "none" \/ approved'[m] \in Batch'
    <3>1. approved'[m] = approved[m] /\ approved[m] \in Index
      BY <1>16, <1>d, <2>2
    <3>2. CASE m < step
      BY <1>16, <1>c, <3>1, <3>2, <2>2 DEF Paired, Has
    <3>3. CASE m = step /\ step' = step + 1
      BY <1>16, <1>a, <3>1, <3>3
    <3>4. QED
      BY <1>16, <1>a, <2>2, <3>2, <3>3
  <2>3. QED
    BY <1>16, <1>0, <2>1, <2>2 DEF Paired, Has
<1>17. CASE EndDelegating
  <2>1. \A i \in delegated : outcome[i] # "none" /\ Reported(i) # "none"
    BY <1>17, <1>c, <1>0 DEF EndDelegating, AllEnded, Known, Sorted, ListsOK, Inline, Delegate,
                             Reported
  <2>2. /\ \A i \in Index : Has(i) => results'[i] # "none"
        /\ \A i \in delegated : results'[i] # "none"
    BY <1>17, <1>0, <2>1 DEF EndDelegating, Has, ListsOK
  <2>3. Approved' = Approved /\ Batch' = Batch /\ UNCHANGED <<step, approved, unit>>
    BY <1>17 DEF EndDelegating, Approved, Batch
  <2>4. \A i \in Index : results'[i] # "none" \/ i \in Approved'
    BY <1>17, <1>c, <2>2, <2>3 DEF EndDelegating, Paired
  <2>5. CASE at = "joined"
    <3>1. batch = approved /\ step = Len(approved) + 1 /\ at' = "folding" /\ AllEnded(Approved)
      BY <1>17, <1>c, <2>5 DEF EndDelegating, Paired
    <3>2. Batch = Approved
      BY <3>1 DEF Batch, Approved
    <3>3. \A m \in DOMAIN approved' : approved'[m] \in Batch'
      BY <2>3, <3>2 DEF Approved
    <3>4. AllEnded(Batch)'
      BY <2>3, <3>1, <3>2 DEF AllEnded
    <3>5. QED
      BY <1>0, <2>4, <3>1, <3>3, <3>4 DEF Paired, Has
  <2>6. CASE at = "delegating"
    <3>1. step = 1 /\ at' = "serial"
      BY <1>17, <1>c, <2>6 DEF EndDelegating, Paired
    <3>2. QED
      BY <1>0, <1>a, <2>3, <2>4, <3>1 DEF Paired, Has
  <2>7. QED
    BY <1>17, <2>5, <2>6 DEF EndDelegating
<1>18. CASE EndReading
  <2>1. UNCHANGED <<step, collected, results, unit>> /\ at' = "folding" /\ at = "reading"
        /\ AllEnded(Batch)
    BY <1>18 DEF EndReading
  <2>2. Approved' = Approved /\ Batch' = Batch /\ AllEnded(Batch)'
    BY <2>1 DEF Approved, Batch, AllEnded
  <2>3. QED
    BY <1>0, <1>c, <2>1, <2>2 DEF Paired, Has
<1>19. CASE FoldRead
  <2>1. /\ batch \in Seq(Index) /\ batch # <<>> /\ batch' = Tail(batch) /\ at = "folding"
        /\ UNCHANGED <<at, step, approved, unit>>
    BY <1>0, <1>19 DEF FoldRead, ListsOK
  <2>2. \A j \in Batch : j = Head(batch) \/ j \in Batch'
    <3>1. ASSUME NEW k \in DOMAIN batch PROVE batch[k] = Head(batch) \/ batch[k] \in Batch'
      <4>1. CASE k = 1
        BY <2>1, <4>1
      <4>2. CASE k # 1
        <5>1. k - 1 \in DOMAIN Tail(batch) /\ Tail(batch)[k - 1] = batch[k]
          BY <2>1, <4>2
        <5>2. QED
          BY <2>1, <5>1 DEF Batch
      <4>3. QED
        BY <4>1, <4>2
    <3>2. QED
      BY <3>1 DEF Batch
  <2>3. \A j \in Batch' : j \in Batch
    <3>1. \A k \in DOMAIN Tail(batch) : k + 1 \in DOMAIN batch /\ Tail(batch)[k] = batch[k + 1]
      BY <2>1, Rest
    <3>2. QED
      BY <2>1, <3>1 DEF Batch
  <2>4. Head(batch) \in Batch /\ Head(batch) \in Index /\ ~Inline(Head(batch))
    <3>1. 1 \in DOMAIN batch /\ batch[1] = Head(batch)
      BY <2>1
    <3>2. Head(batch) \in Batch
      BY <3>1 DEF Batch
    <3>3. QED
      BY <1>d, <3>2 DEF Approved
  <2>5. outcome[Head(batch)] # "none"
    BY <1>c, <2>1, <2>4 DEF Paired, AllEnded, Known
  <2>6. /\ \A j \in Index : Has(j) => results'[j] # "none"
        /\ results'[Head(batch)] # "none"
    BY <1>0, <1>19, <2>4, <2>5 DEF FoldRead, Has, ResultsOK
  <2>7. Approved' = Approved
    BY <2>1 DEF Approved
  <2>8. \A m \in DOMAIN approved' : m < step' => results'[approved'[m]] # "none"
                                             \/ approved'[m] \in Batch'
    BY <1>c, <1>d, <2>1, <2>2, <2>6 DEF Paired, Has
  <2>9. \A j \in Index : results'[j] # "none" \/ j \in Approved'
    BY <1>c, <2>1, <2>6, <2>7 DEF Paired
  <2>10. AllEnded(Batch)'
    BY <1>c, <2>1, <2>3 DEF Paired, AllEnded
  <2>11. QED
    BY <1>0, <2>1, <2>8, <2>9, <2>10 DEF Paired, Has
<1>20. ASSUME at \in {"flush", "folding"}, batch = <<>>, batch' = <<>>, at' = AfterFlush,
             UNCHANGED <<step, approved, results>>
       PROVE  Paired'
  <2>1. Batch = {} /\ Batch' = {} /\ Approved' = Approved
    BY <1>20 DEF Batch, Approved
  <2>2. CASE step > Len(approved)
    <3>1. \A m \in DOMAIN approved : Has(approved[m])
      BY <1>20, <1>a, <1>c, <2>1, <2>2 DEF Paired
    <3>2. \A i \in Index : Has(i)
      BY <1>20, <1>c, <3>1 DEF Paired, Approved
    <3>3. QED
      BY <1>0, <1>20, <2>2, <3>2 DEF Paired, Has, AfterFlush
  <2>3. CASE ~(step > Len(approved))
    BY <1>16, <1>20, <2>1, <2>3 DEF AfterFlush, Has
  <2>4. QED
    BY <2>2, <2>3
<1>21. CASE EndFold
  BY <1>20, <1>21 DEF EndFold
<1>22. CASE Flush
  <2>1. CASE batch = <<>>
    <3>1. Batch = {}
      BY <2>1 DEF Batch
    <3>2. results' = results
      BY <1>0, <1>22, <2>1, <3>1 DEF Flush, ResultsOK
    <3>3. QED
      BY <1>20, <1>22, <2>1, <3>2 DEF Flush
  <2>2. CASE batch # <<>>
    <3>1. /\ at = "flush" /\ at' = "reading" /\ UNCHANGED <<results, batch, step, approved>>
      BY <1>22, <1>b, <2>2 DEF Flush
    <3>2. Batch' = Batch
      BY <3>1 DEF Batch
    <3>3. QED
      BY <1>16, <3>1, <3>2 DEF Has
  <2>3. QED
    BY <2>1, <2>2
<1>23. CASE Walk
  <2>1. /\ at = "serial" /\ step \in DOMAIN approved /\ UNCHANGED approved
        /\ approved[step] \in Index
    BY <1>23, <1>d DEF Walk
  <2>2. CASE results' = [results EXCEPT ![approved[step]] = "denied"] /\ step' = NextCall
             /\ UNCHANGED <<at, batch>>
    <3>1. Batch' = Batch
      BY <2>2 DEF Batch
    <3>2. /\ \A j \in Index : Has(j) => results'[j] # "none"
          /\ results'[approved[step]] # "none"
      BY <1>0, <2>1, <2>2 DEF Has, ResultsOK
    <3>3. QED
      BY <1>16, <2>1, <2>2, <3>1, <3>2 DEF NextCall
  <2>3. CASE batch' = Append(batch, approved[step]) /\ step' = step + 1 /\ UNCHANGED <<at, results>>
    <3>1. /\ DOMAIN batch' = 1..Len(batch) + 1 /\ batch'[Len(batch) + 1] = approved[step]
          /\ \A k \in DOMAIN batch : batch'[k] = batch[k]
      BY <1>0, <2>1, <2>3, Appended DEF ListsOK
    <3>2. Len(batch) + 1 \in DOMAIN batch' /\ DOMAIN batch \subseteq DOMAIN batch'
      BY <1>0, <3>1 DEF ListsOK
    <3>3. approved[step] \in Batch' /\ \A j \in Batch : j \in Batch'
      BY <3>1, <3>2 DEF Batch
    <3>4. QED
      BY <1>16, <2>1, <2>3, <3>3 DEF Has
  <2>4. CASE at' = "flush" /\ UNCHANGED <<step, batch, results>>
    <3>1. Batch' = Batch
      BY <2>4 DEF Batch
    <3>2. QED
      BY <1>16, <2>1, <2>4, <3>1 DEF Has
  <2>5. QED
    BY <1>23, <1>b, <2>2, <2>3, <2>4 DEF Walk
<1>24. CASE EndWalk
  <2>1. Batch' = Batch
    BY <1>24 DEF EndWalk, Batch
  <2>2. QED
    BY <1>16, <1>24, <2>1 DEF EndWalk, Has
<1>25. CASE RunEdit
  <2>1. /\ at = "edit" /\ step \in DOMAIN approved /\ UNCHANGED collected
        /\ approved[step] \in Index /\ ~Inline(approved[step]) /\ Batch' = Batch
    BY <1>25, <1>c, <1>d DEF RunEdit, Sorted, Batch
  <2>2. CASE UNCHANGED <<at, step, results>>
    BY <1>1, <2>1, <2>2
  <2>3. ASSUME NEW r, r # "none", results' = [results EXCEPT ![approved[step]] = r],
               at' = "serial", step' = step + 1
        PROVE  Paired'
    <3>1. /\ \A j \in Index : Has(j) => results'[j] # "none"
          /\ results'[approved[step]] # "none"
      BY <1>0, <2>1, <2>3 DEF Has, ResultsOK
    <3>2. QED
      BY <1>16, <2>1, <2>3, <3>1
  <2>4. unit[approved[step]] = "ended" => outcome[approved[step]] # "none"
    BY <1>c, <2>1 DEF Known
  <2>5. QED
    BY <1>25, <2>2, <2>3, <2>4 DEF RunEdit, NextCall
<1>26. CASE Commit
  BY <1>26 DEF Commit, Paired
<1>27. ASSUME NEW i \in Index, StopValidating(i)
       PROVE  Paired'
  BY <1>27, <1>b DEF StopValidating
<1>28. QED
  BY <1>2, <1>4, <1>5, <1>8, <1>9, <1>10, <1>11, <1>12, <1>13, <1>14, <1>15, <1>17, <1>18, <1>19,
     <1>21, <1>22, <1>23, <1>24, <1>25, <1>26, <1>27
     DEF Next, Agent, User, Call, Interrupt, Toggle, Decide, Show, EndLeftOver

LEMMA RoundPairedNext == RInv /\ Next => RoundPaired'
<1> SUFFICES ASSUME RInv, Next PROVE RoundPaired'
  OBVIOUS
<1>1. Index' = Index
  BY Steady, SameIndex
<1>2. CASE Commit
  BY <1>1, <1>2 DEF RInv, Commit, RoundPaired, Paired, Has
<1>3. CASE UNCHANGED <<at, results>>
  BY <1>1, <1>3 DEF RInv, RoundPaired
<1>4. CASE at' # "committed"
  BY <1>4 DEF RoundPaired
<1>5. ASSUME NEW i \in Index, StopValidating(i) \/ AnswerDirectly(i) \/ CollectDelegate(i)
                              \/ StartInline(i) \/ Judge(i) \/ EndInline(i)
      PROVE  at' # "committed"
  BY <1>5 DEF StopValidating, AnswerDirectly, CollectDelegate, StartInline, Judge, EndInline,
              Validating
<1>6. ASSUME NEW i \in Index, NEW said \in Answers, Conclude(i, said)
      PROVE  at' # "committed"
  BY <1>6 DEF Conclude
<1>7. CASE Dispatch \/ EndDelegating \/ EndReading \/ FoldRead \/ EndFold \/ Walk \/ EndWalk
           \/ Flush \/ RunEdit
  <2>1. at' # "committed"
    BY <1>7 DEF Dispatch, EndDelegating, EndReading, FoldRead, EndFold, Walk, EndWalk, Flush,
                RunEdit, AfterFlush
  <2>2. QED
    BY <1>4, <2>1
<1>8. QED
  BY <1>2, <1>3, <1>4, <1>5, <1>6, <1>7
     DEF Next, Agent, User, Call, StartSubagent, RequestEdit, EndEdit, NextHop, StartRead,
         HearAnswer, EndSubagent, EndTool, Interrupt, Toggle, Decide, Show, EndLeftOver

LEMMA RInvInit == Init => RInv
<1> SUFFICES ASSUME Init PROVE RInv
  OBVIOUS
<1>1. LInv
  BY LInvInit
<1>2. Known /\ NeverRefused /\ RoundPaired
  BY DEF Init, Known, NeverRefused, RoundPaired
<1>3. Honest
  BY DEF Init, Honest, NoAnswer
<1>4. Paired
  BY DEF Init, Paired
<1>5. QED
  BY <1>1, <1>2, <1>3, <1>4 DEF RInv

LEMMA RInvNext == RInv /\ [Next]_vars => RInv'
<1> SUFFICES ASSUME RInv, [Next]_vars PROVE RInv'
  OBVIOUS
<1>1. LInv' /\ NeverRefused'
  BY LInvNext, RefusedNext DEF RInv
<1>2. CASE Next
  <2>1. Known' /\ Honest'
    BY <1>2, KnownNext, HonestNext DEF RInv, LInv
  <2>2. QED
    BY <1>1, <1>2, <2>1, PairedNext, RoundPairedNext DEF RInv
<1>3. CASE UNCHANGED vars
  <2>1. Known' /\ Honest' /\ RoundPaired'
    BY <1>3 DEF RInv, vars, Known, Honest, RoundPaired, Index, KindOf, Inline
  <2>2. cancelled' \/ Paired'
    BY <1>3 DEF RInv, vars, Paired, Has, Approved, Batch, AllEnded, Index
  <2>3. QED
    BY <1>1, <2>1, <2>2 DEF RInv
<1>4. QED
  BY <1>2, <1>3

\* What a round hands back to the model answers every call of the response, whichever way
\* each was settled: by a direct answer, a refusal, a subagent, a read that was put off, an
\* edit, or the budget.  A response with an unanswered call would be rejected by the
\* provider, and the session with it.
THEOREM Answered == Spec => []RoundPaired
<1>1. RInv => RoundPaired
  BY DEF RInv
<1>2. QED
  BY <1>1, RInvInit, RInvNext, PTL DEF Spec

-----------------------------------------------------------------------------
(* The order of the calls, the cards of the front end and the bill. *)
Walks == at \in {"serial", "flush", "reading", "folding", "edit"}

Fresh(i) == results[i] = "none"

\* The lists keep the order of the round.
Rising ==
    /\ \A k, m \in DOMAIN approved : k < m => approved[k] < approved[m]
    /\ \A k, m \in DOMAIN batch : k < m => batch[k] < batch[m]

\* Before the execution: what is ahead has no result, what is approved has not begun.
Ahead ==
    /\ at \in {"validate", "inline"} =>
           /\ \A i \in Index : i >= step => Fresh(i)
           /\ \A i \in Approved \cup delegated : i < step
    /\ at \in {"validate", "inline", "joined", "delegating"} =>
           \A i \in Approved : Fresh(i)
    /\ at \in {"validate", "inline", "delegating"} =>
           \A i \in Approved : unit[i] = "none"
    /\ at = "joined" => OnlyReads /\ batch = approved /\ step = Len(approved) + 1
    /\ at = "delegating" => batch = <<>> /\ step = 1

\* During it: what is behind has a result, or is put off, or was given up with the token;
\* what is ahead has not begun.
Along ==
    Walks =>
        /\ \A m \in DOMAIN approved :
               /\ m >= step => Fresh(approved[m])
               /\ m > step \/ (m = step /\ at # "edit") => unit[approved[m]] = "none"
               /\ m < step => \/ Has(approved[m]) \/ approved[m] \in Batch
                              \/ at = "flush" /\ cancelled /\ step = Len(approved) + 1
        /\ \A k \in DOMAIN batch :
               /\ Fresh(batch[k])
               /\ \E m \in DOMAIN approved : m < step /\ batch[k] = approved[m]
               /\ at \in {"serial", "flush"} => unit[batch[k]] = "none"
        /\ at \in {"flush", "reading", "folding", "edit"} /\ step \in DOMAIN approved =>
               KindOf(approved[step]) = "edit"
        /\ at = "folding" => AllEnded(Batch)

\* Which calls are running, and which wait for the user
Placed ==
    \A i \in Index :
        /\ unit[i] = "running" =>
               \/ i \in leases
               \/ /\ i \in Approved
                  /\ at = "joined" \/ (at = "reading" /\ i \in Batch)
                     \/ (at = "edit" /\ i = approved[step])
        /\ unit[i] = "asking" => i \in leases \/ (at = "validate" /\ i = step)

\* What an edit waits for, and what waits for it
Behind ==
    \A k \in DOMAIN approved : KindOf(approved[k]) = "edit" =>
        /\ unit[approved[k]] # "none" => \A m \in DOMAIN approved : m < k => Has(approved[m])
        /\ unit[approved[k]] \in {"none", "running"} /\ Fresh(approved[k]) =>
               \A m \in DOMAIN approved : m > k => unit[approved[m]] = "none"

\* The calls whose card is open, and those whose card is not closed yet
Opened(i) ==
    \/ at = "inline" /\ i = step
    \/ at \in {"joined", "delegating"} /\ i \in delegated
    \/ i \in Approved /\ unit[i] = "running"

Unclosed(i) ==
    \/ at \in {"validate", "inline"} /\ (i >= step \/ i \in delegated)
    \/ at \in {"joined", "delegating"} /\ i \in delegated
    \/ i \in Approved /\ unit[i] \in {"queued", "running"}
    \/ i \in Approved /\ Fresh(i) /\ unit[i] = "none"

Card(i) ==
    /\ completed[i] <= 1
    /\ Unclosed(i) => completed[i] = 0
    /\ started[i] <= completed[i] \/ (Opened(i) /\ started[i] = 1)

Cards == \A i \in Index : Card(i)

\* What the lists and the maps of a round are made of
Shape ==
    /\ Len(calls) \in Nat /\ Index = 1..Len(calls) /\ step \in Nat
    /\ Len(approved) \in Nat /\ DOMAIN approved = 1..Len(approved)
    /\ Len(batch) \in Nat /\ DOMAIN batch = 1..Len(batch)
    /\ approved \in Seq(Index) /\ batch \in Seq(Index)
    /\ \A k \in DOMAIN approved : approved[k] \in Approved
    /\ \A i \in Approved : i \in Index /\ KindOf(i) \in {"read", "edit"}
                           /\ ~Inline(i) /\ i \notin delegated /\ i \notin leases
    /\ \A k \in DOMAIN batch : batch[k] \in Batch
    /\ \A i \in Batch : i \in Approved /\ KindOf(i) = "read"
    /\ \A i \in delegated : i \in Index /\ Delegate(i)
    /\ unit \in [Index -> Busy \cup {"none", "ended"}]
    /\ results \in [Index -> Statuses \cup {"none", "denied"}]
    /\ started \in [Index -> Nat] /\ completed \in [Index -> Nat]

LEMMA Shapely == TInv => Shape
<1> SUFFICES ASSUME TInv PROVE Shape
  OBVIOUS
<1>1. PlaceOK /\ ListsOK /\ WorkOK /\ ResultsOK
  BY Groups DEF TInv
<1>2. Len(calls) \in Nat /\ Index = 1..Len(calls) /\ step \in Nat
  BY <1>1, Calls DEF PlaceOK
<1>3. /\ approved \in Seq(Index) /\ batch \in Seq(Index)
      /\ Len(approved) \in Nat /\ DOMAIN approved = 1..Len(approved)
      /\ Len(batch) \in Nat /\ DOMAIN batch = 1..Len(batch)
  BY <1>1 DEF ListsOK
<1>4. ASSUME NEW k \in DOMAIN approved
      PROVE  /\ approved[k] \in Index /\ KindOf(approved[k]) \in {"read", "edit"}
             /\ approved[k] \notin delegated /\ approved[k] \notin leases
             /\ ~Inline(approved[k])
  <2>1. approved[k] \in Index /\ KindOf(approved[k]) \in {"read", "edit"}
    BY <1>3, Element DEF TInv, Sorted
  <2>2. ~Inline(approved[k]) /\ ~Delegate(approved[k])
    BY <2>1 DEF Inline, Delegate
  <2>3. QED
    BY <2>1, <2>2 DEF TInv, Sorted
<1>5. /\ \A k \in DOMAIN batch : batch[k] \in Approved /\ KindOf(batch[k]) = "read"
      /\ \A i \in delegated : i \in Index /\ Delegate(i)
  BY <1>1 DEF TInv, Sorted, ListsOK
<1>6. QED
  BY <1>1, <1>2, <1>3, <1>4, <1>5 DEF Shape, Approved, Batch, WorkOK, ResultsOK

\* The steps that leave the round where it is: prompts, modes, and the work of subagents
Rests ==
    /\ UNCHANGED <<at, step, delegated, approved, batch, results, billed, started, completed>>
    /\ \A i \in Approved : unit'[i] = unit[i]

\* A call that gets its result while it is validated, and one that is approved
Settles(i) ==
    /\ at = "validate" /\ step = i
    /\ (at' = "validate" /\ step' = step + 1) \/ (at' = "done" /\ UNCHANGED step)
    /\ \E s \in {"ok", "error", "denied", "cancelled"} :
           results' = [results EXCEPT ![i] = s] /\ (s = "ok" => KindOf(i) # "read")
    /\ UNCHANGED completed \/ completed' = [completed EXCEPT ![i] = @ + 1]
    /\ UNCHANGED <<delegated, approved, batch, billed, started>>
    /\ \A j \in Approved : unit'[j] = unit[j]

Approves(i) ==
    /\ at = "validate" /\ step = i /\ KindOf(i) \in {"read", "edit"}
    /\ approved' = Append(approved, i) /\ step' = step + 1 /\ unit'[i] = "none"
    /\ UNCHANGED <<at, delegated, batch, results, billed, started, completed>>
    /\ \A j \in Approved : unit'[j] = unit[j]

\* One step of the turn's own loop
Loops ==
    \/ Dispatch \/ EndDelegating \/ EndReading \/ FoldRead \/ EndFold
    \/ Walk \/ EndWalk \/ Flush \/ RunEdit \/ Commit

\* Every step is one of these.
LEMMA Effects ==
    ASSUME LInv, Ahead, Next
    PROVE  \/ Rests \/ Loops
           \/ \E i \in Index : \/ Settles(i) \/ Approves(i) \/ CollectDelegate(i)
                               \/ StartInline(i) \/ EndInline(i) \/ StartRead(i)
                               \/ \E status \in Statuses : EndTool(i, status)
<1> DEFINE Goal ==
           \/ Rests \/ Loops
           \/ \E i \in Index : \/ Settles(i) \/ Approves(i) \/ CollectDelegate(i)
                               \/ StartInline(i) \/ EndInline(i) \/ StartRead(i)
                               \/ \E status \in Statuses : EndTool(i, status)
<1>0. Shape
  BY Shapely DEF LInv
<1>1. at = "validate" => \A j \in Approved : j < step /\ j # step
  BY <1>0 DEF Ahead, Shape
<1>2. \A i, u : i \notin Approved /\ unit' = [unit EXCEPT ![i] = u]
                => \A j \in Approved : unit'[j] = unit[j]
  BY <1>0 DEF Shape
<1>a. ASSUME NEW i, NEW s \in {"ok", "error", "denied", "cancelled"}, at = "validate", step = i,
             results' = [results EXCEPT ![i] = s], s = "ok" => KindOf(i) # "read",
             UNCHANGED completed \/ completed' = [completed EXCEPT ![i] = @ + 1],
             (at' = "validate" /\ step' = step + 1) \/ (at' = "done" /\ UNCHANGED step),
             UNCHANGED <<delegated, approved, batch, billed, started>>,
             \A j \in Approved : unit'[j] = unit[j]
      PROVE  Settles(i)
  BY <1>a DEF Settles
<1>3. ASSUME NEW i \in Index, StopValidating(i) \/ AnswerDirectly(i)
      PROVE  Settles(i)
  <2>1. CASE StopValidating(i)
    BY <2>1 DEF StopValidating, Validating, Settled, Settles
  <2>2. CASE AnswerDirectly(i)
    BY <1>a, <2>2 DEF AnswerDirectly, Validating, Settled
  <2>3. QED
    BY <1>3, <2>1, <2>2
<1>4. ASSUME NEW i \in Index, Judge(i)
      PROVE  Settles(i) \/ Approves(i) \/ Rests
  <2>1. i \notin Approved /\ at = "validate" /\ step = i /\ unit[i] = "none"
        /\ KindOf(i) \in {"read", "edit"}
    BY <1>1, <1>4 DEF Judge, Validating
  <2>2. CASE Settled(i, "denied") /\ step' = step + 1 /\ UNCHANGED <<approved, unit, inbox>>
    BY <1>a, <1>4, <2>1, <2>2 DEF Judge, Settled
  <2>3. CASE approved' = Append(approved, i) /\ step' = step + 1
             /\ UNCHANGED <<unit, inbox, results, completed>>
    BY <1>4, <2>1, <2>3 DEF Judge, Approves
  <2>4. CASE Ask(i) /\ UNCHANGED <<approved, step, results, completed>>
    BY <1>2, <1>4, <2>1, <2>4 DEF Judge, Ask, Rests
  <2>5. QED
    BY <1>4, <2>2, <2>3, <2>4 DEF Judge
<1>5. ASSUME NEW i \in Index, NEW said \in Answers, Conclude(i, said)
      PROVE  Settles(i) \/ Approves(i)
  <2>1. /\ i \notin Approved /\ at = "validate" /\ step = i
        /\ unit' = [unit EXCEPT ![i] = "none"]
        /\ UNCHANGED <<delegated, batch, started, billed>>
    BY <1>1, <1>5 DEF Conclude
  <2>2. KindOf(i) \in {"read", "edit"} /\ i \in DOMAIN unit
    BY <1>0, <1>5 DEF Conclude, Heard, LInv, TInv, Sorted, Shape
  <2>3. unit'[i] = "none" /\ \A j \in Approved : unit'[j] = unit[j]
    BY <1>2, <2>1, <2>2
  <2>4. CASE approved' = Append(approved, i) /\ step' = step + 1 /\ UNCHANGED <<at, results, completed>>
    BY <2>1, <2>2, <2>3, <2>4 DEF Approves
  <2>5. CASE Settled(i, "cancelled") /\ at' = "done" /\ UNCHANGED <<approved, step>>
    BY <2>1, <2>3, <2>5 DEF Settled, Settles
  <2>6. CASE Settled(i, "denied") /\ step' = step + 1 /\ UNCHANGED <<approved, at>>
    BY <1>a, <2>1, <2>3, <2>6 DEF Settled
  <2>7. QED
    BY ONLY <1>5, <2>4, <2>5, <2>6 DEF Conclude
<1>6. ASSUME NEW i \in Index, Inline(i) \/ i \in delegated \/ i \in leases, NEW u,
             unit' = unit \/ unit' = [unit EXCEPT ![i] = u],
             UNCHANGED <<at, step, delegated, approved, batch, results, billed, started, completed>>
      PROVE  Rests
  <2>1. i \notin Approved
    BY <1>0, <1>6 DEF Shape
  <2>2. QED
    BY <1>2, <1>6, <2>1 DEF Rests
<1>7. ASSUME NEW i \in Index, StartSubagent(i) \/ RequestEdit(i) \/ EndEdit(i)
      PROVE  Rests
  <2>1. Inline(i) \/ i \in delegated \/ i \in leases
    BY <1>7 DEF StartSubagent, RequestEdit, EndEdit, LInv, Leased
  <2>2. \E u \in {"running", "ended", "asking", "editing"} :
            unit' = unit \/ unit' = [unit EXCEPT ![i] = u]
    BY <1>7 DEF StartSubagent, RequestEdit, EndEdit, Ask
  <2>3. UNCHANGED <<at, step, delegated, approved, batch, results, billed, started, completed>>
    BY <1>7 DEF StartSubagent, RequestEdit, EndEdit
  <2>4. QED
    BY <1>6, <2>1, <2>2, <2>3
<1>8. ASSUME NEW i \in Index, NextHop(i)
      PROVE  Rests
  <2>1. Inline(i)
    BY <1>8 DEF NextHop, LInv, TInv, Sorted
  <2>2. QED
    BY <1>6, <1>8, <2>1 DEF NextHop
<1>9. ASSUME NEW i \in Index, NEW said \in Answers, HearAnswer(i, said)
      PROVE  Rests
  BY <1>6, <1>9 DEF HearAnswer
<1>10. ASSUME NEW i \in Index, NEW status \in Statuses, EndSubagent(i, status)
       PROVE  Rests
  BY <1>6, <1>10 DEF EndSubagent
<1>11. ASSUME User \/ EndLeftOver \/ \E i \in Index : Show(i)
       PROVE  Rests
  <2>1. UNCHANGED <<at, step, delegated, approved, batch, unit, results, billed, started, completed>>
    BY ONLY <1>11 DEF User, Interrupt, Toggle, Decide, Show, EndLeftOver, place, collected, work,
                      broker, events
  <2>2. QED
    BY <2>1 DEF Rests
<1>12. Goal
  <2> HIDE DEF Goal
  <2>1. Rests \/ Loops => Goal
    BY DEF Goal
  <2>2. ASSUME NEW i \in Index, \/ Settles(i) \/ Approves(i) \/ CollectDelegate(i)
                               \/ StartInline(i) \/ EndInline(i) \/ StartRead(i)
                               \/ \E status \in Statuses : EndTool(i, status)
        PROVE  Goal
    BY <2>2 DEF Goal
  <2>3. ASSUME NEW i \in Index, Call(i) PROVE Goal
    BY <1>3, <1>4, <1>5, <1>7, <1>8, <1>9, <1>10, <2>1, <2>2, <2>3 DEF Call
  <2>4. Agent => Loops \/ \E i \in Index : Call(i)
    BY ONLY TRUE DEF Agent, Loops
  <2>5. QED
    BY <1>11, <2>1, <2>3, <2>4 DEF Next
<1>13. QED
  BY <1>12

LEMMA Seqs ==
    ASSUME NEW n \in Nat, NEW s \in Seq(1..n)
    PROVE  s \in Seq(Nat)
OBVIOUS

LEMMA Climbs ==
    ASSUME NEW s \in Seq(Nat), NEW e \in Nat, \A k \in DOMAIN s : s[k] < e,
           \A k, m \in DOMAIN s : k < m => s[k] < s[m]
    PROVE  \A k, m \in DOMAIN Append(s, e) : k < m => Append(s, e)[k] < Append(s, e)[m]
<1>1. /\ DOMAIN Append(s, e) = 1..Len(s) + 1 /\ Append(s, e)[Len(s) + 1] = e
      /\ \A k \in DOMAIN s : Append(s, e)[k] = s[k]
      /\ DOMAIN s = 1..Len(s) /\ Len(s) \in Nat
  BY Appended
<1>2. TAKE k, m \in DOMAIN Append(s, e)
<1>3. HAVE k < m
<1>4. k \in DOMAIN s /\ (m \in DOMAIN s \/ m = Len(s) + 1)
  BY <1>1, <1>2, <1>3
<1>5. QED
  BY <1>1, <1>3, <1>4

\* Each part of the invariant is kept.
LEMMA RisingNext ==
    ASSUME LInv, Rising, Ahead, Along, Next
    PROVE  Rising'
<1>0. Shape
  BY Shapely DEF LInv
<1>1. CASE UNCHANGED <<approved, batch>>
  BY <1>1 DEF Rising
<1>2. ASSUME NEW i \in Index, Approves(i)
      PROVE  Rising'
  <2>1. \A k \in DOMAIN approved : approved[k] < i
    BY <1>0, <1>2 DEF Shape, Ahead, Approves
  <2>2. approved' = Append(approved, i) /\ approved \in Seq(Nat) /\ i \in Nat
    BY <1>0, <1>2, Seqs DEF Shape, Approves
  <2>3. \A k, m \in DOMAIN approved' : k < m => approved'[k] < approved'[m]
    BY <2>1, <2>2, Climbs DEF Rising
  <2>4. QED
    BY <1>2, <2>3 DEF Rising, Approves
<1>3. CASE Dispatch
  BY <1>3 DEF Rising, Dispatch
<1>4. CASE FoldRead
  <2>1. UNCHANGED approved /\ batch' = Tail(batch) /\ batch # <<>>
    BY <1>4 DEF FoldRead
  <2>2. \A k \in DOMAIN batch' : k \in Nat /\ k + 1 \in DOMAIN batch /\ batch'[k] = batch[k + 1]
    BY <1>0, <2>1, Rest DEF Shape
  <2>3. QED
    BY <2>1, <2>2 DEF Rising
<1>5. CASE Walk
  <2>1. UNCHANGED approved /\ at = "serial" /\ step \in DOMAIN approved
    BY <1>5 DEF Walk
  <2>2. CASE batch' = Append(batch, approved[step])
    <3>1. \A k \in DOMAIN batch : batch[k] < approved[step]
      BY <2>1 DEF Along, Walks, Rising
    <3>2. batch \in Seq(Nat) /\ approved[step] \in Nat
      BY <1>0, <2>1, Seqs DEF Shape
    <3>3. \A k, m \in DOMAIN batch' : k < m => batch'[k] < batch'[m]
      BY <2>2, <3>1, <3>2, Climbs DEF Rising
    <3>4. QED
      BY <2>1, <3>3 DEF Rising
  <2>3. QED
    BY <1>1, <1>5, <2>2 DEF Walk
<1>6. CASE Flush
  <2>1. UNCHANGED approved /\ (UNCHANGED batch \/ DOMAIN batch' = {})
    BY <1>6 DEF Flush
  <2>2. QED
    BY <2>1 DEF Rising
<1>7. QED
  BY <1>1, <1>2, <1>3, <1>4, <1>5, <1>6, Effects
     DEF Rests, Loops, Settles, CollectDelegate, StartInline, EndInline, StartRead, EndTool,
         EndDelegating, EndReading, EndFold, EndWalk, RunEdit, Commit

LEMMA AheadNext ==
    ASSUME LInv, Ahead, Next
    PROVE  Ahead'
<1>0. /\ Shape /\ Sorted /\ calls' = calls /\ Index' = Index
      /\ \A i : KindOf(i)' = KindOf(i)
  BY Shapely, Steady, SameIndex DEF LInv, TInv
<1>1. ASSUME at' \notin {"validate", "inline", "joined", "delegating"}
      PROVE  Ahead'
  BY <1>1 DEF Ahead
<1>2. CASE Rests
  BY <1>0, <1>2 DEF Ahead, Rests, Fresh, OnlyReads, Approved
<1>3. ASSUME NEW i \in Index, Settles(i)
      PROVE  Ahead'
  <2>0. i \notin Approved /\ \A j \in Index : j # i => results'[j] = results[j]
    BY <1>0, <1>3 DEF Settles, Ahead, Shape
  <2>1. Approved' = Approved /\ i \notin Approved
        /\ \A j \in Index : j # i => results'[j] = results[j]
    BY <1>3, <2>0 DEF Settles, Approved
  <2>2. QED
    BY <1>0, <1>1, <1>3, <2>1 DEF Ahead, Settles, Fresh, Shape
<1>4. ASSUME NEW i \in Index, Approves(i)
      PROVE  Ahead'
  <2>1. Approved' = Approved \cup {i}
    <3>1. /\ DOMAIN approved' = 1..Len(approved) + 1 /\ approved'[Len(approved) + 1] = i
          /\ \A k \in DOMAIN approved : approved'[k] = approved[k]
      BY <1>0, <1>4, Appended DEF Shape, Approves
    <3>2. \A k \in DOMAIN approved : k \in DOMAIN approved'
      BY <1>0, <3>1 DEF Shape
    <3>3. Len(approved) + 1 \in DOMAIN approved'
      BY <1>0, <3>1 DEF Shape
    <3>4. \A k \in DOMAIN approved' : k \in DOMAIN approved \/ k = Len(approved) + 1
      BY <1>0, <3>1 DEF Shape
    <3>5. QED
      BY <3>1, <3>2, <3>3, <3>4 DEF Approved
  <2>2. QED
    BY <1>0, <1>4, <2>1 DEF Ahead, Approves, Fresh, Shape
<1>5. ASSUME NEW i \in Index, CollectDelegate(i) \/ StartInline(i) \/ EndInline(i)
      PROVE  Ahead'
  <2>1. Approved' = Approved
    BY <1>5 DEF Approved, CollectDelegate, StartInline, EndInline
  <2>2. CASE CollectDelegate(i) \/ StartInline(i)
    <3>1. /\ at = "validate" /\ step = i /\ UNCHANGED <<unit, results>>
          /\ \/ at' = at /\ step' = step + 1 /\ delegated' = delegated \cup {i}
             \/ at' = "inline" /\ UNCHANGED <<step, delegated>>
      BY <2>2 DEF CollectDelegate, StartInline, Validating
    <3>2. /\ \A j \in Index : j >= step => Fresh(j)
          /\ \A j \in Approved \cup delegated : j \in Index /\ j < step
          /\ \A j \in Approved : Fresh(j) /\ unit[j] = "none"
      BY <1>0, <3>1 DEF Ahead, Shape
    <3>3. /\ \A j \in Index : j >= step' => Fresh(j)
          /\ \A j \in Approved \cup delegated' : j < step'
      BY <1>0, <3>1, <3>2 DEF Shape
    <3>4. QED
      BY <1>0, <2>1, <3>1, <3>2, <3>3 DEF Ahead, Fresh
  <2>3. CASE EndInline(i)
    <3>1. i \notin Approved /\ Inline(i) /\ at = "inline" /\ step = i
      BY <1>0, <2>3 DEF EndInline, Shape, Sorted
    <3>2. \A j \in Index : j # i => results'[j] = results[j] /\ unit'[j] = unit[j]
      BY <1>0, <2>3 DEF EndInline, Settled, Shape
    <3>3. QED
      BY <1>0, <2>1, <2>3, <3>1, <3>2 DEF Ahead, EndInline, Fresh, Shape
  <2>4. QED
    BY <1>5, <2>2, <2>3
<1>6. ASSUME NEW i \in Index, StartRead(i) \/ \E status \in Statuses : EndTool(i, status)
      PROVE  Ahead'
  <2>1. i \in Approved /\ unit[i] # "none" /\ UNCHANGED <<at, step, delegated, approved, batch, results>>
    BY <1>6 DEF StartRead, EndTool
  <2>2. Approved' = Approved
    BY <2>1 DEF Approved
  <2>3. at \notin {"validate", "inline", "delegating"}
    BY <2>1 DEF Ahead
  <2>4. QED
    BY <1>0, <2>1, <2>2, <2>3 DEF Ahead, Fresh, OnlyReads
<1>7. CASE Dispatch
  <2>1. at = "validate" /\ batch = <<>> /\ Approved' = Approved /\ UNCHANGED <<delegated, approved, results>>
    BY <1>0, <1>7 DEF Dispatch, Sorted, Approved
  <2>2. CASE at' = "joined" /\ step' = Len(approved) + 1 /\ batch' = approved /\ OnlyReads
    BY <1>0, <2>1, <2>2 DEF Ahead, Fresh, OnlyReads
  <2>3. CASE at' = "delegating" /\ step' = 1 /\ Queued(delegated) /\ UNCHANGED batch
    <3>1. \A i \in Approved : unit'[i] = unit[i]
      BY <1>0, <2>3 DEF Queued, Shape
    <3>2. QED
      BY <1>0, <2>1, <2>3, <3>1 DEF Ahead, Fresh
  <2>4. QED
    BY <1>1, <1>7, <2>2, <2>3 DEF Dispatch
<1>8. CASE EndDelegating \/ EndReading \/ FoldRead \/ EndFold \/ Walk \/ EndWalk \/ Flush
           \/ RunEdit \/ Commit
  BY <1>1, <1>8 DEF EndDelegating, EndReading, FoldRead, EndFold, Walk, EndWalk, Flush, RunEdit,
                    Commit, AfterFlush
<1>9. QED
  BY <1>2, <1>3, <1>4, <1>5, <1>6, <1>7, <1>8, Effects DEF Loops

\* A call is approved once, and put off once.
LEMMA Distinct ==
    ASSUME Shape, Rising
    PROVE  /\ \A k, m \in DOMAIN approved : approved[k] = approved[m] => k = m
           /\ \A k, m \in DOMAIN batch : batch[k] = batch[m] => k = m
<1>1. /\ \A k \in DOMAIN approved : k \in Nat /\ approved[k] \in Nat
      /\ \A k \in DOMAIN batch : k \in Nat /\ batch[k] \in Nat
  BY DEF Shape
<1>2. QED
  BY <1>1 DEF Rising

\* A read that starts or a tool that ends is one whose turn has come.
LEMMA Reached ==
    ASSUME LInv, Placed, Ahead, NEW i \in Approved, unit[i] \in {"queued", "running"}
    PROVE  at = "joined" \/ (at = "reading" /\ i \in Batch) \/ (at = "edit" /\ i = approved[step])
BY Shapely DEF LInv, Leased, Placed, Shape

LEMMA AlongNext ==
    ASSUME LInv, Known, Rising, Ahead, Along, Placed, Next
    PROVE  Along'
<1>0. /\ Shape /\ Sorted /\ calls' = calls /\ Index' = Index
      /\ (\A i : KindOf(i)' = KindOf(i)) /\ (cancelled => cancelled')
  BY Shapely, Steady, SameIndex DEF LInv, TInv
<1>1. ASSUME ~Walks' PROVE Along'
  BY <1>1 DEF Along
<1>2. \A k, m \in DOMAIN approved : approved[k] = approved[m] => k = m
  BY <1>0, Distinct
<1>s. /\ step \in Nat /\ \A j \in Approved : j \in Index
      /\ \A m \in DOMAIN approved : m \in Nat /\ approved[m] \in Approved /\ approved[m] \in Index
      /\ \A k \in DOMAIN batch : k \in Nat /\ batch[k] \in Batch /\ batch[k] \in Index
      /\ \A j \in Batch : j \in Approved /\ j \in Index /\ KindOf(j) = "read"
  BY <1>0 DEF Shape
<1>3. CASE Rests
  <2>1. \A m \in DOMAIN approved : unit'[approved[m]] = unit[approved[m]]
    BY <1>0, <1>3 DEF Rests, Shape
  <2>2. \A k \in DOMAIN batch : unit'[batch[k]] = unit[batch[k]]
    BY <1>0, <1>3 DEF Rests, Shape
  <2>3. Approved' = Approved /\ Batch' = Batch /\ \A j \in Batch : unit'[j] = unit[j]
    <3>1. Approved' = Approved /\ Batch' = Batch
      BY <1>3 DEF Rests, Approved, Batch
    <3>2. QED
      BY <1>3, <1>s, <3>1 DEF Rests
  <2>4. QED
    BY <1>0, <1>3, <2>1, <2>2, <2>3 DEF Along, Walks, Rests, Fresh, Has, AllEnded
<1>4. ASSUME NEW i \in Index, \/ Settles(i) \/ Approves(i) \/ CollectDelegate(i)
                              \/ StartInline(i) \/ EndInline(i)
      PROVE  Along'
  BY <1>1, <1>4 DEF Settles, Approves, CollectDelegate, StartInline, EndInline, Validating, Walks
<1>5. ASSUME NEW i \in Index, StartRead(i) \/ \E status \in Statuses : EndTool(i, status)
      PROVE  Along'
  <2>1. /\ i \in Approved /\ unit[i] \in {"queued", "running"}
        /\ UNCHANGED <<at, step, delegated, approved, batch, results>>
    BY <1>5 DEF StartRead, EndTool
  <2>2. /\ \A j \in Index : j # i => unit'[j] = unit[j]
    BY <1>0, <1>5 DEF StartRead, RunTool, EndTool, Shape
  <2>3. Approved' = Approved /\ Batch' = Batch
    BY <2>1 DEF Approved, Batch
  <2>4. at = "joined" \/ (at = "reading" /\ i \in Batch) \/ (at = "edit" /\ i = approved[step])
    BY <2>1, Reached
  <2>5. CASE at = "joined"
    BY <1>1, <2>1, <2>5 DEF Walks
  <2>6. CASE at = "reading" /\ i \in Batch
    <3>1. PICK n \in DOMAIN approved : n < step /\ i = approved[n]
      BY <2>6 DEF Along, Walks, Batch
    <3>2. \A m \in DOMAIN approved : m >= step => unit'[approved[m]] = unit[approved[m]]
      BY <1>0, <1>2, <2>2, <3>1, SMTT(30) DEF Shape
    <3>3. QED
      BY <1>0, <2>1, <2>3, <2>6, <3>2 DEF Along, Walks, Fresh, Has, Shape
  <2>7. CASE at = "edit" /\ i = approved[step]
    <3>1. step \in DOMAIN approved /\ batch = <<>>
      BY <1>0, <2>7 DEF Sorted
    <3>2. \A m \in DOMAIN approved : m > step => unit'[approved[m]] = unit[approved[m]]
      BY <1>2, <1>s, <2>2, <2>7, <3>1
    <3>3. QED
      BY <1>0, <2>1, <2>3, <2>7, <3>1, <3>2 DEF Along, Walks, Fresh, Has, Shape
  <2>8. QED
    BY <2>4, <2>5, <2>6, <2>7
<1>6. CASE Dispatch
  <2>1. CASE at' = "serial" /\ step' = 1 /\ UNCHANGED <<batch, unit>>
    <3>1. at = "validate" /\ batch = <<>> /\ UNCHANGED <<approved, results>>
      BY <1>0, <1>6 DEF Dispatch, Sorted
    <3>2. \A m \in DOMAIN approved : Fresh(approved[m]) /\ unit[approved[m]] = "none" /\ ~(m < 1)
      BY <1>0, <3>1 DEF Ahead, Shape
    <3>3. QED
      BY <2>1, <3>1, <3>2 DEF Along, Fresh
  <2>2. QED
    BY <1>1, <1>6, <2>1 DEF Dispatch, Walks
<1>7. CASE EndDelegating
  <2>1. /\ UNCHANGED <<step, approved, batch, unit>> /\ Approved' = Approved /\ Batch' = Batch
        /\ \A i \in Approved : results'[i] = results[i]
    BY <1>0, <1>7 DEF EndDelegating, Approved, Batch, Shape
  <2>2. CASE at = "joined"
    <3>1. at' = "folding" /\ batch = approved /\ step = Len(approved) + 1 /\ AllEnded(Approved)
      BY <1>7, <2>2 DEF EndDelegating, Ahead
    <3>2. Batch = Approved
      BY <3>1 DEF Batch, Approved
    <3>3. \A m \in DOMAIN approved : m < step /\ m \notin {n \in Nat : n >= step}
      BY <1>0, <3>1 DEF Shape
    <3>4. \A m \in DOMAIN approved : results'[approved[m]] = "none"
      BY <1>0, <2>1, <2>2 DEF Ahead, Fresh, Shape
    <3>5. AllEnded(Batch)'
      BY <2>1, <3>1, <3>2 DEF AllEnded
    <3>6. QED
      BY <1>0, <2>1, <3>1, <3>2, <3>3, <3>4, <3>5 DEF Along, Fresh, Shape
  <2>3. CASE at = "delegating"
    <3>1. at' = "serial" /\ batch = <<>> /\ step = 1
      BY <1>7, <2>3 DEF EndDelegating, Ahead
    <3>2. \A m \in DOMAIN approved : results'[approved[m]] = "none" /\ unit[approved[m]] = "none"
                                     /\ ~(m < 1)
      BY <1>0, <2>1, <2>3 DEF Ahead, Fresh, Shape
    <3>3. QED
      BY <2>1, <3>1, <3>2 DEF Along, Fresh
  <2>4. QED
    BY <1>7, <2>2, <2>3 DEF EndDelegating
<1>8. CASE EndReading
  <2>1. /\ at = "reading" /\ at' = "folding" /\ AllEnded(Batch)
        /\ UNCHANGED <<step, approved, batch, unit, results>>
    BY <1>8 DEF EndReading
  <2>2. Batch' = Batch /\ AllEnded(Batch)'
    BY <2>1 DEF Batch, AllEnded
  <2>3. QED
    BY <1>0, <2>1, <2>2 DEF Along, Walks, Fresh, Has
<1>9. CASE EndFold \/ EndWalk
  <2>1. CASE EndFold
    <3>1. /\ at = "folding" /\ batch = <<>> /\ UNCHANGED <<step, approved, batch, unit, results>>
          /\ at' = "done" \/ at' = "edit"
      BY <2>1 DEF EndFold, AfterFlush
    <3>2. Batch' = Batch
      BY <3>1 DEF Batch
    <3>3. QED
      BY <1>0, <1>1, <3>1, <3>2 DEF Along, Walks, Fresh, Has
  <2>2. CASE EndWalk
    <3>1. /\ at = "serial" /\ at' = "flush" /\ step = Len(approved) + 1
          /\ UNCHANGED <<step, approved, batch, unit, results>>
      BY <2>2 DEF EndWalk
    <3>2. Batch' = Batch /\ step \notin DOMAIN approved
      BY <1>0, <3>1 DEF Batch, Shape
    <3>3. QED
      BY <1>0, <1>1, <3>1, <3>2 DEF Along, Walks, Fresh, Has
  <2>3. QED
    BY <1>9, <2>1, <2>2
<1>10. CASE Commit
  BY <1>1, <1>10 DEF Commit, Walks
<1>11. CASE FoldRead
  <2>1. /\ at = "folding" /\ batch # <<>> /\ batch' = Tail(batch)
        /\ UNCHANGED <<at, step, approved, unit>>
    BY <1>11 DEF FoldRead
  <2>2. 1 \in DOMAIN batch /\ batch[1] = Head(batch) /\ Head(batch) \in Batch
        /\ Head(batch) \in Index
    <3>1. 1 \in DOMAIN batch /\ batch[1] = Head(batch)
      BY <1>0, <2>1 DEF Shape
    <3>2. QED
      BY <1>s, <3>1
  <2>3. outcome[Head(batch)] # "none"
    BY <1>0, <2>1, <2>2 DEF Along, Walks, AllEnded, Known, Shape
  <2>4. /\ results'[Head(batch)] # "none"
        /\ \A j \in Index : j # Head(batch) => results'[j] = results[j]
    BY <1>0, <1>11, <2>2, <2>3 DEF FoldRead, Shape
  <2>5. \A k \in DOMAIN batch' : /\ k \in Nat /\ k + 1 \in DOMAIN batch
                                 /\ batch'[k] = batch[k + 1] /\ batch[k + 1] # Head(batch)
    <3>1. \A k \in DOMAIN batch' : k + 1 \in DOMAIN batch /\ batch'[k] = batch[k + 1]
      BY <1>0, <2>1, Rest DEF Shape
    <3>2. \A k \in DOMAIN batch' : k \in Nat /\ k >= 1
      BY <1>0, <2>1 DEF Shape
    <3>3. \A k \in DOMAIN batch : k # 1 => batch[k] # Head(batch)
      BY <1>0, <2>2, Distinct
    <3>4. QED
      BY <3>1, <3>2, <3>3
  <2>6. \A j \in Batch : j = Head(batch) \/ j \in Batch'
    <3>1. ASSUME NEW k \in DOMAIN batch, k # 1 PROVE batch[k] \in Batch'
      <4>1. k - 1 \in DOMAIN Tail(batch) /\ Tail(batch)[k - 1] = batch[k]
        BY <1>0, <2>1, <3>1 DEF Shape
      <4>2. QED
        BY <2>1, <4>1 DEF Batch
    <3>2. QED
      BY <2>2, <3>1 DEF Batch
  <2>7. \A j \in Batch' : j \in Batch
    BY <2>5 DEF Batch
  <2>8. AllEnded(Batch)'
    BY <2>1, <2>7 DEF Along, Walks, AllEnded
  <2>9. PICK n \in DOMAIN approved : n < step /\ Head(batch) = approved[n]
    BY <2>1, <2>2 DEF Along, Walks
  <2>10. \A m \in DOMAIN approved : m >= step => results'[approved[m]] = results[approved[m]]
    BY <1>2, <1>s, <2>4, <2>9
  <2>11. \A m \in DOMAIN approved : m < step => results'[approved[m]] # "none" \/ approved[m] \in Batch'
    BY <1>0, <2>1, <2>4, <2>6 DEF Along, Walks, Has, Shape
  <2>12. \A k \in DOMAIN batch' : /\ results'[batch'[k]] = "none"
                                  /\ \E m \in DOMAIN approved : m < step /\ batch'[k] = approved[m]
    BY <1>s, <2>1, <2>4, <2>5 DEF Along, Walks, Fresh
  <2>13. QED
    BY <1>0, <2>1, <2>8, <2>10, <2>11, <2>12 DEF Along, Walks, Fresh, Has

<1>12. CASE Walk
  <2>1. /\ at = "serial" /\ step \in DOMAIN approved /\ UNCHANGED <<approved, unit>>
        /\ approved[step] \in Index /\ step \in Nat
    BY <1>0, <1>12 DEF Walk, Shape
  <2>2. \A k \in DOMAIN batch : /\ Fresh(batch[k]) /\ unit[batch[k]] = "none" /\ batch[k] \in Index
                                /\ batch[k] # approved[step]
                                /\ \E m \in DOMAIN approved : m < step /\ batch[k] = approved[m]
    <3>1. ASSUME NEW k \in DOMAIN batch
          PROVE  /\ Fresh(batch[k]) /\ unit[batch[k]] = "none" /\ batch[k] \in Index
                 /\ \E m \in DOMAIN approved : m < step /\ batch[k] = approved[m]
      BY <1>s, <2>1 DEF Along, Walks
    <3>2. ASSUME NEW m \in DOMAIN approved, m < step PROVE approved[m] # approved[step]
      BY <1>2, <1>s, <2>1, <3>2
    <3>3. QED
      BY <3>1, <3>2
  <2>3. \A m \in DOMAIN approved :
            /\ m \in Nat /\ approved[m] \in Index
            /\ m >= step => Fresh(approved[m]) /\ unit[approved[m]] = "none"
            /\ m < step => Has(approved[m]) \/ approved[m] \in Batch
            /\ m # step => approved[m] # approved[step]
    BY <1>2, <1>s, <2>1 DEF Along, Walks
  <2>4. CASE /\ results' = [results EXCEPT ![approved[step]] = "cancelled"] /\ cancelled /\ cancelled'
             /\ at' = "flush" /\ step' = Len(approved) + 1 /\ UNCHANGED batch
    <3>1. Batch' = Batch /\ step' \notin DOMAIN approved /\ \A m \in DOMAIN approved : m < step'
      BY <1>0, <2>4 DEF Batch, Shape
    <3>2. \A k \in DOMAIN batch : results'[batch[k]] = "none"
      BY <1>0, <2>2, <2>4 DEF Fresh, Shape
    <3>3. \A k \in DOMAIN batch : \E m \in DOMAIN approved : m < step' /\ batch[k] = approved[m]
      BY <2>2, <3>1
    <3>4. \A m \in DOMAIN approved : ~(m >= step') /\ ~(m > step')
      BY <1>0, <2>4 DEF Shape
    <3>5. QED
      BY <1>0, <2>1, <2>2, <2>4, <3>1, <3>2, <3>3, <3>4 DEF Along, Fresh
  <2>5. CASE /\ results' = [results EXCEPT ![approved[step]] = "denied"] /\ step' = NextCall
             /\ UNCHANGED <<at, batch>>
    <3>1. Batch' = Batch /\ step' = step + 1
      BY <2>5 DEF Batch, NextCall
    <3>2. /\ results'[approved[step]] = "denied"
          /\ \A j \in Index : j # approved[step] => results'[j] = results[j]
      BY <1>0, <2>1, <2>5 DEF Shape
    <3>3. \A m \in DOMAIN approved :
              /\ m >= step' => results'[approved[m]] = "none" /\ unit[approved[m]] = "none"
              /\ m < step' => results'[approved[m]] # "none" \/ approved[m] \in Batch'
              /\ m < step => m < step'
      BY <2>1, <2>3, <3>1, <3>2 DEF Fresh, Has
    <3>4. \A k \in DOMAIN batch : /\ results'[batch[k]] = "none"
                                  /\ \E m \in DOMAIN approved : m < step' /\ batch[k] = approved[m]
      BY <2>2, <3>2, <3>3 DEF Fresh
    <3>5. \A m \in DOMAIN approved : m > step' => m >= step'
      BY <2>1, <2>3, <3>1
    <3>6. QED
      BY <1>0, <2>1, <2>2, <2>5, <3>1, <3>3, <3>4, <3>5 DEF Along, Fresh, Has
  <2>6. CASE batch' = Append(batch, approved[step]) /\ step' = step + 1 /\ UNCHANGED <<at, results>>
    <3>1. /\ DOMAIN batch' = 1..Len(batch) + 1 /\ batch'[Len(batch) + 1] = approved[step]
          /\ \A k \in DOMAIN batch : batch'[k] = batch[k]
      BY <1>0, <2>1, <2>6, Appended DEF Shape
    <3>2. /\ \A k \in DOMAIN batch' : k \in DOMAIN batch \/ k = Len(batch) + 1
          /\ Len(batch) + 1 \in DOMAIN batch' /\ \A k \in DOMAIN batch : k \in DOMAIN batch'
      BY <1>0, <3>1 DEF Shape
    <3>3. approved[step] \in Batch' /\ \A j \in Batch : j \in Batch'
      BY <3>1, <3>2 DEF Batch
    <3>4. \A m \in DOMAIN approved :
              /\ m >= step' => results'[approved[m]] = "none" /\ unit[approved[m]] = "none"
              /\ m > step' => m >= step'
              /\ m < step' => results'[approved[m]] # "none" \/ approved[m] \in Batch'
              /\ m < step \/ m = step => m < step'
      BY <2>1, <2>3, <2>6, <3>3 DEF Fresh, Has
    <3>5. \A k \in DOMAIN batch' : /\ results'[batch'[k]] = "none" /\ unit[batch'[k]] = "none"
                                   /\ \E m \in DOMAIN approved : m < step' /\ batch'[k] = approved[m]
      BY <2>1, <2>2, <2>3, <2>6, <3>1, <3>2, <3>4 DEF Fresh
    <3>6. QED
      BY <1>0, <2>1, <2>6, <3>4, <3>5 DEF Along, Fresh, Has
  <2>7. CASE at' = "flush" /\ KindOf(approved[step]) = "edit" /\ UNCHANGED <<step, batch, results>>
    <3>1. Batch' = Batch
      BY <2>7 DEF Batch
    <3>2. QED
      BY <1>0, <2>1, <2>2, <2>3, <2>7, <3>1 DEF Along, Walks, Fresh, Has
  <2>8. cancelled' = cancelled
    BY <1>12 DEF Walk
  <2>9. QED
    BY <1>12, <2>4, <2>5, <2>6, <2>7, <2>8 DEF Walk, Settled
<1>13. CASE Flush
  <2>1. /\ at = "flush" /\ UNCHANGED <<step, approved, cancelled>> /\ step \in Nat
    BY <1>0, <1>13 DEF Flush, Shape
  <2>2. \A j \in Batch : /\ j \in Approved /\ KindOf(j) = "read"
                         /\ \E m \in DOMAIN approved : m < step /\ j = approved[m]
    <3>1. \A k \in DOMAIN batch : \E m \in DOMAIN approved : m < step /\ batch[k] = approved[m]
      BY <2>1 DEF Along, Walks
    <3>2. QED
      BY <1>s, <3>1 DEF Batch
  <2>3. \A m \in DOMAIN approved :
            /\ m \in Nat /\ approved[m] \in Index
            /\ m >= step => Fresh(approved[m]) /\ unit[approved[m]] = "none" /\ approved[m] \notin Batch
            /\ m < step => \/ Has(approved[m]) \/ approved[m] \in Batch
                           \/ cancelled /\ step = Len(approved) + 1
    <3>1. \A m \in DOMAIN approved : m >= step => approved[m] \notin Batch
      BY <1>2, <1>s, <2>2
    <3>2. QED
      BY <1>s, <2>1, <3>1 DEF Along, Walks
  <2>4. CASE /\ results' = [i \in Index |-> IF i \in Batch THEN "cancelled" ELSE results[i]]
             /\ batch' = <<>> /\ at' = AfterFlush /\ UNCHANGED unit
    <3>1. CASE step > Len(approved)
      BY <1>1, <2>4, <3>1 DEF AfterFlush, Walks
    <3>2. CASE ~(step > Len(approved))
      <4>1. at' = "edit" /\ step # Len(approved) + 1 /\ DOMAIN batch' = {}
        BY <1>0, <2>1, <2>4, <3>2 DEF AfterFlush, Shape
      <4>2. \A m \in DOMAIN approved :
                /\ m >= step => results'[approved[m]] = "none"
                /\ m > step => m >= step
                /\ m < step => results'[approved[m]] # "none"
        BY <2>1, <2>3, <2>4, <4>1 DEF Fresh, Has
      <4>3. QED
        BY <1>0, <2>1, <2>3, <2>4, <4>1, <4>2 DEF Along, Walks, Fresh, Has
    <3>3. QED
      BY <3>1, <3>2
  <2>5. CASE ~cancelled /\ Queued(Batch) /\ at' = "reading" /\ UNCHANGED <<results, batch>>
    <3>1. Batch' = Batch
      BY <2>5 DEF Batch
    <3>2. \A m \in DOMAIN approved : m >= step => unit'[approved[m]] = "none"
      BY <2>3, <2>5 DEF Queued
    <3>3. \A m \in DOMAIN approved : m > step => m >= step
      BY <2>1, <2>3
    <3>4. QED
      BY <1>0, <2>1, <2>3, <2>5, <3>1, <3>2, <3>3 DEF Along, Walks, Fresh, Has
  <2>6. QED
    BY <1>13, <2>4, <2>5 DEF Flush
<1>14. CASE RunEdit
  <2>1. /\ at = "edit" /\ step \in DOMAIN approved /\ UNCHANGED collected /\ step \in Nat
        /\ approved[step] \in Index /\ ~Inline(approved[step]) /\ Batch' = Batch
        /\ batch = <<>> /\ Batch = {} /\ DOMAIN batch = {}
    <3>1. /\ at = "edit" /\ step \in DOMAIN approved /\ UNCHANGED collected /\ batch = <<>>
      BY <1>0, <1>14 DEF RunEdit, Sorted
    <3>2. Batch' = Batch /\ DOMAIN batch = {} /\ Batch = {}
      BY <3>1 DEF Batch
    <3>3. ~Inline(approved[step]) /\ approved[step] \in Index
      BY <1>0, <3>1 DEF Shape
    <3>4. QED
      BY <1>s, <3>1, <3>2, <3>3
  <2>2. \A m \in DOMAIN approved :
            /\ m \in Nat /\ approved[m] \in Index
            /\ m >= step => Fresh(approved[m])
            /\ m > step => unit[approved[m]] = "none"
            /\ m < step => Has(approved[m])
            /\ m # step => approved[m] # approved[step]
    BY <1>0, <1>2, <2>1 DEF Along, Walks, Shape
  <2>3. CASE RunTool(approved[step]) /\ UNCHANGED <<at, step, results>>
    <3>1. \A j \in Index : j # approved[step] => unit'[j] = unit[j]
      BY <1>0, <2>3 DEF RunTool, Shape
    <3>2. KindOf(approved[step]) = "edit"
      BY <2>1 DEF Along, Walks
    <3>3. \A m \in DOMAIN approved : m > step => m # step /\ unit'[approved[m]] = "none"
      BY <2>1, <2>2, <3>1
    <3>4. QED
      BY <1>0, <2>1, <2>2, <2>3, <3>2, <3>3 DEF Along, Walks, Fresh, Has
  <2>4. ASSUME NEW r, r # "none", results' = [results EXCEPT ![approved[step]] = r],
               at' = "serial", step' = step + 1, UNCHANGED unit
        PROVE  Along'
    <3>1. /\ results'[approved[step]] # "none"
          /\ \A j \in Index : j # approved[step] => results'[j] = results[j]
      BY <1>0, <2>1, <2>4 DEF Shape
    <3>2. \A m \in DOMAIN approved :
              /\ m >= step' => results'[approved[m]] = "none" /\ unit[approved[m]] = "none"
              /\ m > step' => m >= step'
              /\ m < step' => results'[approved[m]] # "none"
      BY <2>1, <2>2, <2>4, <3>1 DEF Fresh, Has
    <3>3. QED
      BY <1>0, <2>1, <2>4, <3>2 DEF Along, Walks, Fresh, Has
  <2>5. unit[approved[step]] = "ended" => outcome[approved[step]] # "none"
    BY <2>1 DEF Known
  <2>6. QED
    BY <1>14, <2>3, <2>4, <2>5 DEF RunEdit, NextCall
<1>15. QED
  BY <1>3, <1>4, <1>5, <1>6, <1>7, <1>8, <1>9, <1>10, <1>11, <1>12, <1>13, <1>14, Effects DEF Loops

LEMMA PlacedNext ==
    ASSUME LInv, Ahead, Placed, Next
    PROVE  Placed'
<1>0. /\ Shape /\ Sorted /\ Leased /\ Index' = Index
      /\ unit \in [Index -> Busy \cup {"none", "ended"}]
      /\ \A k \in DOMAIN approved : approved[k] \in Approved /\ approved[k] \in Index
  BY Shapely, Steady, SameIndex DEF LInv, TInv, Shape
<1>1. CASE UNCHANGED <<at, step, approved, batch, unit, leases>>
  BY <1>0, <1>1 DEF Placed, Approved, Batch
<1>2. ASSUME NEW i \in Index, UNCHANGED <<at, step, approved, batch>>,
             \A j \in Index : j # i => unit'[j] = unit[j] /\ (j \in leases => j \in leases'),
             unit'[i] \in {"running", "asking"} => i \in leases'
      PROVE  Placed'
  <2>1. Approved' = Approved /\ Batch' = Batch
    BY <1>2 DEF Approved, Batch
  <2>2. QED
    BY <1>0, <1>2, <2>1 DEF Placed
\* the steps of a subagent
<1>3. ASSUME NEW i \in Index, StartSubagent(i) \/ RequestEdit(i) \/ EndEdit(i) \/ NextHop(i)
      PROVE  Placed'
  <2>1. UNCHANGED <<at, step, approved, batch>>
    BY <1>3 DEF StartSubagent, RequestEdit, EndEdit, NextHop
  <2>2. \A j \in Index : j # i => unit'[j] = unit[j]
    BY <1>0, <1>3 DEF StartSubagent, RequestEdit, EndEdit, NextHop, Ask
  <2>3. \A j \in Index : j \in leases => j \in leases'
    BY <1>3 DEF StartSubagent, RequestEdit, EndEdit, NextHop
  <2>4. CASE unit' = unit
    BY <1>0, <2>1, <2>3, <2>4 DEF Placed, Approved, Batch
  <2>5. CASE unit' # unit
    <3>1. unit'[i] \in {"running", "asking"} => i \in leases'
      BY <1>0, <1>3, <2>5 DEF StartSubagent, RequestEdit, EndEdit, NextHop, Ask, Leased
    <3>2. QED
      BY <1>2, <2>1, <2>2, <2>3, <3>1
  <2>6. QED
    BY <2>4, <2>5
<1>4. ASSUME NEW i \in Index, NEW said \in Answers, HearAnswer(i, said)
      PROVE  Placed'
  BY <1>0, <1>2, <1>4 DEF HearAnswer
<1>5. ASSUME NEW i \in Index, NEW status \in Statuses, EndSubagent(i, status) \/ EndTool(i, status)
      PROVE  Placed'
  BY <1>0, <1>2, <1>5 DEF EndSubagent, EndTool
\* the steps of validation
<1>6. ASSUME NEW i \in Index, at \in {"validate", "inline"}, step = i, UNCHANGED leases,
             at' \in {"validate", "inline", "done"},
             \A j \in Index : j # i => unit'[j] = unit[j],
             unit'[i] # "running", unit'[i] = "asking" => at' = "validate" /\ step' = i
      PROVE  Placed'
  BY <1>0, <1>6 DEF Placed
<1>7. ASSUME NEW i \in Index, \/ StopValidating(i) \/ AnswerDirectly(i) \/ CollectDelegate(i)
                              \/ StartInline(i) \/ EndInline(i)
      PROVE  Placed'
  <2>1. /\ at \in {"validate", "inline"} /\ step = i /\ UNCHANGED leases
        /\ at' \in {"validate", "inline", "done"}
    BY <1>7 DEF StopValidating, AnswerDirectly, CollectDelegate, StartInline, EndInline, Validating
  <2>2. /\ unit'[i] \in {"none", "ended"}
        /\ \A j \in Index : j # i => unit'[j] = unit[j]
    BY <1>0, <1>7 DEF StopValidating, AnswerDirectly, CollectDelegate, StartInline, EndInline,
                      Validating
  <2>3. QED
    BY <1>6, <2>1, <2>2
<1>8. ASSUME NEW i \in Index, Judge(i)
      PROVE  Placed'
  <2>1. at = "validate" /\ step = i /\ UNCHANGED <<at, leases>> /\ unit[i] = "none"
    BY <1>8 DEF Judge, Validating
  <2>2. UNCHANGED unit \/ (Ask(i) /\ UNCHANGED step)
    BY <1>8 DEF Judge
  <2>3. QED
    BY <1>0, <1>6, <2>1, <2>2 DEF Ask
<1>9. ASSUME NEW i \in Index, NEW said \in Answers, Conclude(i, said)
      PROVE  Placed'
  <2>1. /\ at = "validate" /\ step = i /\ UNCHANGED leases /\ at' \in {"validate", "done"}
        /\ unit' = [unit EXCEPT ![i] = "none"]
    BY <1>9 DEF Conclude
  <2>2. QED
    BY <1>0, <1>6, <2>1
\* the execution
<1>10. ASSUME NEW i \in Index, StartRead(i)
       PROVE  Placed'
  <2>1. /\ i \in Approved /\ unit[i] = "queued" /\ UNCHANGED <<at, step, approved, batch, leases>>
        /\ \A j \in Index : j # i => unit'[j] = unit[j]
        /\ unit'[i] # "asking"
    BY <1>0, <1>10 DEF StartRead, RunTool
  <2>2. at = "joined" \/ (at = "reading" /\ i \in Batch)
    BY <1>0, <2>1 DEF Leased, Shape
  <2>3. Approved' = Approved /\ Batch' = Batch
    BY <2>1 DEF Approved, Batch
  <2>4. QED
    BY <1>0, <2>1, <2>2, <2>3 DEF Placed
<1>11. ASSUME at \in {"serial", "flush", "folding", "done"} \/ (at = "reading" /\ AllEnded(Batch)),
              UNCHANGED leases,
              \A j \in Index : unit'[j] = unit[j] \/ unit'[j] \notin {"running", "asking"}
       PROVE  Placed'
  BY <1>0, <1>11 DEF Placed, AllEnded
<1>12. CASE EndReading \/ EndFold \/ FoldRead \/ Walk \/ EndWalk \/ Commit
  BY <1>11, <1>12 DEF EndReading, EndFold, FoldRead, Walk, EndWalk, Commit
<1>13. CASE Flush
  BY <1>11, <1>13 DEF Flush, Queued
<1>14. CASE Dispatch
  <2>1. /\ at = "validate" /\ step \notin Index /\ UNCHANGED leases
        /\ \A j \in Index : unit'[j] = unit[j] \/ unit'[j] = "queued"
    BY <1>0, <1>14 DEF Dispatch, Queued, Shape
  <2>2. QED
    BY <1>0, <2>1 DEF Placed
<1>15. CASE EndDelegating
  <2>1. /\ (at = "joined" /\ AllEnded(Approved)) \/ at = "delegating"
        /\ UNCHANGED <<unit, leases>>
    BY <1>15 DEF EndDelegating
  <2>2. QED
    BY <1>0, <2>1 DEF Placed, AllEnded
<1>16. CASE RunEdit
  <2>1. /\ at = "edit" /\ step \in DOMAIN approved /\ UNCHANGED <<leases, approved>>
        /\ approved[step] \in Approved /\ approved[step] \in Index
    BY <1>0, <1>16 DEF RunEdit, Sorted
  <2>2. CASE RunTool(approved[step]) /\ UNCHANGED <<at, step>>
    <3>1. \A j \in Index : j # approved[step] => unit'[j] = unit[j]
      BY <1>0, <2>1, <2>2 DEF RunTool
    <3>2. unit'[approved[step]] # "asking" /\ Approved' = Approved
      BY <1>0, <2>1, <2>2 DEF RunTool, Approved
    <3>3. QED
      BY <1>0, <2>1, <2>2, <3>1, <3>2 DEF Placed
  <2>3. CASE unit[approved[step]] \in {"none", "ended"} /\ UNCHANGED unit
    BY <1>0, <2>1, <2>3 DEF Placed
  <2>4. QED
    BY <1>16, <2>2, <2>3 DEF RunEdit
<1>17. QED
  BY <1>1, <1>3, <1>4, <1>5, <1>7, <1>8, <1>9, <1>10, <1>12, <1>13, <1>14, <1>15, <1>16
     DEF Next, Agent, User, Call, Interrupt, Toggle, Decide, Show, EndLeftOver

-----------------------------------------------------------------------------
(* Edits and what is around them. *)
LEMMA BehindNext ==
    ASSUME LInv, Known, Rising, Ahead, Along, Placed, Behind, Ahead', Next
    PROVE  Behind'
<1>0. /\ Shape /\ Sorted /\ calls' = calls /\ Index' = Index
      /\ \A i : KindOf(i)' = KindOf(i)
  BY Shapely, Steady, SameIndex DEF LInv, TInv
<1>1. \A k, m \in DOMAIN approved : approved[k] = approved[m] => k = m
  BY <1>0, Distinct
<1>2. /\ step \in Nat
      /\ \A m \in DOMAIN approved : /\ m \in Nat /\ approved[m] \in Approved /\ approved[m] \in Index
                                    /\ KindOf(approved[m]) \in {"read", "edit"}
      /\ \A j \in Batch : j \in Approved /\ j \in Index /\ KindOf(j) = "read"
  BY <1>0 DEF Shape
\* before the execution of the calls nothing approved has begun
<1>3. ASSUME at' \in {"validate", "inline", "delegating"}
      PROVE  Behind'
  <2>1. \A k \in DOMAIN approved' : unit'[approved'[k]] = "none"
    BY <1>3 DEF Ahead, Approved
  <2>2. QED
    BY <2>1 DEF Behind
<1>4. ASSUME at' = "joined"
      PROVE  Behind'
  <2>1. \A k \in DOMAIN approved' : KindOf(approved'[k]) = "read"
    BY <1>0, <1>4 DEF Ahead, OnlyReads, Approved
  <2>2. \A k \in DOMAIN approved' : KindOf(approved'[k]) # "edit"
    BY <2>1
  <2>3. QED
    BY <1>0, <2>2 DEF Behind
\* a result more, or none
<1>5. ASSUME UNCHANGED approved, \A j \in Approved : unit'[j] = unit[j],
             \A j \in Approved : Has(j) => results'[j] # "none"
      PROVE  Behind'
  BY <1>0, <1>2, <1>5 DEF Behind, Has, Fresh
<1>6. CASE Rests
  BY <1>2, <1>5, <1>6 DEF Rests, Has
<1>7. ASSUME NEW i \in Index, Settles(i)
      PROVE  Behind'
  <2>1. \A j \in Index : Has(j) => results'[j] # "none"
    BY <1>0, <1>7 DEF Settles, Has, Shape
  <2>2. QED
    BY <1>0, <1>5, <1>7, <2>1 DEF Settles, Shape
<1>8. ASSUME NEW i \in Index, Approves(i) \/ CollectDelegate(i) \/ StartInline(i) \/ EndInline(i)
      PROVE  Behind'
  BY <1>3, <1>8 DEF Approves, CollectDelegate, StartInline, EndInline, Validating
\* a read runs or a tool ends
<1>9. ASSUME at = "reading" \/ at = "flush", ~cancelled \/ at = "reading",
             NEW m \in DOMAIN approved, m < step, NEW k \in DOMAIN approved, k < m,
             KindOf(approved[k]) = "edit"
      PROVE  Has(approved[k])
  <2>1. k < step /\ approved[k] \notin Batch
    BY <1>2, <1>9
  <2>2. QED
    BY <1>9, <2>1 DEF Along, Walks
<1>10. ASSUME NEW i \in Index, StartRead(i)
       PROVE  Behind'
  <2>1. /\ i \in Approved /\ unit[i] = "queued" /\ UNCHANGED <<at, approved, results>>
        /\ \A j \in Index : j # i => unit'[j] = unit[j]
    BY <1>0, <1>10 DEF StartRead, RunTool, Shape
  <2>2. at = "joined" \/ (at = "reading" /\ i \in Batch)
    BY <1>0, <2>1 DEF LInv, Leased, Shape
  <2>3. CASE at = "reading" /\ i \in Batch
    <3>1. PICK n \in DOMAIN approved : n < step /\ i = approved[n]
      BY <2>3 DEF Along, Walks, Batch
    <3>2. ASSUME NEW k \in DOMAIN approved, KindOf(approved[k]) = "edit"
          PROVE  /\ unit'[approved[k]] = unit[approved[k]]
                 /\ Fresh(approved[k]) => ~(n > k)
      <4>1. approved[k] # i /\ approved[k] \in Index
        BY <1>2, <2>3, <3>2
      <4>2. n > k => Has(approved[k])
        BY <1>2, <1>9, <2>3, <3>1, <3>2
      <4>3. QED
        BY <2>1, <4>1, <4>2 DEF Fresh, Has
    <3>3. \A m \in DOMAIN approved : m # n => unit'[approved[m]] = unit[approved[m]]
      BY <1>1, <1>2, <2>1, <3>1
    <3>4. ASSUME NEW k \in DOMAIN approved, KindOf(approved[k]) = "edit"
          PROVE  /\ unit'[approved[k]] # "none" => \A m \in DOMAIN approved : m < k => Has(approved[m])
                 /\ unit'[approved[k]] \in {"none", "running"} /\ Fresh(approved[k]) =>
                        \A m \in DOMAIN approved : m > k => unit'[approved[m]] = "none"
      BY <3>2, <3>3, <3>4 DEF Behind
    <3>5. QED
      BY <1>0, <2>1, <3>4 DEF Behind, Has, Fresh
  <2>4. QED
    BY <1>4, <2>1, <2>2, <2>3
<1>11. ASSUME NEW i \in Index, NEW status \in Statuses, EndTool(i, status)
       PROVE  Behind'
  <2>1. /\ i \in Approved /\ unit[i] = "running" /\ UNCHANGED <<approved, results>>
        /\ unit'[i] = "ended" /\ \A j \in Index : j # i => unit'[j] = unit[j]
    BY <1>0, <1>11 DEF EndTool, Shape
  <2>2. ASSUME NEW k \in DOMAIN approved, KindOf(approved[k]) = "edit"
        PROVE  /\ unit'[approved[k]] # "none" => \A m \in DOMAIN approved : m < k => Has(approved[m])
               /\ unit'[approved[k]] \in {"none", "running"} /\ Fresh(approved[k]) =>
                      \A m \in DOMAIN approved : m > k => unit'[approved[m]] = "none"
    <3>1. /\ unit'[approved[k]] # "none" => unit[approved[k]] # "none"
          /\ unit'[approved[k]] \in {"none", "running"} => unit[approved[k]] \in {"none", "running"}
      BY <1>2, <2>1
    <3>2. \A m \in DOMAIN approved : unit[approved[m]] = "none" => unit'[approved[m]] = "none"
      BY <1>2, <2>1
    <3>3. QED
      BY <2>2, <3>1, <3>2 DEF Behind
  <2>3. QED
    BY <1>0, <2>1, <2>2 DEF Behind, Has, Fresh
\* the loop
<1>12. CASE Dispatch
  <2>1. CASE at' = "serial" /\ UNCHANGED <<approved, unit>>
    <3>1. \A k \in DOMAIN approved : unit[approved[k]] = "none"
      BY <1>2, <1>12 DEF Dispatch, Ahead
    <3>2. QED
      BY <2>1, <3>1 DEF Behind
  <2>2. QED
    BY <1>3, <1>4, <1>12, <2>1 DEF Dispatch
<1>13. CASE EndDelegating
  <2>1. UNCHANGED <<approved, unit>> /\ \A j \in Approved : results'[j] = results[j]
    BY <1>0, <1>13 DEF EndDelegating, Shape
  <2>2. QED
    BY <1>5, <2>1 DEF Has
<1>14. CASE EndReading \/ EndFold \/ EndWalk \/ Commit
  BY <1>5, <1>14 DEF EndReading, EndFold, EndWalk, Commit, Has
<1>15. ASSUME NEW i \in Index, NEW r, r # "none", results' = [results EXCEPT ![i] = r],
              UNCHANGED <<approved, unit>>
       PROVE  Behind'
  <2>1. \A j \in Index : Has(j) => results'[j] # "none"
    BY <1>0, <1>15 DEF Has, Shape
  <2>2. QED
    BY <1>0, <1>5, <1>15, <2>1 DEF Shape
<1>16. CASE FoldRead
  <2>1. /\ at = "folding" /\ batch # <<>> /\ UNCHANGED <<approved, unit>>
        /\ results' = [results EXCEPT ![Head(batch)] =
                           IF OverBudget(billed) THEN "denied" ELSE outcome[Head(batch)]]
    BY <1>16 DEF FoldRead
  <2>2. Head(batch) \in Batch
    <3>1. 1 \in DOMAIN batch /\ batch[1] = Head(batch)
      BY <1>0, <2>1 DEF Shape
    <3>2. QED
      BY <3>1 DEF Batch
  <2>3. Head(batch) \in Index /\ ~Inline(Head(batch)) /\ unit[Head(batch)] = "ended"
    BY <1>0, <2>1, <2>2 DEF Along, Walks, AllEnded, Shape
  <2>4. outcome[Head(batch)] # "none"
    BY <2>3 DEF Known
  <2>5. QED
    BY <1>15, <2>1, <2>3, <2>4
<1>17. CASE Walk
  <2>1. step \in DOMAIN approved /\ approved[step] \in Index /\ UNCHANGED <<approved, unit>>
    BY <1>2, <1>17 DEF Walk
  <2>2. \/ UNCHANGED results
        \/ \E r \in {"cancelled", "denied"} : results' = [results EXCEPT ![approved[step]] = r]
    BY <1>17 DEF Walk, Settled
  <2>3. QED
    BY <1>5, <1>15, <2>1, <2>2 DEF Has
<1>18. CASE Flush
  <2>1. CASE UNCHANGED <<approved, unit>>
             /\ results' = [i \in Index |-> IF i \in Batch THEN "cancelled" ELSE results[i]]
    <3>1. \A j \in Index : Has(j) => results'[j] # "none"
      BY <2>1 DEF Has
    <3>2. QED
      BY <1>0, <1>5, <2>1, <3>1 DEF Shape
  <2>2. CASE /\ at = "flush" /\ ~cancelled /\ UNCHANGED <<approved, results>>
             /\ unit' = [i \in Index |-> IF i \in Batch THEN "queued" ELSE unit[i]]
    <3>1. \A j \in Batch : \E n \in DOMAIN approved : n < step /\ j = approved[n]
      BY <2>2 DEF Along, Walks, Batch
    <3>2. ASSUME NEW k \in DOMAIN approved, KindOf(approved[k]) = "edit", Fresh(approved[k]),
                 NEW m \in DOMAIN approved, m > k
          PROVE  approved[m] \notin Batch
      <4>1. ASSUME approved[m] \in Batch PROVE m < step
        BY <1>1, <3>1, <4>1
      <4>2. m < step => Has(approved[k])
        BY <1>2, <1>9, <2>2, <3>2
      <4>3. QED
        BY <3>2, <4>1, <4>2 DEF Fresh, Has
    <3>3. ASSUME NEW k \in DOMAIN approved, KindOf(approved[k]) = "edit"
          PROVE  unit'[approved[k]] = unit[approved[k]]
      BY <1>2, <2>2, <3>3
    <3>4. ASSUME NEW k \in DOMAIN approved, KindOf(approved[k]) = "edit"
          PROVE  /\ unit'[approved[k]] # "none" => \A m \in DOMAIN approved : m < k => Has(approved[m])
                 /\ unit'[approved[k]] \in {"none", "running"} /\ Fresh(approved[k]) =>
                        \A m \in DOMAIN approved : m > k => unit'[approved[m]] = "none"
      <4>1. unit'[approved[k]] # "none" => \A m \in DOMAIN approved : m < k => Has(approved[m])
        BY <3>3, <3>4 DEF Behind
      <4>2. ASSUME unit'[approved[k]] \in {"none", "running"}, Fresh(approved[k]),
                   NEW m \in DOMAIN approved, m > k
            PROVE  unit'[approved[m]] = "none"
        <5>1. approved[m] \notin Batch /\ approved[m] \in Index
          BY <1>2, <3>2, <3>4, <4>2
        <5>2. unit[approved[m]] = "none"
          BY <3>3, <3>4, <4>2 DEF Behind
        <5>3. QED
          BY <2>2, <5>1, <5>2
      <4>3. QED
        BY <4>1, <4>2
    <3>5. QED
      BY <1>0, <2>2, <3>4 DEF Behind, Has, Fresh
  <2>3. QED
    BY <1>18, <2>1, <2>2 DEF Flush, Queued
<1>19. CASE RunEdit
  <2>1. /\ at = "edit" /\ step \in DOMAIN approved /\ UNCHANGED approved
        /\ approved[step] \in Index /\ ~Inline(approved[step]) /\ batch = <<>> /\ Batch = {}
    <3>1. at = "edit" /\ step \in DOMAIN approved /\ UNCHANGED approved /\ batch = <<>>
      BY <1>0, <1>19 DEF RunEdit, Sorted
    <3>2. Batch = {}
      BY <3>1 DEF Batch
    <3>3. QED
      BY <1>0, <3>1, <3>2 DEF Shape
  <2>2. CASE RunTool(approved[step]) /\ UNCHANGED results
    <3>1. \A j \in Index : j # approved[step] => unit'[j] = unit[j]
      BY <1>0, <2>2 DEF RunTool, Shape
    <3>2. \A m \in DOMAIN approved : /\ m < step => Has(approved[m])
                                     /\ m > step => unit[approved[m]] = "none"
                                     /\ m # step => unit'[approved[m]] = unit[approved[m]]
      BY <1>1, <1>2, <2>1, <3>1 DEF Along, Walks
    <3>3. ASSUME NEW k \in DOMAIN approved, KindOf(approved[k]) = "edit"
          PROVE  /\ unit'[approved[k]] # "none" => \A m \in DOMAIN approved : m < k => Has(approved[m])
                 /\ unit'[approved[k]] \in {"none", "running"} /\ Fresh(approved[k]) =>
                        \A m \in DOMAIN approved : m > k => unit'[approved[m]] = "none"
      <4>1. CASE k < step
        BY <1>2, <3>2, <3>3, <4>1 DEF Behind, Fresh, Has
      <4>2. CASE k = step
        BY <1>2, <3>2, <4>2
      <4>3. CASE k > step
        <5>1. unit'[approved[k]] = "none"
          BY <1>2, <3>2, <4>3
        <5>2. \A m \in DOMAIN approved : m > k => m > step
          BY <1>2, <4>3
        <5>3. \A m \in DOMAIN approved : m > step => unit'[approved[m]] = "none"
          BY <1>2, <3>2
        <5>4. QED
          BY <5>1, <5>2, <5>3
      <4>4. QED
        BY <1>2, <4>1, <4>2, <4>3
    <3>4. QED
      BY <1>0, <2>1, <2>2, <3>3 DEF Behind, Has, Fresh
  <2>3. unit[approved[step]] = "ended" => outcome[approved[step]] # "none"
    BY <2>1 DEF Known
  <2>5. CASE results' = [results EXCEPT ![approved[step]] = "denied"] /\ UNCHANGED unit
    BY <1>15, <2>1, <2>5
  <2>6. CASE unit[approved[step]] = "ended" /\ UNCHANGED unit
             /\ results' = [results EXCEPT ![approved[step]] = outcome[approved[step]]]
    BY <1>15, <2>1, <2>3, <2>6
  <2>7. QED
    BY <1>19, <2>2, <2>5, <2>6 DEF RunEdit
<1>20. QED
  BY <1>6, <1>7, <1>8, <1>10, <1>11, <1>12, <1>13, <1>14, <1>16, <1>17, <1>18, <1>19, Effects
     DEF Loops

-----------------------------------------------------------------------------
(* The cards. *)

\* The ways a step treats a card: it leaves it, closes it, or opens it.
LEMMA CardKept ==
    ASSUME NEW i, Card(i), UNCHANGED <<started[i], completed[i]>>,
           Unclosed(i)' => Unclosed(i), Opened(i) => Opened(i)'
    PROVE  Card(i)'
BY DEF Card

LEMMA CardClosed ==
    ASSUME NEW i, Card(i), started[i] \in Nat, Unclosed(i), ~Unclosed(i)',
           started'[i] = started[i], completed'[i] = completed[i] + 1
    PROVE  Card(i)'
BY DEF Card

LEMMA CardOpened ==
    ASSUME NEW i, Card(i), started[i] \in Nat, Unclosed(i), ~Opened(i), Opened(i)',
           started'[i] = started[i] + 1, completed'[i] = completed[i]
    PROVE  Card(i)'
BY DEF Card

LEMMA CardsNext ==
    ASSUME LInv, Known, Rising, Ahead, Along, Placed, Cards, Next
    PROVE  Cards'
<1>0. /\ Shape /\ Sorted /\ calls' = calls /\ Index' = Index
  BY Shapely, Steady, SameIndex DEF LInv, TInv
<1>1. /\ step \in Nat
      /\ \A j \in Approved : j \in Index /\ j \notin delegated /\ ~Inline(j)
      /\ \A j \in Batch : j \in Approved
      /\ \A j \in Index : j \in Nat /\ started[j] \in Nat /\ completed[j] \in Nat
      /\ \A k \in DOMAIN approved : approved[k] \in Approved
      /\ unit \in [Index -> Busy \cup {"none", "ended"}]
      /\ results \in [Index -> Statuses \cup {"none", "denied"}]
      /\ started \in [Index -> Nat] /\ completed \in [Index -> Nat]
  <2>1. \A j \in Index : j \in Nat
    BY <1>0 DEF Shape
  <2>2. /\ started \in [Index -> Nat] /\ completed \in [Index -> Nat]
        /\ \A j \in Index : started[j] \in Nat /\ completed[j] \in Nat
    BY <1>0 DEF Shape
  <2>3. QED
    BY <1>0, <2>1, <2>2 DEF Shape
<1>2. at \in {"validate", "inline"} =>
          /\ \A j \in Approved : unit[j] = "none" /\ Fresh(j) /\ j < step
          /\ \A j \in delegated : j < step
          /\ \A j \in Index : j >= step => Fresh(j)
  BY DEF Ahead
<1>3. Index' = Index /\ \A j \in Index : Card(j)
  BY <1>0 DEF Cards
<1>4. CASE Rests
  <2>1. Approved' = Approved
    BY <1>4 DEF Rests, Approved
  <2>2. ASSUME NEW j \in Index PROVE Card(j)'
    <3>1. Unclosed(j)' => Unclosed(j)
      BY <1>4, <2>1 DEF Rests, Unclosed, Fresh
    <3>2. Opened(j) => Opened(j)'
      BY <1>4, <2>1 DEF Rests, Opened
    <3>3. QED
      BY <1>3, <1>4, <3>1, <3>2, CardKept DEF Rests
  <2>3. QED
    BY <1>3, <2>2 DEF Cards
<1>5. ASSUME NEW i \in Index, Settles(i)
      PROVE  Cards'
  <2>1. Approved' = Approved /\ i \notin Approved /\ i \notin delegated
    BY <1>1, <1>2, <1>5 DEF Settles, Approved
  <2>2. ASSUME NEW j \in Index PROVE Card(j)'
    <3>1. Opened(j) => Opened(j)'
      BY <1>2, <1>5 DEF Settles, Opened
    <3>2. CASE j # i
      <4>1. UNCHANGED <<started[j], completed[j], results[j]>>
        BY <1>1, <1>5, <3>2 DEF Settles
      <4>2. Unclosed(j)' => Unclosed(j)
        BY <1>1, <1>5, <2>1, <4>1 DEF Settles, Unclosed, Fresh
      <4>3. QED
        BY <1>3, <3>1, <4>1, <4>2, CardKept
    <3>3. CASE j = i
      <4>1. Unclosed(i) /\ ~Unclosed(i)'
        BY <1>1, <1>5, <2>1 DEF Settles, Unclosed
      <4>2. started'[i] = started[i] /\ (UNCHANGED completed \/ completed'[i] = completed[i] + 1)
        BY <1>1, <1>5 DEF Settles
      <4>3. QED
        BY <1>1, <1>3, <3>1, <3>3, <4>1, <4>2, CardKept, CardClosed
    <3>4. QED
      BY <3>2, <3>3
  <2>3. QED
    BY <1>3, <2>2 DEF Cards
<1>6. ASSUME NEW i \in Index, Approves(i)
      PROVE  Cards'
  <2>1. \A j \in Approved' : j \in Approved \/ j = i
    <3>1. /\ DOMAIN approved' = 1..Len(approved) + 1 /\ approved'[Len(approved) + 1] = i
          /\ \A k \in DOMAIN approved : approved'[k] = approved[k]
      BY <1>0, <1>6, Appended DEF Shape, Approves
    <3>2. \A k \in DOMAIN approved' : k \in DOMAIN approved \/ k = Len(approved) + 1
      BY <1>0, <3>1 DEF Shape
    <3>3. QED
      BY <3>1, <3>2 DEF Approved
  <2>2. ASSUME NEW j \in Index PROVE Card(j)'
    <3>1. Unclosed(j)' => Unclosed(j)
      BY <1>1, <1>6, <2>1 DEF Approves, Unclosed, Fresh
    <3>2. ~Opened(j)
      BY <1>2, <1>6 DEF Approves, Opened
    <3>3. QED
      BY <1>3, <1>6, <3>1, <3>2, CardKept DEF Approves
  <2>3. QED
    BY <1>3, <2>2 DEF Cards
<1>7. ASSUME NEW i \in Index, CollectDelegate(i)
      PROVE  Cards'
  <2>1. Approved' = Approved /\ at = "validate" /\ step = i
    BY <1>7 DEF CollectDelegate, Validating, Approved
  <2>2. ASSUME NEW j \in Index PROVE Card(j)'
    <3>1. Unclosed(j)' => Unclosed(j)
      BY <1>1, <1>7, <2>1 DEF CollectDelegate, Unclosed, Fresh
    <3>2. ~Opened(j)
      BY <1>2, <2>1 DEF Opened
    <3>3. QED
      BY <1>3, <1>7, <3>1, <3>2, CardKept DEF CollectDelegate
  <2>3. QED
    BY <1>3, <2>2 DEF Cards
<1>8. ASSUME NEW i \in Index, StartInline(i)
      PROVE  Cards'
  <2>1. /\ Approved' = Approved /\ at = "validate" /\ step = i /\ at' = "inline"
        /\ UNCHANGED <<step, delegated, unit, results, completed>>
        /\ started' = [started EXCEPT ![i] = @ + 1]
    BY <1>8 DEF StartInline, Validating, Approved
  <2>2. ASSUME NEW j \in Index PROVE Card(j)'
    <3>1. (Unclosed(j)' => Unclosed(j)) /\ ~Opened(j)
      BY <1>2, <2>1 DEF Unclosed, Fresh, Opened
    <3>2. CASE j # i
      BY <1>1, <1>3, <2>1, <3>1, <3>2, CardKept
    <3>3. CASE j = i
      <4>1. Unclosed(i) /\ Opened(i)'
        BY <1>1, <2>1 DEF Unclosed, Opened
      <4>2. started'[i] = started[i] + 1 /\ completed'[i] = completed[i]
        BY <1>1, <2>1
      <4>3. QED
        BY <1>1, <1>3, <3>1, <3>3, <4>1, <4>2, CardOpened
    <3>4. QED
      BY <3>2, <3>3
  <2>3. QED
    BY <1>3, <2>2 DEF Cards
<1>9. ASSUME NEW i \in Index, EndInline(i)
      PROVE  Cards'
  <2>1. /\ Approved' = Approved /\ at = "inline" /\ step = i /\ at' = "validate" /\ step' = step + 1
        /\ UNCHANGED <<delegated, started>>
        /\ completed' = [completed EXCEPT ![i] = @ + 1]
        /\ \A j \in Index : j # i => unit'[j] = unit[j] /\ results'[j] = results[j]
    BY <1>1, <1>9 DEF EndInline, Settled, Approved
  <2>2. i \notin Approved /\ i \notin delegated
    BY <1>1, <1>2, <2>1
  <2>3. ASSUME NEW j \in Index PROVE Card(j)'
    <3>1. CASE j # i
      <4>1. (Unclosed(j)' => Unclosed(j)) /\ ~Opened(j)
        BY <1>1, <1>2, <2>1, <3>1 DEF Unclosed, Opened, Fresh
      <4>2. QED
        BY <1>1, <1>3, <2>1, <3>1, <4>1, CardKept
    <3>2. CASE j = i
      <4>1. Unclosed(i) /\ ~Unclosed(i)'
        BY <1>1, <2>1, <2>2 DEF Unclosed
      <4>2. started'[i] = started[i] /\ completed'[i] = completed[i] + 1
        BY <1>1, <2>1
      <4>3. QED
        BY <1>1, <1>3, <3>2, <4>1, <4>2, CardClosed
    <3>3. QED
      BY <3>1, <3>2
  <2>4. QED
    BY <1>3, <2>3 DEF Cards
\* a tool starts, is stopped before it, or ends
<1>10. ASSUME NEW i \in Approved, UNCHANGED <<at, step, delegated, approved, results>>,
              unit[i] \in {"queued", "running"} \/ (unit[i] = "none" /\ Fresh(i)),
              \A j \in Index : j # i => UNCHANGED <<unit[j], started[j], completed[j]>>,
              \/ /\ unit[i] # "running" /\ unit'[i] = "running"
                 /\ started'[i] = started[i] + 1 /\ completed'[i] = completed[i]
              \/ /\ unit'[i] = "ended"
                 /\ started'[i] = started[i] /\ completed'[i] = completed[i] + 1
       PROVE  Cards'
  <2>1. Approved' = Approved
    BY <1>10 DEF Approved
  <2>2. ASSUME NEW j \in Index, j # i PROVE Card(j)'
    <3>1. Unclosed(j)' => Unclosed(j)
      BY <1>10, <2>1, <2>2 DEF Unclosed, Fresh
    <3>2. Opened(j) => Opened(j)'
      BY <1>10, <2>1, <2>2 DEF Opened
    <3>3. QED
      BY <1>3, <1>10, <2>2, <3>1, <3>2, CardKept
  <2>3. Card(i)'
    <3>1. Unclosed(i) /\ i \in Index /\ i \notin delegated
      BY <1>1, <1>10 DEF Unclosed
    <3>2. at \notin {"validate", "inline"} \/ unit[i] = "none"
      BY <1>2, <1>10
    <3>3. CASE unit'[i] = "running" /\ unit[i] # "running"
      <4>1. Opened(i)'
        BY <1>10, <2>1, <3>3 DEF Opened
      <4>2. ~Opened(i)
        BY <1>0, <1>1, <1>10, <3>1, <3>3 DEF Opened, Sorted
      <4>3. QED
        BY <1>1, <1>3, <1>10, <3>1, <3>3, <4>1, <4>2, CardOpened
    <3>4. CASE unit'[i] = "ended"
      <4>1. ~Unclosed(i)'
        BY <1>1, <1>2, <1>10, <2>1, <3>1, <3>4 DEF Unclosed
      <4>2. QED
        BY <1>1, <1>3, <1>10, <3>1, <3>4, <4>1, CardClosed
    <3>5. QED
      BY <1>10, <3>3, <3>4
  <2>4. QED
    BY <1>3, <2>2, <2>3 DEF Cards
<1>11. ASSUME NEW i \in Index, StartRead(i)
       PROVE  Cards'
  <2>1. /\ i \in Approved /\ unit[i] = "queued"
        /\ UNCHANGED <<at, step, delegated, approved, results>> /\ RunTool(i)
    BY <1>11 DEF StartRead
  <2>2. /\ \A j \in Index : j # i => UNCHANGED <<unit[j], started[j], completed[j]>>
        /\ \/ /\ unit'[i] = "running"
              /\ started'[i] = started[i] + 1 /\ completed'[i] = completed[i]
           \/ /\ unit'[i] = "ended"
              /\ started'[i] = started[i] /\ completed'[i] = completed[i] + 1
    BY <1>1, <2>1 DEF RunTool
  <2>3. QED
    BY <1>10, <2>1, <2>2
<1>12. ASSUME NEW i \in Index, NEW status \in Statuses, EndTool(i, status)
       PROVE  Cards'
  <2>1. /\ i \in Approved /\ unit[i] = "running"
        /\ UNCHANGED <<at, step, delegated, approved, results>>
    BY <1>12 DEF EndTool
  <2>2. /\ \A j \in Index : j # i => UNCHANGED <<unit[j], started[j], completed[j]>>
        /\ unit'[i] = "ended" /\ started'[i] = started[i] /\ completed'[i] = completed[i] + 1
    BY <1>1, <1>12 DEF EndTool
  <2>3. QED
    BY <1>10, <2>1, <2>2
\* the loop
<1>13. CASE Dispatch
  <2>1. /\ at = "validate" /\ step = Len(calls) + 1 /\ Approved' = Approved
        /\ UNCHANGED <<delegated, results, completed>> /\ started' = Once(started, delegated)
        /\ \/ delegated = {} /\ at' = "serial" /\ UNCHANGED unit
           \/ at' = "joined" /\ Queued(delegated \cup Approved)
           \/ at' = "delegating" /\ Queued(delegated)
    BY <1>13 DEF Dispatch, Approved
  <2>2. ASSUME NEW j \in Index PROVE Card(j)'
    <3>1. j \in Approved => Unclosed(j) /\ unit[j] = "none"
      BY <1>2, <2>1 DEF Unclosed
    <3>2. ~Opened(j)
      BY <2>1, <3>1 DEF Opened
    <3>3. CASE j \in delegated
      <4>1. Unclosed(j) /\ Opened(j)' /\ started'[j] = started[j] + 1
        BY <1>1, <2>1, <3>3 DEF Unclosed, Opened, Once
      <4>2. QED
        BY <1>1, <1>3, <2>1, <3>2, <4>1, CardOpened
    <3>4. CASE j \notin delegated
      <4>1. started'[j] = started[j]
        BY <1>1, <2>1, <3>4 DEF Once
      <4>2. Unclosed(j)' => Unclosed(j)
        BY <2>1, <3>1, <3>4 DEF Unclosed
      <4>3. QED
        BY <1>3, <2>1, <3>2, <4>1, <4>2, CardKept
    <3>5. QED
      BY <3>3, <3>4
  <2>3. QED
    BY <1>3, <2>2 DEF Cards
<1>14. CASE EndDelegating
  <2>1. /\ at \in {"joined", "delegating"} /\ at' \in {"folding", "serial"}
        /\ UNCHANGED <<step, delegated, approved, unit, started>>
        /\ completed' = Once(completed, delegated)
        /\ \A j \in Index : j \notin delegated => results'[j] = results[j]
    BY <1>1, <1>14 DEF EndDelegating
  <2>2. Approved' = Approved
    BY <2>1 DEF Approved
  <2>3. ASSUME NEW j \in Index PROVE Card(j)'
    <3>1. CASE j \in delegated
      <4>1. Unclosed(j) /\ ~Unclosed(j)' /\ completed'[j] = completed[j] + 1
        BY <1>1, <2>1, <2>2, <3>1 DEF Unclosed, Once
      <4>2. QED
        BY <1>1, <1>3, <2>1, <4>1, CardClosed
    <3>2. CASE j \notin delegated
      <4>1. completed'[j] = completed[j] /\ (Unclosed(j)' => Unclosed(j)) /\ (Opened(j) => Opened(j)')
        BY <1>1, <2>1, <2>2, <3>2 DEF Unclosed, Opened, Once, Fresh
      <4>2. QED
        BY <1>3, <2>1, <4>1, CardKept
    <3>3. QED
      BY <3>1, <3>2
  <2>4. QED
    BY <1>3, <2>3 DEF Cards
\* outside of validation and of the delegates, a result more leaves the cards as they are
<1>15. ASSUME at \notin {"validate", "inline", "joined", "delegating"},
              at' \notin {"validate", "inline", "joined", "delegating"},
              UNCHANGED <<approved, unit, started, completed>>,
              \A j \in Approved : Fresh(j)' => Fresh(j)
       PROVE  Cards'
  <2>1. Approved' = Approved
    BY <1>15 DEF Approved
  <2>2. ASSUME NEW j \in Index PROVE Card(j)'
    <3>1. (Unclosed(j)' => Unclosed(j)) /\ (Opened(j) => Opened(j)')
      BY <1>15, <2>1 DEF Unclosed, Opened
    <3>2. QED
      BY <1>3, <1>15, <3>1, CardKept
  <2>3. QED
    BY <1>3, <2>2 DEF Cards
<1>16. CASE EndReading \/ EndFold \/ EndWalk \/ Commit
  BY <1>15, <1>16 DEF EndReading, EndFold, EndWalk, Commit, AfterFlush, Fresh
<1>17. CASE FoldRead
  <2>1. /\ at = "folding" /\ batch # <<>> /\ UNCHANGED <<at, approved, unit, started, completed>>
        /\ results' = [results EXCEPT ![Head(batch)] =
                           IF OverBudget(billed) THEN "denied" ELSE outcome[Head(batch)]]
    BY <1>17 DEF FoldRead, Announced
  <2>2. Head(batch) \in Batch
    <3>1. 1 \in DOMAIN batch /\ batch[1] = Head(batch)
      BY <1>0, <2>1 DEF Shape
    <3>2. QED
      BY <3>1 DEF Batch
  <2>3. Head(batch) \in Index /\ Fresh(Head(batch))
    <3>1. \A j \in Batch : Fresh(j)
      BY <2>1 DEF Along, Walks, Batch
    <3>2. QED
      BY <1>1, <2>2, <3>1
  <2>4. \A j \in Approved : Fresh(j)' => Fresh(j)
    BY <1>1, <2>1, <2>3 DEF Fresh
  <2>5. QED
    BY <1>15, <2>1, <2>4
\* calls that get a result and their event at once
<1>18. ASSUME NEW set, set \subseteq Approved,
              \A j \in set : unit[j] = "none" /\ Fresh(j) /\ results'[j] # "none"
                             /\ completed'[j] = completed[j] + 1,
              \A j \in Index : j \notin set => UNCHANGED <<results[j], completed[j]>>,
              at \notin {"validate", "inline", "joined", "delegating"},
              at' \notin {"validate", "inline", "joined", "delegating"},
              UNCHANGED <<approved, unit, started>>
       PROVE  Cards'
  <2>1. Approved' = Approved
    BY <1>18 DEF Approved
  <2>2. ASSUME NEW j \in Index PROVE Card(j)'
    <3>1. CASE j \in set
      <4>1. Unclosed(j) /\ ~Unclosed(j)'
        BY <1>18, <2>1, <3>1 DEF Unclosed, Fresh
      <4>2. QED
        BY <1>1, <1>3, <1>18, <3>1, <4>1, CardClosed
    <3>2. CASE j \notin set
      <4>1. (Unclosed(j)' => Unclosed(j)) /\ (Opened(j) => Opened(j)')
        BY <1>18, <2>1, <3>2 DEF Unclosed, Opened, Fresh
      <4>2. QED
        BY <1>3, <1>18, <3>2, <4>1, CardKept
    <3>3. QED
      BY <3>1, <3>2
  <2>3. QED
    BY <1>3, <2>2 DEF Cards
<1>19. CASE Walk
  <2>1. /\ at = "serial" /\ step \in DOMAIN approved /\ at' \in {"serial", "flush"}
        /\ UNCHANGED <<approved, unit, started>>
    BY <1>19 DEF Walk
  <2>2. approved[step] \in Approved /\ Fresh(approved[step]) /\ unit[approved[step]] = "none"
    BY <1>1, <2>1 DEF Along, Walks
  <2>3. CASE Settled(approved[step], "cancelled")
    <3>1. /\ results'[approved[step]] # "none"
          /\ completed'[approved[step]] = completed[approved[step]] + 1
          /\ \A j \in Index : j # approved[step] => UNCHANGED <<results[j], completed[j]>>
      BY <1>1, <2>2, <2>3 DEF Settled
    <3>2. /\ {approved[step]} \subseteq Approved
          /\ \A j \in {approved[step]} : unit[j] = "none" /\ Fresh(j) /\ results'[j] # "none"
                                         /\ completed'[j] = completed[j] + 1
          /\ \A j \in Index : j \notin {approved[step]} => UNCHANGED <<results[j], completed[j]>>
      BY <2>2, <3>1
    <3>3. QED
      BY <1>18, <2>1, <3>2
  <2>4. CASE UNCHANGED completed
             /\ (UNCHANGED results \/ results' = [results EXCEPT ![approved[step]] = "denied"])
    <3>1. \A j \in Approved : Fresh(j)' => Fresh(j)
      BY <1>1, <2>2, <2>4 DEF Fresh
    <3>2. QED
      BY <1>15, <2>1, <2>4, <3>1
  <2>5. QED
    BY <1>19, <2>3, <2>4 DEF Walk
<1>20. CASE Flush
  <2>1. /\ at = "flush" /\ at' \in {"done", "edit", "reading"}
        /\ UNCHANGED <<delegated, approved, started>>
    BY <1>20 DEF Flush, AfterFlush
  <2>2. \A j \in Batch : j \in Approved /\ Fresh(j) /\ unit[j] = "none"
    <3>1. \A j \in Batch : Fresh(j) /\ unit[j] = "none"
      BY <2>1 DEF Along, Walks, Batch
    <3>2. QED
      BY <1>1, <3>1
  <2>3. CASE /\ results' = [i \in Index |-> IF i \in Batch THEN "cancelled" ELSE results[i]]
             /\ completed' = Once(completed, Batch) /\ UNCHANGED unit
    <3>1. /\ \A j \in Batch : results'[j] # "none" /\ completed'[j] = completed[j] + 1
          /\ \A j \in Index : j \notin Batch => UNCHANGED <<results[j], completed[j]>>
          /\ Batch \subseteq Approved
      BY <1>1, <2>2, <2>3 DEF Once
    <3>2. QED
      BY <1>18, <2>1, <2>2, <2>3, <3>1
  <2>4. CASE Queued(Batch) /\ UNCHANGED <<results, completed>>
    <3>1. Approved' = Approved
      BY <2>1 DEF Approved
    <3>2. ASSUME NEW j \in Index PROVE Card(j)'
      <4>1. Unclosed(j)' => Unclosed(j)
        BY <2>1, <2>2, <2>4, <3>1, <3>2 DEF Unclosed, Fresh, Queued
      <4>2. Opened(j) => Opened(j)'
        BY <2>1, <2>2, <2>4, <3>1, <3>2 DEF Opened, Queued
      <4>3. QED
        BY <1>3, <2>1, <2>4, <4>1, <4>2, CardKept
    <3>3. QED
      BY <1>3, <3>2 DEF Cards
  <2>5. QED
    BY <1>20, <2>3, <2>4 DEF Flush
<1>21. CASE RunEdit
  <2>1. /\ at = "edit" /\ step \in DOMAIN approved /\ UNCHANGED <<delegated, approved>>
        /\ approved[step] \in Approved /\ Fresh(approved[step])
    <3>1. /\ at = "edit" /\ step \in DOMAIN approved /\ UNCHANGED <<delegated, approved>>
      BY <1>0, <1>21 DEF RunEdit, Sorted
    <3>2. QED
      BY <1>1, <3>1 DEF Along, Walks
  <2>2. CASE unit[approved[step]] = "none" /\ RunTool(approved[step]) /\ UNCHANGED <<at, step, results>>
    <3>1. /\ \A j \in Index : j # approved[step] => UNCHANGED <<unit[j], started[j], completed[j]>>
          /\ \/ /\ unit'[approved[step]] = "running"
                /\ started'[approved[step]] = started[approved[step]] + 1
                /\ completed'[approved[step]] = completed[approved[step]]
             \/ /\ unit'[approved[step]] = "ended"
                /\ started'[approved[step]] = started[approved[step]]
                /\ completed'[approved[step]] = completed[approved[step]] + 1
      BY <1>1, <2>1, <2>2 DEF RunTool
    <3>2. QED
      BY <1>10, <2>1, <2>2, <3>1
  <2>3. CASE at' = "serial" /\ UNCHANGED <<unit, started, completed>>
    <3>1. \A j \in Approved : Fresh(j)' => Fresh(j)
      <4>1. \E r : results' = [results EXCEPT ![approved[step]] = r]
        BY <1>21, <2>1, <2>3 DEF RunEdit
      <4>2. QED
        BY <1>1, <2>1, <4>1 DEF Fresh
    <3>2. QED
      BY <1>15, <2>1, <2>3, <3>1
  <2>4. QED
    BY <1>21, <2>2, <2>3 DEF RunEdit
<1>22. QED
  BY <1>4, <1>5, <1>6, <1>7, <1>8, <1>9, <1>11, <1>12, <1>13, <1>14, <1>16, <1>17, <1>19, <1>20,
     <1>21, Effects DEF Loops

-----------------------------------------------------------------------------
(* The bill. *)
LEMMA BilledNext ==
    ASSUME LInv, Rising, Ahead, Along, BilledIsVisible, Next
    PROVE  BilledIsVisible'
<1>0. /\ Shape /\ Sorted /\ calls' = calls /\ Index' = Index
      /\ \A i : KindOf(i)' = KindOf(i)
  BY Shapely, Steady, SameIndex DEF LInv, TInv
<1>1. /\ \A j \in Approved : j \in Index
      /\ \A j \in Batch : j \in Approved /\ KindOf(j) = "read"
      /\ \A k \in DOMAIN approved : approved[k] \in Approved
      /\ results \in [Index -> Statuses \cup {"none", "denied"}]
  BY <1>0 DEF Shape
<1>2. ASSUME UNCHANGED billed, Paid' = Paid PROVE BilledIsVisible'
  BY <1>2 DEF BilledIsVisible
<1>3. ASSUME UNCHANGED billed,
             \A j \in Index : results'[j] = results[j]
                              \/ KindOf(j) # "read" \/ (Fresh(j) /\ results'[j] # "ok")
      PROVE  BilledIsVisible'
  <2>1. ASSUME NEW j \in Index
        PROVE  KindOf(j) = "read" /\ results'[j] = "ok" <=> KindOf(j) = "read" /\ results[j] = "ok"
    BY <1>3 DEF Fresh
  <2>2. Paid' = {j \in Index : KindOf(j) = "read" /\ results'[j] = "ok"}
    BY <1>0 DEF Paid
  <2>3. QED
    BY <1>2, <1>3, <2>1, <2>2 DEF Paid
<1>4. CASE Rests
  BY <1>3, <1>4 DEF Rests
<1>5. ASSUME NEW i \in Index, Settles(i)
      PROVE  BilledIsVisible'
  <2>1. Fresh(i) /\ UNCHANGED billed
    BY <1>0, <1>5 DEF Settles, Ahead, Shape
  <2>2. PICK s \in {"ok", "error", "denied", "cancelled"} :
            results' = [results EXCEPT ![i] = s] /\ (s = "ok" => KindOf(i) # "read")
    BY <1>5 DEF Settles
  <2>3. QED
    BY <1>1, <1>3, <2>1, <2>2
<1>6. ASSUME NEW i \in Index, \/ Approves(i) \/ CollectDelegate(i) \/ StartInline(i) \/ StartRead(i)
                              \/ \E status \in Statuses : EndTool(i, status)
      PROVE  BilledIsVisible'
  BY <1>3, <1>6 DEF Approves, CollectDelegate, StartInline, StartRead, EndTool
<1>7. ASSUME NEW i \in Index, EndInline(i)
      PROVE  BilledIsVisible'
  <2>1. KindOf(i) # "read" /\ UNCHANGED billed
    BY <1>0, <1>7 DEF EndInline, Sorted, Inline
  <2>2. \A j \in Index : j # i => results'[j] = results[j]
    BY <1>1, <1>7 DEF EndInline, Settled
  <2>3. QED
    BY <1>3, <2>1, <2>2
<1>8. CASE Dispatch \/ EndReading \/ EndFold \/ EndWalk \/ Commit
  BY <1>3, <1>8 DEF Dispatch, EndReading, EndFold, EndWalk, Commit
<1>9. CASE EndDelegating
  <2>1. \A j \in delegated : KindOf(j) # "read"
    BY <1>0 DEF Shape, Delegate
  <2>2. UNCHANGED billed /\ \A j \in Index : j \notin delegated => results'[j] = results[j]
    BY <1>9 DEF EndDelegating
  <2>3. QED
    BY <1>3, <2>1, <2>2
<1>10. CASE Walk
  <2>1. at = "serial" /\ step \in DOMAIN approved /\ UNCHANGED billed
    BY <1>10 DEF Walk
  <2>2. approved[step] \in Index /\ Fresh(approved[step])
    <3>1. step \in Nat /\ step >= step
      BY <1>0 DEF Shape
    <3>2. QED
      BY <1>1, <2>1, <3>1 DEF Along, Walks
  <2>3. \/ UNCHANGED results
        \/ results' = [results EXCEPT ![approved[step]] = "cancelled"]
        \/ results' = [results EXCEPT ![approved[step]] = "denied"]
    BY <1>10 DEF Walk, Settled
  <2>4. QED
    BY <1>1, <1>3, <2>1, <2>2, <2>3
<1>11. CASE Flush
  <2>1. at = "flush" /\ UNCHANGED billed
    BY <1>11 DEF Flush
  <2>2. \A j \in Batch : Fresh(j)
    BY <2>1 DEF Along, Walks, Batch
  <2>3. \A j \in Index : results'[j] = results[j] \/ (j \in Batch /\ results'[j] = "cancelled")
    BY <1>11 DEF Flush
  <2>4. QED
    BY <1>3, <2>1, <2>2, <2>3
<1>12. CASE RunEdit
  <2>1. at = "edit" /\ step \in DOMAIN approved /\ UNCHANGED billed
    BY <1>0, <1>12 DEF RunEdit, Sorted
  <2>2. KindOf(approved[step]) = "edit" /\ approved[step] \in Index
    BY <1>1, <2>1 DEF Along, Walks
  <2>3. \A j \in Index : j # approved[step] => results'[j] = results[j]
    BY <1>1, <1>12, <2>2 DEF RunEdit
  <2>4. QED
    BY <1>3, <2>1, <2>2, <2>3
\* the one place where the turn is billed
<1>13. CASE FoldRead
  <2> DEFINE i == Head(batch)
  <2>1. /\ at = "folding" /\ batch # <<>>
        /\ results' = [results EXCEPT ![i] = IF OverBudget(billed) THEN "denied" ELSE outcome[i]]
        /\ billed' = billed + Cost(i)
    BY <1>13 DEF FoldRead
  <2>2. i \in Batch
    <3>1. 1 \in DOMAIN batch /\ batch[1] = Head(batch)
      BY <1>0, <2>1 DEF Shape
    <3>2. QED
      BY <3>1 DEF Batch
  <2>3. i \in Index /\ KindOf(i) = "read" /\ Fresh(i)
    <3>1. \A j \in Batch : Fresh(j)
      BY <2>1 DEF Along, Walks, Batch
    <3>2. QED
      BY <1>1, <2>2, <3>1
  <2>4. PICK p \in Prior : billed = p[2] + ReadBytes * Cardinality(Paid)
    BY DEF BilledIsVisible
  <2>5. p[2] \in Nat /\ ReadBytes \in Nat
    BY <2>4, ToolRoundAssumption
  <2>6. IsFiniteSet(Paid) /\ Cardinality(Paid) \in Nat
    <3>1. Paid \subseteq 1..Len(calls) /\ Len(calls) \in Nat
      BY <1>0 DEF Paid, Shape
    <3>2. QED
      BY <3>1, Finite, FS_CardinalityType
  <2>7. billed \in Nat
    BY DEF LInv, TInv, TypeOK
  <2>8. /\ \A j \in Index : j # i => results'[j] = results[j]
        /\ results'[i] = IF OverBudget(billed) THEN "denied" ELSE outcome[i]
    BY <1>1, <2>1, <2>3
  <2> HIDE DEF i
  <2>9. CASE outcome[i] = "ok" /\ ~OverBudget(billed)
    <3>1. billed' = billed + ReadBytes
      BY <2>1, <2>3, <2>9 DEF Cost
    <3>2. Paid' = Paid \cup {i} /\ i \notin Paid
      <4>1. Paid' = {j \in Index : KindOf(j) = "read" /\ results'[j] = "ok"}
        BY <1>0 DEF Paid
      <4>2. QED
        BY <2>3, <2>8, <2>9, <4>1 DEF Paid, Fresh
    <3>3. Cardinality(Paid') = Cardinality(Paid) + 1
      BY <2>6, <3>2, FS_AddElement
    <3>4. billed' = p[2] + ReadBytes * Cardinality(Paid')
      <4>1. ReadBytes * (Cardinality(Paid) + 1) = ReadBytes * Cardinality(Paid) + ReadBytes
        BY <2>5, <2>6
      <4>2. ReadBytes * Cardinality(Paid) \in Nat
        BY <2>5, <2>6
      <4>3. QED
        BY <2>4, <2>5, <3>1, <3>3, <4>1, <4>2
    <3>5. QED
      BY <3>4 DEF BilledIsVisible
  <2>10. CASE ~(outcome[i] = "ok" /\ ~OverBudget(billed))
    <3>1. billed' = billed
      BY <2>1, <2>7, <2>10 DEF Cost
    <3>2. results'[i] # "ok"
      BY <2>8, <2>10
    <3>3. QED
      BY <1>3, <2>3, <2>8, <3>1, <3>2
  <2>11. QED
    BY <2>9, <2>10
<1>14. QED
  BY <1>4, <1>5, <1>6, <1>7, <1>8, <1>9, <1>10, <1>11, <1>12, <1>13, Effects DEF Loops

-----------------------------------------------------------------------------
OInv ==
    LInv /\ Known /\ Rising /\ Ahead /\ Along /\ Placed /\ Behind /\ Cards /\ BilledIsVisible

LEMMA OInvInit == Init => OInv
<1> SUFFICES ASSUME Init PROVE OInv
  OBVIOUS
<1>1. LInv
  BY LInvInit
<1>2. DOMAIN approved = {} /\ Approved = {} /\ DOMAIN batch = {} /\ Batch = {}
  BY DEF Init, Approved, Batch
<1>3. Known /\ Rising /\ Along /\ Placed /\ Behind
  BY <1>2 DEF Init, Known, Rising, Along, Walks, Placed, Behind
<1>4. Ahead
  BY <1>2 DEF Init, Ahead, Fresh
<1>5. Cards
  BY <1>2 DEF Init, Cards, Card, Unclosed, Opened
<1>6. BilledIsVisible
  <2>1. Paid = {}
    BY DEF Init, Paid
  <2>2. Cardinality(Paid) = 0
    BY <2>1, FS_EmptySet
  <2>3. PICK p \in Prior : billed = p[2]
    BY DEF Init
  <2>4. p[2] \in Nat /\ ReadBytes \in Nat
    BY <2>3, ToolRoundAssumption
  <2>5. QED
    BY <2>2, <2>3, <2>4 DEF BilledIsVisible
<1>7. QED
  BY <1>1, <1>3, <1>4, <1>5, <1>6 DEF OInv

LEMMA OInvNext == OInv /\ [Next]_vars => OInv'
<1> SUFFICES ASSUME OInv, [Next]_vars PROVE OInv'
  OBVIOUS
<1>1. LInv'
  BY LInvNext DEF OInv
<1>2. CASE Next
  <2>1. Known' /\ Ahead'
    BY <1>2, KnownNext, AheadNext DEF OInv, LInv
  <2>2. Rising' /\ Along' /\ Placed'
    BY <1>2, RisingNext, AlongNext, PlacedNext DEF OInv
  <2>3. Behind' /\ Cards' /\ BilledIsVisible'
    BY <1>2, <2>1, BehindNext, CardsNext, BilledNext DEF OInv
  <2>4. QED
    BY <1>1, <2>1, <2>2, <2>3 DEF OInv
<1>3. CASE UNCHANGED vars
  <2>1. Known' /\ Rising'
    BY <1>3 DEF OInv, vars, Known, Rising, Index, KindOf, Inline
  <2>2. Ahead'
    BY <1>3 DEF OInv, vars, Ahead, Fresh, Approved, OnlyReads, Index, KindOf
  <2>3. Along' /\ Behind'
    BY <1>3 DEF OInv, vars, Along, Walks, Behind, Fresh, Has, Approved, Batch, AllEnded, KindOf
  <2>4. Placed' /\ Cards'
    BY <1>3 DEF OInv, vars, Placed, Cards, Card, Opened, Unclosed, Fresh, Approved, Batch, Index
  <2>5. BilledIsVisible'
    BY <1>3 DEF OInv, vars, BilledIsVisible, Paid, Index, KindOf
  <2>6. QED
    BY <1>1, <2>1, <2>2, <2>3, <2>4, <2>5 DEF OInv
<1>4. QED
  BY <1>2, <1>3

\* An edit of a round never overlaps with another tool, and the order the model asked for is
\* kept around it: reads it put before an edit are finished, and those it put behind one have
\* not begun, although reads on either side run in parallel and are put off at will.
THEOREM EditsOrdered == Spec => []EditsInOrder
<1>1. ASSUME OInv PROVE EditsInOrder
  <2>0. Shape /\ Sorted /\ Leased
    BY <1>1, Shapely DEF OInv, LInv, TInv
  <2>1. SUFFICES ASSUME NEW k \in DOMAIN approved, KindOf(approved[k]) = "edit"
        PROVE  LET i == approved[k] IN
               /\ unit[i] = "running" => \A j \in Index \ {i} : unit[j] \notin Busy
               /\ unit[i] # "none" => \A m \in 1..k - 1 : results[approved[m]] # "none"
               /\ unit[i] \in {"none", "running"} /\ results[i] = "none" =>
                      \A m \in k + 1..Len(approved) : unit[approved[m]] = "none"
    BY DEF EditsInOrder
  <2>2. approved[k] \in Approved /\ approved[k] \in Index /\ approved[k] \notin leases
        /\ k \in 1..Len(approved) /\ Len(approved) \in Nat /\ DOMAIN approved = 1..Len(approved)
    BY <2>0 DEF Shape
  <2>3. ASSUME unit[approved[k]] = "running", NEW j \in Index \ {approved[k]}
        PROVE  unit[j] \notin Busy
    <3>1. at = "edit" /\ approved[k] = approved[step]
      <4>1. at # "joined"
        BY <1>1, <2>1, <2>2 DEF OInv, Ahead, OnlyReads
      <4>2. approved[k] \notin Batch
        BY <2>0, <2>1 DEF Shape
      <4>3. QED
        BY <1>1, <2>2, <2>3, <4>1, <4>2 DEF OInv, Placed
    <3>2. j \notin leases
      BY <2>0, <3>1 DEF Leased
    <3>3. unit[j] \notin {"running", "asking"}
      BY <1>1, <2>3, <3>1, <3>2 DEF OInv, Placed
    <3>4. unit[j] \notin {"queued", "editing"}
      BY <2>0, <3>1, <3>2 DEF Leased
    <3>5. QED
      BY <3>3, <3>4 DEF Busy
  <2>4. \A m \in 1..k - 1 : m \in DOMAIN approved /\ m < k
    BY <2>2
  <2>5. \A m \in k + 1..Len(approved) : m \in DOMAIN approved /\ m > k
    BY <2>2
  <2>6. QED
    BY <1>1, <2>1, <2>3, <2>4, <2>5 DEF OInv, Behind, Has, Fresh
<1>2. QED
  BY <1>1, OInvInit, OInvNext, PTL DEF Spec

\* The bytes a turn pays for are exactly those of the reads whose content the model gets: a
\* read that is denied after it ran, cancelled or in error is free, and none is paid twice,
\* whichever of the two paths folds it.
THEOREM BillVisible == Spec => []BilledIsVisible
<1>1. OInv => BilledIsVisible
  BY DEF OInv
<1>2. QED
  BY <1>1, OInvInit, OInvNext, PTL DEF Spec

\* No card is closed twice, and when the round is over every card that was opened is closed,
\* whichever step the cancellation fell on.
THEOREM CardsClosed == Spec => []CardsClose
<1>1. ASSUME OInv PROVE CardsClose
  <2>1. ASSUME NEW i \in Index, Ended PROVE ~Opened(i)
    <3>1. i \in Approved => i \notin leases
      BY <1>1, Shapely DEF OInv, LInv, Shape
    <3>2. QED
      BY <1>1, <2>1, <3>1 DEF Ended, Opened, OInv, Placed
  <2>2. QED
    BY <1>1, <2>1 DEF OInv, Cards, Card, CardsClose
<1>2. QED
  BY <1>1, OInvInit, OInvNext, PTL DEF Spec

=============================================================================
