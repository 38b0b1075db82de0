-------------------------- MODULE SessionLogProofs --------------------------
(***************************************************************************)
(* Proofs about SessionLog, for any tasks, kinds of event, cap, durability *)
(* and any number of lives and faults: a flush is a barrier, the last drop *)
(* is one, the log is the history of the appends, and no file outgrows its *)
(* cap.                                                                    *)
(*                                                                         *)
(* The buffer of a pending handle and the channel of a live one are one    *)
(* backlog; what a step does to it, and to the files, is its effect.       *)
(***************************************************************************)
EXTENDS SessionLog, SequenceFacts

-----------------------------------------------------------------------------
(* The backlog, and what the steps do to it. *)
Command ==
    [op : {"append"}, event : Nat] \cup [op : {"flush"}, by : Thread, upto : Nat]
    \cup [op : {"shutdown"}]
Fragment == [event : Nat, len : Nat]
Arrival == [kind : Kind \cup {"session_resumed"}, life : Nat]

Backlog == IF mode = "pending" THEN Appends(buffered) ELSE queue

\* what a crash spares, and what it may be compared with
Durable == <<durability, life, arrived, log, synced, skipped, acked, cut>>

\* an event arrives
Arrives(k) ==
    /\ mode \in {"pending", "live"} /\ mode' \in {"pending", "live"}
    /\ arrived' = Append(arrived, [kind |-> k, life |-> life])
    /\ Backlog' = Append(Backlog, [op |-> "append", event |-> Len(arrived) + 1])
    /\ UNCHANGED <<durability, life, failed, log, synced, skipped, acked, cut>>

\* a task asks for a flush
Asks(t) ==
    /\ mode = "live" /\ mode' = "live"
    /\ Backlog' = Append(Backlog, [op |-> "flush", by |-> t, upto |-> Len(arrived)])
    /\ UNCHANGED <<Durable, failed>>

\* nothing that matters here
Stands ==
    /\ mode' = mode \/ (mode = "pending" /\ mode' = "live")
    /\ pc' = "ended" => pc = "ended"
    /\ Backlog' = Backlog
    /\ UNCHANGED <<Durable, failed>>

\* the last clone goes and asks the writer to stop
Closes ==
    /\ mode = "live" /\ mode' = "closing"
    /\ Backlog' = Append(Backlog, [op |-> "shutdown"])
    /\ UNCHANGED <<Durable, failed>>

\* the last clone goes without a writer to ask
GivesUp ==
    /\ mode' = "closed" /\ pc' # "ended"
    /\ Backlog' = <<>> \/ Backlog' = Backlog
    /\ mode \in {"pending", "live"}
    /\ UNCHANGED <<Durable, failed>>

\* the writer takes the first command ...
TakesFirst ==
    /\ mode \in {"live", "closing"} /\ Backlog # <<>>
    /\ Backlog' = Tail(Backlog)
    /\ UNCHANGED <<durability, life, arrived, cut>>

\* ... and drops it after a failure
Drops ==
    /\ TakesFirst /\ mode' = mode
    /\ failed /\ UNCHANGED <<failed, log, synced, skipped, acked>>

\* ... and puts n bytes of an event into its file: all of them, or it fails
Puts(e, n) ==
    /\ TakesFirst /\ mode' = mode
    /\ ~failed /\ Head(Backlog).op = "append" /\ Head(Backlog).event = e
    /\ IF n = 0 THEN log' = log
       ELSE log' = [log EXCEPT ![FileOf(KindOf(e))] = Append(@, [event |-> e, len |-> n])]
    /\ (failed' /\ synced' = synced)
       \/ /\ ~failed' /\ n = Bytes(e)
          /\ \/ synced' = synced
             \/ synced' = [synced EXCEPT ![FileOf(KindOf(e))] = Len(log'[FileOf(KindOf(e))])]
    /\ UNCHANGED <<skipped, acked>>

\* ... and skips an event that is over the cap
Skips ==
    /\ TakesFirst /\ mode' = mode
    /\ skipped' = skipped \cup {Head(Backlog).event}
    /\ UNCHANGED <<failed, log, synced, acked>>

\* ... and syncs
Syncs(ok) ==
    /\ TakesFirst
    /\ ok <=> ~failed'
    /\ failed => failed'
    /\ ok => synced' = (IF durability = "fast" THEN synced ELSE [f \in File |-> Len(log[f])])
    /\ ~ok => synced' = synced
    /\ UNCHANGED <<log, skipped>>

Flushes(ok) ==
    /\ Syncs(ok) /\ mode' = mode
    /\ Head(Backlog).op = "flush"
    /\ acked' = IF ok THEN acked \cup {e \in 1..Head(Backlog).upto : arrived[e].life = life}
                ELSE acked

Stops(ok) ==
    /\ Syncs(ok) /\ mode' = "closed"
    /\ Head(Backlog).op = "shutdown"
    /\ UNCHANGED acked

\* the process dies
Ends ==
    /\ mode' = "down" /\ Backlog' = <<>>
    /\ UNCHANGED <<durability, life, arrived, skipped, acked>>

\* the session is opened again
Opens ==
    /\ mode' = "live" /\ Backlog' = <<>> /\ failed' = FALSE
    /\ life' = life + 1
    /\ UNCHANGED <<durability, arrived, log, synced, skipped, acked, cut>>

Effect ==
    \/ \E k \in Kind \cup {"session_resumed"} : Arrives(k)
    \/ \E t \in Thread : Asks(t)
    \/ Stands \/ Closes \/ GivesUp \/ Drops \/ Skips
    \/ \E e \in DOMAIN arrived : \E n \in 0..Bytes(e) : Puts(e, n)
    \/ \E ok \in BOOLEAN : Flushes(ok) \/ Stops(ok)
    \/ Ends /\ (Crash \/ PowerCut)
    \/ Opens

-----------------------------------------------------------------------------
(* Which steps are possible where. *)
Phases ==
    /\ mode \in {"pending", "live", "closing", "closed", "down"}
    /\ pc \in {"none", "idle", "truncating", "holds", "stuck", "ended"}
    /\ holders \subseteq Thread
    /\ failed \in BOOLEAN
    /\ mode = "pending" => pc = "none" /\ queue = <<>>
    /\ pc \in {"idle", "truncating"} => mode \in {"live", "closing"}
    /\ mode \in {"closing", "closed", "down"} => holders = {}
    /\ pc = "truncating" => queue # <<>> /\ ~failed

\* The queues are sequences.
Queues == buffered \in Seq(Nat) /\ queue \in Seq(Command)

\* A shutdown is the last command: nobody holds the handle any more.
ShutdownLast ==
    \A i \in DOMAIN Backlog :
        Backlog[i].op = "shutdown" => i = Len(Backlog) /\ mode \notin {"pending", "live"}

USE DEF handle, writer, files, history, fixed

LEMMA PhasesInit == Init => Phases
BY DEF Init, Phases

LEMMA PhasesNext == Phases /\ Queues /\ ShutdownLast /\ Next => Phases'
<1> SUFFICES ASSUME Phases, Queues, ShutdownLast, Next PROVE Phases'
  OBVIOUS
<1> USE DEF Phases
<1>1. ASSUME NEW t \in Thread, NEW k \in Kind, Buffer(t, k) PROVE Phases'
  BY <1>1 DEF Buffer
<1>2. ASSUME NEW t \in Thread, NEW k \in Kind, AppendEvent(t, k) PROVE Phases'
  BY <1>2 DEF AppendEvent, EnsureLive, At
<1>3. ASSUME NEW t \in Thread, Sent(t) \/ ReadMetadata(t) \/ WriteMetadata(t) \/ MetadataFails(t)
      PROVE Phases'
  BY <1>3 DEF Sent, ReadMetadata, WriteMetadata, MetadataFails
<1>4. ASSUME NEW t \in Thread, Account(t) \/ Greet(t) PROVE Phases'
  BY <1>4 DEF Account, Greet, EnsureLive, At
<1>5. ASSUME NEW t \in Thread, NEW job \in {"flush", "finish"}, Flush(t, job) PROVE Phases'
  BY <1>5 DEF Flush
<1>6. ASSUME NEW t \in Thread, DropHandle(t) PROVE Phases'
  BY <1>6 DEF DropHandle, At
<1>7. ASSUME NEW t \in Thread, Resume(t) PROVE Phases'
  BY <1>7 DEF Resume
<1>8. CASE WriterIgnores
  BY <1>8 DEF WriterIgnores, Takes
<1>9. ASSUME NEW e \in DOMAIN arrived, WriterStores(e) \/ WriterSkips(e) PROVE Phases'
  BY <1>9 DEF WriterStores, WriterSkips, Handling, Takes
<1>10. ASSUME NEW e \in DOMAIN arrived, WriterReads(e) PROVE Phases'
  <2>1. pc = "idle" /\ queue # <<>> /\ ~failed /\ UNCHANGED <<mode, holders>>
    BY <1>10 DEF WriterReads, Handling, Takes
  <2>2. CASE pc' = "truncating" /\ UNCHANGED <<queue, failed>>
    BY <2>1, <2>2
  <2>3. CASE Broken
    BY <2>1, <2>3 DEF Broken
  <2>4. QED
    BY <1>10, <2>2, <2>3 DEF WriterReads
<1>11. ASSUME NEW e \in DOMAIN arrived, NEW k \in 0..Bytes(e), WriterTears(e, k) PROVE Phases'
  BY <1>11 DEF WriterTears, Handling, Takes, Broken
<1>12. CASE WriterTruncates \/ WriterReleases
  BY <1>12 DEF WriterTruncates, WriterReleases
<1>13. ASSUME NEW ok \in BOOLEAN, NEW t \in Thread, WriterFlushes(t, ok) PROVE Phases'
  BY <1>13 DEF WriterFlushes, Answer, Takes
<1>14. CASE PrepareFails \/ Crash \/ PowerCut
  BY <1>14 DEF PrepareFails, Crash, PowerCut, Gone
<1>15. ASSUME NEW ok \in BOOLEAN, WriterStops(ok) PROVE Phases'
  <2>1. mode \in {"live", "closing"} /\ queue # <<>> /\ Head(queue).op = "shutdown"
    BY <1>15 DEF WriterStops, Takes
  <2>2. Backlog = queue /\ 1 \in DOMAIN queue /\ queue[1].op = "shutdown"
    BY <2>1 DEF Backlog, Queues
  <2>3. mode = "closing"
    BY <2>1, <2>2 DEF ShutdownLast
  <2>4. QED
    BY <1>15, <2>3 DEF WriterStops, Answer
<1>16. QED
  BY ONLY <1>1, <1>2, <1>3, <1>4, <1>5, <1>6, <1>7, <1>8, <1>9, <1>10, <1>11, <1>12, <1>13,
          <1>14, <1>15, Next
     DEF Next, Task, Writer

-----------------------------------------------------------------------------
(* Every step has one of the effects. *)
LEMMA Sequences ==
    ASSUME NEW S, NEW s \in Seq(S)
    PROVE  /\ \A x \in S : Append(s, x) \in Seq(S) /\ Len(Append(s, x)) = Len(s) + 1
           /\ s # <<>> => /\ Tail(s) \in Seq(S) /\ Len(Tail(s)) = Len(s) - 1
                          /\ Head(s) = s[1] /\ 1 \in DOMAIN s
           /\ s \o <<>> = s
OBVIOUS

LEMMA AppendsOf ==
    ASSUME NEW s \in Seq(Nat)
    PROVE  /\ Appends(s) \in Seq([op : {"append"}, event : Nat]) /\ Len(Appends(s)) = Len(s)
           /\ Appends(s) \in Seq(Command)
<1>1. DOMAIN s = 1..Len(s) /\ Len(s) \in Nat /\ \A i \in 1..Len(s) : s[i] \in Nat
  OBVIOUS
<1>2. Appends(s) \in [1..Len(s) -> [op : {"append"}, event : Nat]]
  BY <1>1 DEF Appends
<1>3. Appends(s) \in [1..Len(s) -> Command]
  BY <1>1 DEF Appends, Command
<1>4. \A S : Appends(s) \in [1..Len(s) -> S] => Appends(s) \in Seq(S) /\ Len(Appends(s)) = Len(s)
  BY <1>1
<1>5. QED
  BY <1>2, <1>3, <1>4

LEMMA AppendsOne ==
    ASSUME NEW n \in Nat
    PROVE  Appends(<<n>>) = <<[op |-> "append", event |-> n]>>
BY DEF Appends

LEMMA AppendsAppend ==
    ASSUME NEW s \in Seq(Nat), NEW n \in Nat
    PROVE  Appends(Append(s, n)) = Append(Appends(s), [op |-> "append", event |-> n])
<1> DEFINE t == Append(s, n)
           c == [op |-> "append", event |-> n]
<1>1. /\ Len(t) = Len(s) + 1 /\ DOMAIN t = 1..Len(s) + 1 /\ t[Len(s) + 1] = n
      /\ \A i \in 1..Len(s) : t[i] = s[i]
  OBVIOUS
<1>2. Appends(t) = [i \in 1..Len(s) + 1 |-> [op |-> "append", event |-> t[i]]]
  BY <1>1 DEF Appends
<1>3. /\ Appends(s) \in Seq(Command) /\ Len(Appends(s)) = Len(s) /\ c \in Command
      /\ \A i \in 1..Len(s) : Appends(s)[i] = [op |-> "append", event |-> s[i]]
  BY AppendsOf DEF Appends, Command
<1>4. /\ Append(Appends(s), c) \in Seq(Command) /\ Len(Append(Appends(s), c)) = Len(s) + 1
      /\ Append(Appends(s), c)[Len(s) + 1] = c
      /\ \A i \in 1..Len(s) : Append(Appends(s), c)[i] = Appends(s)[i]
  BY <1>3
<1>5. Append(Appends(s), c) = [i \in 1..Len(s) + 1 |-> [op |-> "append", event |-> t[i]]]
  <2>1. \A i \in 1..Len(s) + 1 : i = Len(s) + 1 \/ i \in 1..Len(s)
    OBVIOUS
  <2>2. \A i \in 1..Len(s) + 1 :
            Append(Appends(s), c)[i] = [op |-> "append", event |-> t[i]]
    BY <1>1, <1>3, <1>4, <2>1
  <2>3. DOMAIN Append(Appends(s), c) = 1..Len(s) + 1
    BY <1>4
  <2>4. Append(Appends(s), c) = [i \in 1..Len(s) + 1 |-> Append(Appends(s), c)[i]]
    BY <1>4, <2>3
  <2>5. QED
    BY <2>2, <2>4
<1>6. QED
  BY <1>2, <1>5

LEMMA BacklogTyped == Queues => Backlog \in Seq(Command)
BY AppendsOf DEF Queues, Backlog

\* ensure_live: whatever mode the handle was in, the caller's commands follow the backlog.
LEMMA Ensured ==
    ASSUME NEW new \in Seq(Command), Queues, EnsureLive(new)
    PROVE  /\ Backlog' = Backlog \o new /\ mode' = "live" /\ mode \in {"pending", "live"}
           /\ queue' = Backlog' /\ buffered' \in Seq(Nat) /\ (pc' = pc \/ pc' = "idle")
<1>1. mode' = "live"
  BY DEF EnsureLive
<1>2. Backlog' = queue'
  BY <1>1 DEF Backlog
<1>3. Backlog' = Backlog \o new
  BY <1>2 DEF EnsureLive, Backlog
<1>4. buffered' = buffered \/ buffered' = <<>>
  BY DEF EnsureLive
<1>5. buffered \in Seq(Nat) /\ <<>> \in Seq(Nat)
  BY EmptySeq DEF Queues
<1>6. buffered' \in Seq(Nat)
  BY ONLY <1>4, <1>5
<1>7. QED
  BY <1>1, <1>2, <1>3, <1>6 DEF EnsureLive

\* A client's step
LEMMA TaskEffect ==
    ASSUME Phases, Queues, arrived \in Seq(Arrival), NEW t \in Thread, Task(t)
    PROVE  Effect /\ Queues'
<1>1. ASSUME NEW k \in Kind, Buffer(t, k) PROVE Effect /\ Queues'
  <2>1. /\ mode = "pending" /\ mode' = "pending"
        /\ buffered' = Append(buffered, Len(arrived) + 1)
        /\ arrived' = Append(arrived, [kind |-> k, life |-> life])
        /\ UNCHANGED <<durability, life, failed, log, synced, skipped, acked, cut, queue>>
    BY <1>1 DEF Buffer, Arrive
  <2>2. Len(arrived) + 1 \in Nat
    OBVIOUS
  <2>3. Backlog' = Append(Backlog, [op |-> "append", event |-> Len(arrived) + 1])
    BY <2>1, <2>2, AppendsAppend DEF Backlog, Queues
  <2>4. Arrives(k)
    BY <2>1, <2>3 DEF Arrives
  <2>5. Queues'
    BY <2>1, <2>2 DEF Queues
  <2>6. QED
    BY <2>4, <2>5 DEF Effect
<1>2. ASSUME NEW k \in Kind \cup {"session_resumed"},
             EnsureLive(Appends(<<Len(arrived) + 1>>)),
             arrived' = Append(arrived, [kind |-> k, life |-> life]),
             UNCHANGED <<durability, life, failed, log, synced, skipped, acked, cut>>
      PROVE  Effect /\ Queues'
  <2> DEFINE c == [op |-> "append", event |-> Len(arrived) + 1]
  <2>1. Len(arrived) + 1 \in Nat /\ c \in Command
    BY DEF Command
  <2>2. Appends(<<Len(arrived) + 1>>) = <<c>> /\ <<c>> \in Seq(Command)
    BY <2>1, AppendsOne
  <2>3. Backlog' = Backlog \o <<c>> /\ mode' = "live" /\ mode \in {"pending", "live"}
    BY <1>2, <2>2, Ensured
  <2>4. Backlog \o <<c>> = Append(Backlog, c) /\ Append(Backlog, c) \in Seq(Command)
    BY <2>1, BacklogTyped
  <2>5. Arrives(k)
    BY <1>2, <2>3, <2>4 DEF Arrives
  <2>6. buffered' \in Seq(Nat) /\ queue' = Backlog'
    BY <1>2, <2>2, Ensured
  <2>7. QED
    BY <2>3, <2>4, <2>5, <2>6 DEF Effect, Queues
<1>3. ASSUME NEW k \in Kind, AppendEvent(t, k) PROVE Effect /\ Queues'
  <2>1. /\ EnsureLive(Appends(<<Len(arrived) + 1>>))
        /\ arrived' = Append(arrived, [kind |-> k, life |-> life])
        /\ UNCHANGED <<durability, life, failed, log, synced, skipped, acked, cut>>
    BY <1>3 DEF AppendEvent, Arrive
  <2>2. QED
    BY <1>2, <2>1
<1>4. CASE Greet(t)
  <2>1. /\ EnsureLive(Appends(<<Len(arrived) + 1>>))
        /\ arrived' = Append(arrived, [kind |-> "session_resumed", life |-> life])
        /\ UNCHANGED <<durability, life, failed, log, synced, skipped, acked, cut>>
    BY <1>4 DEF Greet
  <2>2. QED
    BY <1>2, <2>1
<1>5. CASE Account(t)
  <2>1. EnsureLive(<<>>) /\ UNCHANGED <<Durable, failed>>
    BY <1>5 DEF Account, Durable
  <2>2. <<>> \in Seq(Command)
    OBVIOUS
  <2>3. Backlog' = Backlog \o <<>> /\ mode' = "live" /\ mode \in {"pending", "live"}
    BY <2>1, <2>2, Ensured
  <2>4. Backlog' = Backlog /\ Backlog \in Seq(Command)
    BY <2>3, BacklogTyped, Sequences
  <2>5. buffered' \in Seq(Nat) /\ queue' = Backlog' /\ (pc' = pc \/ pc' = "idle")
    BY <2>1, <2>2, Ensured
  <2>6. Stands
    BY <2>1, <2>3, <2>4, <2>5 DEF Stands
  <2>7. QED
    BY <2>4, <2>5, <2>6 DEF Effect, Queues
<1>6. CASE Sent(t) \/ ReadMetadata(t) \/ WriteMetadata(t) \/ MetadataFails(t)
  <2>1. UNCHANGED <<mode, buffered, queue, pc, failed, Durable>>
    BY <1>6 DEF Sent, ReadMetadata, WriteMetadata, MetadataFails, Durable
  <2>2. Stands /\ Queues'
    BY <2>1 DEF Stands, Backlog, Appends, Queues
  <2>3. QED
    BY <2>2 DEF Effect
<1>7. ASSUME NEW job \in {"flush", "finish"}, Flush(t, job) PROVE Effect /\ Queues'
  <2>1. UNCHANGED <<mode, buffered, pc, failed, Durable>>
    BY <1>7 DEF Flush, Durable
  <2>2. CASE mode = "live"
                /\ queue' = Append(queue, [op |-> "flush", by |-> t, upto |-> Len(arrived)])
    <3>1. Asks(t)
      BY <2>1, <2>2 DEF Asks, Backlog
    <3>2. [op |-> "flush", by |-> t, upto |-> Len(arrived)] \in Command
      BY DEF Command
    <3>3. QED
      BY <2>1, <2>2, <3>1, <3>2 DEF Effect, Queues
  <2>3. CASE UNCHANGED queue
    <3>1. Stands /\ Queues'
      BY <2>1, <2>3 DEF Stands, Backlog, Appends, Queues
    <3>2. QED
      BY <3>1 DEF Effect
  <2>4. QED
    BY <1>7, <2>2, <2>3 DEF Flush
<1>8. CASE DropHandle(t)
  <2>1. mode \in {"live", "pending"} /\ UNCHANGED <<failed, Durable>>
    BY <1>8 DEF DropHandle, At, Phases, Durable
  <2>2. CASE UNCHANGED <<handle, queue, pc>>
    <3>1. Stands /\ Queues'
      BY <2>1, <2>2 DEF Stands, Backlog, Appends, Queues
    <3>2. QED
      BY <3>1 DEF Effect
  <2>3. CASE /\ mode = "pending" \/ pc = "holds"
             /\ mode' = "closed" /\ buffered' = <<>> /\ UNCHANGED <<queue, pc>>
    <3>1. Backlog' = queue /\ (mode = "pending" => queue = <<>> /\ pc = "none")
      BY <2>3 DEF Backlog, Phases
    <3>2. GivesUp
      BY <2>1, <2>3, <3>1 DEF GivesUp, Backlog
    <3>3. QED
      BY <2>3, <3>2 DEF Effect, Queues
  <2>4. CASE /\ mode # "pending" /\ mode' = "closing"
             /\ queue' = Append(queue, [op |-> "shutdown"]) /\ UNCHANGED buffered
    <3>1. Closes
      BY <2>1, <2>4 DEF Closes, Backlog
    <3>2. [op |-> "shutdown"] \in Command
      BY DEF Command
    <3>3. QED
      BY <2>4, <3>1, <3>2 DEF Effect, Queues
  <2>5. QED
    BY <1>8, <2>2, <2>3, <2>4 DEF DropHandle
<1>9. CASE Resume(t)
  <2>1. Opens
    BY <1>9 DEF Resume, Opens, Backlog
  <2>2. Queues'
    BY <1>9 DEF Resume, Queues
  <2>3. QED
    BY <2>1, <2>2 DEF Effect
<1>10. QED
  BY ONLY <1>1, <1>3, <1>4, <1>5, <1>6, <1>7, <1>8, <1>9, Task(t) DEF Task

\* The first command is the first of the backlog.
LEMMA TakesOne ==
    ASSUME Phases, Queues, pc \in {"idle", "truncating"}, queue # <<>>, queue' = Tail(queue),
           mode' \in {"live", "closing", "closed"}, UNCHANGED buffered
    PROVE  /\ Backlog = queue /\ Backlog' = Tail(Backlog) /\ Backlog # <<>>
           /\ mode \in {"live", "closing"} /\ Queues'
<1>1. mode \in {"live", "closing"}
  BY DEF Phases
<1>2. Backlog = queue /\ Backlog' = queue'
  BY <1>1 DEF Backlog
<1>3. Queues'
  BY Sequences DEF Queues
<1>4. QED
  BY <1>1, <1>2, <1>3

LEMMA Sizes ==
    ASSUME arrived \in Seq(Arrival), NEW e \in DOMAIN arrived
    PROVE  /\ KindOf(e) \in DOMAIN Size /\ Bytes(e) \in Nat \ {0}
           /\ Bytes(e) \in 0..Bytes(e) /\ 0 \in 0..Bytes(e)
<1>1. arrived[e] \in Arrival
  BY ElementOfSeq
<1>2. KindOf(e) \in DOMAIN Size
  BY <1>1, SessionLogAssumption DEF Arrival, KindOf
<1>3. Bytes(e) \in Nat \ {0}
  BY <1>2, SessionLogAssumption DEF Bytes
<1>4. QED
  BY <1>2, <1>3

\* k bytes of e reach its file
LEMMA PutBytes ==
    ASSUME log \in [File -> Seq(Fragment)], NEW e, NEW n \in Nat, Put(e, n)
    PROVE  IF n = 0 THEN log' = log
           ELSE log' = [log EXCEPT ![FileOf(KindOf(e))] = Append(@, [event |-> e, len |-> n])]
<1>1. CASE n = 0
  BY <1>1 DEF Put
<1>2. CASE n # 0
  BY <1>2 DEF Put
<1>3. QED
  BY <1>1, <1>2

\* Any other step of the writer
LEMMA WriterEffect ==
    ASSUME Phases, Queues, arrived \in Seq(Arrival), log \in [File -> Seq(Fragment)], Writer
    PROVE  Effect /\ Queues'
<1> USE DEF Durable
<1>1. CASE WriterIgnores
  <2>1. /\ pc = "idle" /\ queue # <<>> /\ queue' = Tail(queue) /\ failed
        /\ UNCHANGED <<mode, buffered, failed, Durable>>
    BY <1>1 DEF WriterIgnores, Takes
  <2>2. TakesFirst /\ Queues'
    BY <2>1, TakesOne DEF TakesFirst, Phases
  <2>3. QED
    BY <2>1, <2>2 DEF Drops, Effect
<1>2. ASSUME NEW e \in DOMAIN arrived, Handling(e), queue' = Tail(queue),
             UNCHANGED <<mode, buffered, durability, life, arrived, cut>>
      PROVE  /\ TakesFirst /\ Queues' /\ ~failed
             /\ Head(Backlog).op = "append" /\ Head(Backlog).event = e
  <2>1. pc = "idle" /\ queue # <<>> /\ ~failed
        /\ Head(queue).op = "append" /\ Head(queue).event = e
    BY <1>2 DEF Handling, Takes
  <2>2. /\ Backlog = queue /\ Backlog' = Tail(Backlog) /\ Backlog # <<>>
        /\ mode \in {"live", "closing"} /\ Queues'
    BY <1>2, <2>1, TakesOne DEF Phases
  <2>3. QED
    BY <1>2, <2>1, <2>2 DEF TakesFirst
<1>4. ASSUME NEW e \in DOMAIN arrived, WriterStores(e) PROVE Effect /\ Queues'
  <2>1. TakesFirst /\ Queues' /\ ~failed /\ Head(Backlog).op = "append" /\ Head(Backlog).event = e
    BY <1>2, <1>4 DEF WriterStores
  <2>2. IF Bytes(e) = 0 THEN log' = log
        ELSE log' = [log EXCEPT ![FileOf(KindOf(e))] =
                                    Append(@, [event |-> e, len |-> Bytes(e)])]
    BY <1>4, Sizes, PutBytes DEF WriterStores
  <2>3. Puts(e, Bytes(e))
    BY <1>4, <2>1, <2>2 DEF WriterStores, Puts
  <2>4. QED
    BY <2>1, <2>3, Sizes DEF Effect
<1>5. ASSUME NEW e \in DOMAIN arrived, NEW k \in 0..Bytes(e), WriterTears(e, k)
      PROVE  Effect /\ Queues'
  <2>1. TakesFirst /\ Queues' /\ ~failed /\ Head(Backlog).op = "append" /\ Head(Backlog).event = e
    BY <1>2, <1>5 DEF WriterTears
  <2>2. IF k = 0 THEN log' = log
        ELSE log' = [log EXCEPT ![FileOf(KindOf(e))] = Append(@, [event |-> e, len |-> k])]
    BY <1>5, Sizes, PutBytes DEF WriterTears
  <2>3. Puts(e, k)
    BY <1>5, <2>1, <2>2 DEF WriterTears, Puts, Broken
  <2>4. QED
    BY <2>1, <2>3 DEF Effect
<1>6. ASSUME NEW e \in DOMAIN arrived, WriterSkips(e) PROVE Effect /\ Queues'
  <2>1. TakesFirst /\ Queues' /\ ~failed /\ Head(Backlog).op = "append" /\ Head(Backlog).event = e
    BY <1>2, <1>6 DEF WriterSkips
  <2>2. Skips
    BY <1>6, <2>1 DEF WriterSkips, Skips
  <2>3. QED
    BY <2>1, <2>2 DEF Effect
<1>7. ASSUME NEW e \in DOMAIN arrived, WriterReads(e) PROVE Effect /\ Queues'
  <2>1. UNCHANGED <<mode, buffered, Durable>> /\ Handling(e)
    BY <1>7 DEF WriterReads
  <2>2. CASE pc' = "truncating" /\ UNCHANGED <<queue, failed>>
    <3>1. Stands /\ Queues'
      BY <2>1, <2>2 DEF Stands, Backlog, Appends, Queues
    <3>2. QED
      BY <3>1 DEF Effect
  <2>3. CASE Broken /\ queue' = Tail(queue)
    <3>1. TakesFirst /\ Queues' /\ ~failed
          /\ Head(Backlog).op = "append" /\ Head(Backlog).event = e
      BY <1>2, <2>1, <2>3
    <3>2. Puts(e, 0)
      BY <2>1, <2>3, <3>1 DEF Puts, Broken
    <3>3. QED
      BY <3>1, <3>2, Sizes DEF Effect
  <2>4. QED
    BY <1>7, <2>2, <2>3 DEF WriterReads
<1>8. CASE WriterTruncates
  <2>1. /\ pc = "truncating" /\ queue # <<>> /\ queue' = Tail(queue)
        /\ skipped' = skipped \cup {Head(queue).event}
        /\ UNCHANGED <<mode, buffered, failed, durability, life, arrived, log, synced, acked, cut>>
    BY <1>8 DEF WriterTruncates, Phases
  <2>2. TakesFirst /\ Queues' /\ Backlog = queue
    BY <2>1, TakesOne DEF TakesFirst, Phases
  <2>3. Skips
    BY <2>1, <2>2 DEF Skips
  <2>4. QED
    BY <2>2, <2>3 DEF Effect
<1>9. CASE WriterReleases
  <2>1. UNCHANGED <<mode, buffered, queue, failed, Durable>> /\ pc' # "ended"
    BY <1>9 DEF WriterReleases
  <2>2. Stands /\ Queues'
    BY <2>1 DEF Stands, Backlog, Appends, Queues
  <2>3. QED
    BY <2>2 DEF Effect
<1>10. ASSUME NEW ok \in BOOLEAN, NEW t \in Thread, WriterFlushes(t, ok) PROVE Effect /\ Queues'
  <2>1. /\ pc = "idle" /\ queue # <<>> /\ queue' = Tail(queue) /\ Head(queue).op = "flush"
        /\ UNCHANGED <<mode, buffered, durability, life, arrived, log, skipped, cut>>
        /\ Answer(ok)
        /\ acked' = IF ok THEN acked \cup {e \in 1..Head(queue).upto : arrived[e].life = life}
                    ELSE acked
    BY <1>10 DEF WriterFlushes, Takes
  <2>2. TakesFirst /\ Queues' /\ Backlog = queue
    BY <2>1, TakesOne DEF TakesFirst, Phases
  <2>3. Syncs(ok)
    BY <2>1, <2>2 DEF Syncs, Answer, SyncAll, Phases
  <2>4. Flushes(ok)
    BY <2>1, <2>2, <2>3 DEF Flushes
  <2>5. QED
    BY <2>2, <2>4 DEF Effect
<1>11. ASSUME NEW ok \in BOOLEAN, WriterStops(ok) PROVE Effect /\ Queues'
  <2>1. /\ pc = "idle" /\ queue # <<>> /\ queue' = Tail(queue) /\ Head(queue).op = "shutdown"
        /\ mode' = "closed"
        /\ UNCHANGED <<buffered, durability, life, arrived, log, skipped, acked, cut>>
        /\ Answer(ok)
    BY <1>11 DEF WriterStops, Takes
  <2>2. TakesFirst /\ Queues' /\ Backlog = queue
    BY <2>1, TakesOne DEF TakesFirst
  <2>3. Syncs(ok)
    BY <2>1, <2>2 DEF Syncs, Answer, SyncAll, Phases
  <2>4. Stops(ok)
    BY <2>1, <2>2, <2>3 DEF Stops
  <2>5. QED
    BY <2>2, <2>4 DEF Effect
<1>12. QED
  BY ONLY <1>1, <1>4, <1>5, <1>6, <1>7, <1>8, <1>9, <1>10, <1>11, Writer DEF Writer

LEMMA StepEffect ==
    ASSUME Phases, Queues, arrived \in Seq(Arrival), log \in [File -> Seq(Fragment)], Next
    PROVE  Effect /\ Queues'
<1>1. CASE PrepareFails
  <2>1. UNCHANGED <<mode, buffered, queue, pc, failed, Durable>>
    BY <1>1 DEF PrepareFails, Durable
  <2>2. Stands /\ Queues'
    BY <2>1 DEF Stands, Backlog, Appends, Queues
  <2>3. QED
    BY <2>2 DEF Effect
<1>2. CASE Crash \/ PowerCut
  <2>1. Ends
    BY <1>2 DEF Crash, PowerCut, Gone, Ends, Backlog
  <2>2. Queues'
    BY <1>2, EmptySeq DEF Crash, PowerCut, Gone, Queues
  <2>3. QED
    BY <1>2, <2>1, <2>2 DEF Effect
<1>3. QED
  BY <1>1, <1>2, TaskEffect, WriterEffect DEF Next

-----------------------------------------------------------------------------
(* The invariant. *)
Typed ==
    /\ arrived \in Seq(Arrival) /\ life \in Nat
    /\ log \in [File -> Seq(Fragment)] /\ synced \in [File -> Nat]
    /\ \A e \in DOMAIN arrived : arrived[e].life <= life
    /\ \A f \in File :
           /\ synced[f] <= Len(log[f])
           /\ \A i \in DOMAIN log[f] : log[f][i].event \in DOMAIN arrived
    /\ acked \subseteq DOMAIN arrived

\* What waits is of this life, in order, after what is in the files and after the flushes
\* that do not cover it.
Waits ==
    \A i \in DOMAIN Backlog :
        /\ Backlog[i].op = "flush" => Backlog[i].upto <= Len(arrived)
        /\ Backlog[i].op = "append" =>
               /\ Backlog[i].event \in DOMAIN arrived /\ arrived[Backlog[i].event].life = life
               /\ \A f \in File : \A j \in DOMAIN log[f] : log[f][j].event < Backlog[i].event
               /\ \A j \in 1..i - 1 :
                      /\ Backlog[j].op = "append" => Backlog[j].event < Backlog[i].event
                      /\ Backlog[j].op = "flush" => Backlog[j].upto < Backlog[i].event

Waiting(e) == \E i \in DOMAIN Backlog : Backlog[i].op = "append" /\ Backlog[i].event = e

\* The whole of e is among the first n fragments of f.
LiesIn(e, f, n) == \E j \in 1..n : log[f][j].event = e /\ Whole(log[f][j])

Lies(e) == LiesIn(e, FileOf(KindOf(e)), Len(log[FileOf(KindOf(e))]))

\* Each event of this life is in its file, was skipped or waits, until the first failure.
Accounted ==
    mode \in {"pending", "live", "closing"} /\ ~failed =>
        \A e \in DOMAIN arrived : arrived[e].life = life => e \in skipped \/ Lies(e) \/ Waiting(e)

Closed ==
    mode = "closed" /\ pc = "ended" /\ ~failed /\ ~cut =>
        \A e \in DOMAIN arrived : arrived[e].life = life => e \in skipped \/ Lies(e)

\* What is acknowledged is in the part of the file that a power cut spares.
Safe ==
    \A e \in acked :
        \/ e \in skipped
        \/ LiesIn(e, FileOf(KindOf(e)), synced[FileOf(KindOf(e))])
        \/ durability = "fast" /\ (Lies(e) \/ cut)

\* The files are the history, and what is missing is missing before what follows it.
Ascending ==
    \A f \in File : \A i \in DOMAIN log[f] : \A j \in 1..i - 1 :
        log[f][j].event < log[f][i].event

Holes ==
    \A f \in File : \A i \in DOMAIN log[f] : \A e \in 1..log[f][i].event - 1 :
        FileOf(KindOf(e)) = f /\ arrived[e].life = arrived[log[f][i].event].life
            => e \in skipped \/ LiesIn(e, f, i - 1)

IInv ==
    /\ Phases /\ Queues /\ ShutdownLast
    /\ Typed /\ Waits /\ Accounted /\ Closed /\ Safe /\ Ascending /\ Holes

LEMMA FileOfFile == \A k : FileOf(k) \in File
BY DEF FileOf, File

LEMMA Initially == Init => IInv
<1> SUFFICES ASSUME Init PROVE IInv
  OBVIOUS
<1>1. Phases
  BY PhasesInit
<1>2. /\ mode = "pending" /\ buffered = <<>> /\ queue = <<>> /\ arrived = <<>> /\ acked = {}
      /\ log = [f \in File |-> <<>>] /\ synced = [f \in File |-> 0] /\ life = 1
  BY DEF Init
<1>3. <<>> \in Seq(Nat) /\ <<>> \in Seq(Command) /\ <<>> \in Seq(Arrival) /\ <<>> \in Seq(Fragment)
  OBVIOUS
<1>4. Backlog = <<>>
  BY <1>2 DEF Backlog, Appends
<1>5. Queues /\ ShutdownLast /\ Waits
  BY <1>2, <1>3, <1>4 DEF Queues, ShutdownLast, Waits
<1>6. Typed
  BY <1>2, <1>3 DEF Typed
<1>7. Accounted /\ Closed /\ Safe
  BY <1>2 DEF Accounted, Closed, Safe
<1>8. Ascending /\ Holes
  BY <1>2 DEF Ascending, Holes
<1>9. QED
  BY <1>1, <1>5, <1>6, <1>7, <1>8 DEF IInv

-----------------------------------------------------------------------------
(* What is known of an event does not change. *)
LEMMA Kept ==
    ASSUME arrived \in Seq(Arrival),
           arrived' = arrived \/ \E x \in Arrival : arrived' = Append(arrived, x)
    PROVE  /\ arrived' \in Seq(Arrival) /\ Len(arrived) <= Len(arrived')
           /\ \A e \in DOMAIN arrived :
                  /\ e \in DOMAIN arrived' /\ arrived'[e] = arrived[e]
                  /\ KindOf(e)' = KindOf(e) /\ Bytes(e)' = Bytes(e)
<1>1. CASE arrived' = arrived
  BY <1>1 DEF KindOf, Bytes
<1>2. ASSUME NEW x \in Arrival, arrived' = Append(arrived, x)
      PROVE  /\ arrived' \in Seq(Arrival) /\ Len(arrived) <= Len(arrived')
             /\ \A e \in DOMAIN arrived : e \in DOMAIN arrived' /\ arrived'[e] = arrived[e]
  BY <1>2
<1>3. QED
  BY <1>1, <1>2 DEF KindOf, Bytes

\* n bytes of e reach its file
Grown(e, n) ==
    IF n = 0 THEN log' = log
    ELSE log' = [log EXCEPT ![FileOf(KindOf(e))] = Append(@, [event |-> e, len |-> n])]

LEMMA GrownLog ==
    ASSUME log \in [File -> Seq(Fragment)], NEW e \in Nat, NEW n \in Nat, Grown(e, n)
    PROVE  /\ log' \in [File -> Seq(Fragment)]
           /\ \A f \in File :
                  /\ Len(log[f]) <= Len(log'[f])
                  /\ \A i \in 1..Len(log[f]) : log'[f][i] = log[f][i]
                  /\ \A i \in DOMAIN log'[f] :
                         \/ i \in DOMAIN log[f] /\ log'[f][i] = log[f][i]
                         \/ /\ i = Len(log[f]) + 1 /\ f = FileOf(KindOf(e))
                            /\ log'[f][i] = [event |-> e, len |-> n]
           /\ n # 0 => LET f == FileOf(KindOf(e))
                       IN  /\ Len(log'[f]) = Len(log[f]) + 1
                           /\ log'[f][Len(log[f]) + 1] = [event |-> e, len |-> n]
<1> DEFINE g == FileOf(KindOf(e))
           x == [event |-> e, len |-> n]
<1>1. CASE n = 0
  BY <1>1 DEF Grown
<1>2. CASE n # 0
  <2>1. g \in File /\ x \in Fragment
    BY FileOfFile DEF Fragment
  <2>2. log' = [log EXCEPT ![g] = Append(@, x)]
    BY <1>2 DEF Grown
  <2>3. log[g] \in Seq(Fragment) /\ \A f \in File : log[f] \in Seq(Fragment)
    BY <2>1
  <2>4. /\ Append(log[g], x) \in Seq(Fragment) /\ Len(Append(log[g], x)) = Len(log[g]) + 1
        /\ Append(log[g], x)[Len(log[g]) + 1] = x
        /\ \A i \in 1..Len(log[g]) : Append(log[g], x)[i] = log[g][i]
        /\ DOMAIN Append(log[g], x) = 1..Len(log[g]) + 1 /\ DOMAIN log[g] = 1..Len(log[g])
    BY <2>1, <2>3
  <2> HIDE DEF g, x
  <2>5. log' \in [File -> Seq(Fragment)] /\ log'[g] = Append(log[g], x)
        /\ \A f \in File : f # g => log'[f] = log[f]
    BY <2>1, <2>2, <2>4
  <2>6. \A f \in File : f # g => Len(log[f]) \in Nat /\ DOMAIN log[f] = 1..Len(log[f])
    BY <2>3
  <2>7. Len(log[g]) \in Nat
    BY <2>3
  <2>8. /\ Len(log[g]) <= Len(log'[g])
        /\ \A i \in 1..Len(log[g]) : log'[g][i] = log[g][i]
        /\ \A i \in DOMAIN log'[g] :
               \/ i \in DOMAIN log[g] /\ log'[g][i] = log[g][i]
               \/ i = Len(log[g]) + 1 /\ log'[g][i] = x
    <3>1. Len(log'[g]) = Len(log[g]) + 1 /\ DOMAIN log'[g] = 1..Len(log[g]) + 1
      BY <2>4, <2>5
    <3>2. \A i \in 1..Len(log[g]) : log'[g][i] = log[g][i]
      BY <2>4, <2>5
    <3>3. log'[g][Len(log[g]) + 1] = x
      BY <2>4, <2>5
    <3>4. \A i \in 1..Len(log[g]) + 1 : i \in 1..Len(log[g]) \/ i = Len(log[g]) + 1
      BY <2>7
    <3>5. Len(log[g]) <= Len(log[g]) + 1
      BY <2>7
    <3>6. \A i \in DOMAIN log'[g] :
              \/ i \in DOMAIN log[g] /\ log'[g][i] = log[g][i]
              \/ i = Len(log[g]) + 1 /\ log'[g][i] = x
      <4> SUFFICES ASSUME NEW i \in DOMAIN log'[g]
                   PROVE  \/ i \in DOMAIN log[g] /\ log'[g][i] = log[g][i]
                          \/ i = Len(log[g]) + 1 /\ log'[g][i] = x
        OBVIOUS
      <4>1. i \in 1..Len(log[g]) \/ i = Len(log[g]) + 1
        BY <3>1, <3>4
      <4>2. CASE i = Len(log[g]) + 1
        BY <3>3, <4>2
      <4>3. CASE i \in 1..Len(log[g])
        BY <2>4, <3>2, <4>3
      <4>4. QED
        BY <4>1, <4>2, <4>3
    <3>7. QED
      BY <3>1, <3>2, <3>5, <3>6
  <2>9. \A f \in File : f # g =>
            /\ Len(log[f]) <= Len(log'[f])
            /\ \A i \in 1..Len(log[f]) : log'[f][i] = log[f][i]
            /\ \A i \in DOMAIN log'[f] : i \in DOMAIN log[f] /\ log'[f][i] = log[f][i]
    BY <2>5, <2>6
  <2>10. Len(log'[g]) = Len(log[g]) + 1 /\ log'[g][Len(log[g]) + 1] = x
    BY <2>4, <2>5
  <2>11. \A f \in File :
            /\ Len(log[f]) <= Len(log'[f])
            /\ \A i \in 1..Len(log[f]) : log'[f][i] = log[f][i]
            /\ \A i \in DOMAIN log'[f] :
                   \/ i \in DOMAIN log[f] /\ log'[f][i] = log[f][i]
                   \/ i = Len(log[f]) + 1 /\ f = g /\ log'[f][i] = x
    <3> SUFFICES ASSUME NEW f \in File
                 PROVE  /\ Len(log[f]) <= Len(log'[f])
                        /\ \A i \in 1..Len(log[f]) : log'[f][i] = log[f][i]
                        /\ \A i \in DOMAIN log'[f] :
                               \/ i \in DOMAIN log[f] /\ log'[f][i] = log[f][i]
                               \/ i = Len(log[f]) + 1 /\ f = g /\ log'[f][i] = x
      OBVIOUS
    <3>1. CASE f = g
      BY <2>8, <3>1
    <3>2. CASE f # g
      BY <2>9, <3>2
    <3>3. QED
      BY <3>1, <3>2
  <2>12. QED
    BY <2>5, <2>10, <2>11 DEF g, x
<1>3. QED
  BY <1>1, <1>2

\* A power cut
LEMMA CutFile ==
    ASSUME NEW s \in Seq(Fragment), NEW from \in 0..Len(s), NEW r \in Remains(s, from)
    PROVE  /\ r \in Seq(Fragment) /\ from <= Len(r) /\ Len(r) <= Len(s)
           /\ \A i \in 1..Len(r) : r[i].event = s[i].event
           /\ \A i \in 1..Len(r) : i < Len(r) \/ i <= from => r[i] = s[i]
<1>1. ASSUME NEW n \in from..Len(s)
      PROVE  /\ SubSeq(s, 1, n) \in Seq(Fragment) /\ Len(SubSeq(s, 1, n)) = n
             /\ \A i \in 1..n : SubSeq(s, 1, n)[i] = s[i]
             /\ n \in Nat /\ Len(s) \in Nat /\ n <= Len(s) /\ from <= n
  OBVIOUS
<1>2. ASSUME NEW n \in from..Len(s), r = SubSeq(s, 1, n)
      PROVE  /\ r \in Seq(Fragment) /\ from <= Len(r) /\ Len(r) <= Len(s)
             /\ \A i \in 1..Len(r) : r[i] = s[i]
  BY <1>1, <1>2
<1>3. ASSUME NEW n \in from..Len(s) - 1, NEW k \in 1..s[n + 1].len - 1,
             r = Append(SubSeq(s, 1, n), [event |-> s[n + 1].event, len |-> k])
      PROVE  /\ r \in Seq(Fragment) /\ from <= Len(r) /\ Len(r) <= Len(s)
             /\ \A i \in 1..Len(r) : r[i].event = s[i].event
             /\ \A i \in 1..Len(r) : i < Len(r) \/ i <= from => r[i] = s[i]
  <2> DEFINE p == SubSeq(s, 1, n)
             x == [event |-> s[n + 1].event, len |-> k]
  <2>1. n \in from..Len(s) /\ n + 1 \in 1..Len(s) /\ n \in Nat /\ n + 1 <= Len(s) /\ from <= n
        /\ Len(s) \in Nat /\ from \in Nat
    OBVIOUS
  <2>2. s[n + 1] \in Fragment
    BY <2>1
  <2>3. x \in Fragment
    BY <2>2 DEF Fragment
  <2>4. p \in Seq(Fragment) /\ Len(p) = n /\ \A i \in 1..n : p[i] = s[i]
    BY <1>1, <2>1
  <2>5. x.event = s[n + 1].event
    OBVIOUS
  <2> HIDE DEF p, x
  <2>6. /\ r \in Seq(Fragment) /\ Len(r) = n + 1 /\ r[n + 1] = x
        /\ \A i \in 1..n : r[i] = p[i]
    BY <1>3, <2>3, <2>4 DEF p, x
  <2>7. \A i \in 1..n + 1 : i \in 1..n \/ i = n + 1
    BY <2>1
  <2>8. QED
    BY <2>1, <2>4, <2>5, <2>6, <2>7
<1>4. QED
  BY <1>2, <1>3 DEF Remains

LEMMA CutLog ==
    ASSUME Typed, PowerCut
    PROVE  /\ log' \in [File -> Seq(Fragment)] /\ synced' = [f \in File |-> Len(log'[f])]
           /\ cut' = TRUE
           /\ \A f \in File :
                  /\ synced[f] <= Len(log'[f]) /\ Len(log'[f]) <= Len(log[f])
                  /\ \A i \in 1..Len(log'[f]) : log'[f][i].event = log[f][i].event
                  /\ \A i \in 1..Len(log'[f]) :
                         i < Len(log'[f]) \/ i <= synced[f] => log'[f][i] = log[f][i]
<1>1. \A f \in File : log'[f] \in Remains(log[f], synced[f])
  BY DEF PowerCut
<1>2. \A f \in File : log[f] \in Seq(Fragment) /\ synced[f] \in 0..Len(log[f])
  BY DEF Typed
<1>3. ASSUME NEW f \in File
      PROVE  /\ log'[f] \in Seq(Fragment)
             /\ synced[f] <= Len(log'[f]) /\ Len(log'[f]) <= Len(log[f])
             /\ \A i \in 1..Len(log'[f]) : log'[f][i].event = log[f][i].event
             /\ \A i \in 1..Len(log'[f]) :
                    i < Len(log'[f]) \/ i <= synced[f] => log'[f][i] = log[f][i]
  BY <1>1, <1>2, CutFile
<1>4. log' \in [File -> UNION {Remains(log[f], synced[f]) : f \in File}]
  BY DEF PowerCut
<1>5. log' \in [File -> Seq(Fragment)]
  <2>1. log' = [f \in File |-> log'[f]]
    BY <1>4
  <2>2. QED
    BY <1>3, <2>1
<1>6. QED
  BY <1>3, <1>5 DEF PowerCut

\* Only the writer writes, the first event that waits, before any failure.
First(e) ==
    /\ mode \in {"live", "closing"} /\ ~failed
    /\ Backlog # <<>> /\ Head(Backlog).op = "append" /\ Head(Backlog).event = e

LEMMA HeadWaits ==
    ASSUME IInv, Backlog # <<>>
    PROVE  /\ 1 \in DOMAIN Backlog /\ Head(Backlog) = Backlog[1]
           /\ DOMAIN Tail(Backlog) = 1..Len(Backlog) - 1 /\ Len(Backlog) \in Nat
           /\ \A i \in DOMAIN Tail(Backlog) :
                  i + 1 \in DOMAIN Backlog /\ Tail(Backlog)[i] = Backlog[i + 1]
           /\ \A i \in DOMAIN Backlog : i = 1 \/ i - 1 \in DOMAIN Tail(Backlog)
           /\ Backlog[1].op = "append" =>
                  Backlog[1].event \in DOMAIN arrived /\ Backlog[1].event \in Nat
<1>1. Backlog \in Seq(Command)
  BY BacklogTyped DEF IInv
<1>2. /\ 1 \in DOMAIN Backlog /\ Head(Backlog) = Backlog[1]
      /\ DOMAIN Tail(Backlog) = 1..Len(Backlog) - 1 /\ Len(Backlog) \in Nat
      /\ \A i \in DOMAIN Tail(Backlog) :
             i + 1 \in DOMAIN Backlog /\ Tail(Backlog)[i] = Backlog[i + 1]
      /\ \A i \in DOMAIN Backlog : i = 1 \/ i - 1 \in DOMAIN Tail(Backlog)
  BY <1>1
<1>3. ASSUME Backlog[1].op = "append"
      PROVE  Backlog[1].event \in DOMAIN arrived /\ Backlog[1].event \in Nat
  <2>1. Backlog[1].event \in DOMAIN arrived
    BY <1>2, <1>3 DEF IInv, Waits
  <2>2. DOMAIN arrived = 1..Len(arrived)
    BY DEF IInv, Typed
  <2>3. QED
    BY <2>1, <2>2
<1>4. QED
  BY <1>2, <1>3

\* The effects on the files and on the history
LEMMA EffectFiles ==
    ASSUME IInv, Effect
    PROVE  /\ arrived' = arrived \/ \E x \in Arrival : arrived' = Append(arrived, x)
           /\ skipped \subseteq skipped'
           /\ \/ log' = log
              \/ /\ arrived' = arrived
                 /\ \E e \in DOMAIN arrived : \E n \in Nat : First(e) /\ Grown(e, n)
              \/ PowerCut /\ arrived' = arrived
           /\ synced' \in [File -> Nat]
           /\ log' \in [File -> Seq(Fragment)]
           /\ \A f \in File : synced'[f] <= Len(log'[f])
           /\ \A f \in File : PowerCut \/ synced[f] <= synced'[f]
           /\ cut => cut'
<1> DEFINE Goal ==
           /\ arrived' = arrived \/ \E x \in Arrival : arrived' = Append(arrived, x)
           /\ skipped \subseteq skipped'
           /\ \/ log' = log
              \/ /\ arrived' = arrived
                 /\ \E e \in DOMAIN arrived : \E n \in Nat : First(e) /\ Grown(e, n)
              \/ PowerCut /\ arrived' = arrived
           /\ synced' \in [File -> Nat]
           /\ log' \in [File -> Seq(Fragment)]
           /\ \A f \in File : synced'[f] <= Len(log'[f])
           /\ \A f \in File : PowerCut \/ synced[f] <= synced'[f]
           /\ cut => cut'
<1> SUFFICES Goal
  OBVIOUS
<1>0. /\ synced \in [File -> Nat] /\ log \in [File -> Seq(Fragment)]
      /\ \A f \in File : synced[f] <= Len(log[f]) /\ synced[f] \in Nat /\ Len(log[f]) \in Nat
      /\ arrived \in Seq(Arrival) /\ life \in Nat
  BY DEF IInv, Typed
<1>1. ASSUME UNCHANGED <<arrived, log, synced, skipped, cut>> PROVE Goal
  BY <1>0, <1>1
<1>2. ASSUME NEW k \in Kind \cup {"session_resumed"}, Arrives(k) PROVE Goal
  <2>1. [kind |-> k, life |-> life] \in Arrival
    BY <1>0 DEF Arrival
  <2>2. QED
    BY <1>0, <1>2, <2>1 DEF Arrives
<1>3. ASSUME UNCHANGED <<arrived, cut>>, skipped \subseteq skipped', log' = log,
             synced' = synced \/ synced' = [f \in File |-> Len(log[f])]
      PROVE  Goal
  <2>1. CASE synced' = synced
    BY <1>0, <1>3, <2>1
  <2>2. CASE synced' = [f \in File |-> Len(log[f])]
    BY <1>0, <1>3, <2>2
  <2>3. QED
    BY <1>3, <2>1, <2>2
<1>4. ASSUME NEW e \in DOMAIN arrived, NEW n \in Nat, First(e), Grown(e, n), UNCHANGED <<arrived, skipped, cut>>,
             \/ synced' = synced
             \/ synced' = [synced EXCEPT ![FileOf(KindOf(e))] = Len(log'[FileOf(KindOf(e))])]
      PROVE  Goal
  <2>1. e \in Nat
    BY <1>0
  <2>2. log' \in [File -> Seq(Fragment)] /\ \A f \in File : Len(log[f]) <= Len(log'[f])
    BY <1>0, <1>4, <2>1, GrownLog
  <2>3. \A f \in File : Len(log'[f]) \in Nat
    BY <2>2
  <2>4. CASE synced' = synced
    BY <1>0, <1>4, <2>2, <2>3, <2>4
  <2>5. CASE synced' = [synced EXCEPT ![FileOf(KindOf(e))] = Len(log'[FileOf(KindOf(e))])]
    <3>1. /\ synced' \in [File -> Nat]
          /\ \A f \in File : synced'[f] = synced[f] \/ synced'[f] = Len(log'[f])
      BY <1>0, <2>3, <2>5, FileOfFile
    <3>2. \A f \in File : synced'[f] <= Len(log'[f]) /\ synced[f] <= synced'[f]
      BY <1>0, <2>2, <2>3, <3>1
    <3>3. QED
      BY <1>0, <1>4, <2>2, <3>1, <3>2
  <2>6. QED
    BY <1>4, <2>4, <2>5
<1>5. ASSUME NEW e \in DOMAIN arrived, NEW n \in 0..Bytes(e), Puts(e, n) PROVE Goal
  <2>1. First(e) /\ Grown(e, n) /\ UNCHANGED <<arrived, skipped, cut>>
    BY <1>5 DEF Puts, TakesFirst, First, Grown
  <2>2. n \in Nat
    OBVIOUS
  <2>3. \/ synced' = synced
        \/ synced' = [synced EXCEPT ![FileOf(KindOf(e))] = Len(log'[FileOf(KindOf(e))])]
    BY <1>5 DEF Puts
  <2>4. QED
    BY <1>4, <2>1, <2>2, <2>3
<1>6. CASE Drops \/ Skips
  BY <1>3, <1>6 DEF Drops, Skips, TakesFirst
<1>7. CASE (\E t \in Thread : Asks(t)) \/ Stands \/ Closes \/ GivesUp \/ Opens
  BY <1>1, <1>7 DEF Asks, Stands, Closes, GivesUp, Opens, Durable
<1>8. ASSUME NEW ok \in BOOLEAN, Flushes(ok) \/ Stops(ok) PROVE Goal
  BY <1>3, <1>8 DEF Flushes, Stops, Syncs, TakesFirst
<1>9. CASE Ends /\ Crash
  <2>1. UNCHANGED <<arrived, skipped, synced, cut>>
    BY <1>9 DEF Ends, Crash
  <2>2. CASE log' = log
    BY <1>1, <2>1, <2>2
  <2>3. CASE /\ Takes("append") /\ ~failed /\ Fits(Head(queue).event)
             /\ LET e == Head(queue).event
                IN  \E k \in 1..Bytes(e) - 1 :
                        log' = [log EXCEPT ![FileOf(KindOf(e))] =
                                               Append(@, [event |-> e, len |-> k])]
    <3> DEFINE e == Head(queue).event
    <3>1. mode \in {"live", "closing"} /\ Backlog = queue /\ Backlog # <<>>
      BY <2>3 DEF Takes, IInv, Phases, Backlog
    <3>2. First(e)
      BY <2>3, <3>1 DEF First, Takes
    <3>3. e \in DOMAIN arrived
      BY <3>1, <3>2, HeadWaits DEF First
    <3>4. Bytes(e) \in Nat
      BY <1>0, <3>3, Sizes
    <3>5. PICK k \in 1..Bytes(e) - 1 :
                  log' = [log EXCEPT ![FileOf(KindOf(e))] = Append(@, [event |-> e, len |-> k])]
      BY <2>3
    <3>6. k \in Nat /\ Grown(e, k)
      BY <3>4, <3>5 DEF Grown
    <3> HIDE DEF e
    <3>7. QED
      BY <1>4, <2>1, <3>2, <3>3, <3>6
  <2>4. QED
    BY <1>9, <2>2, <2>3 DEF Crash
<1>10. CASE Ends /\ PowerCut
  <2>1. log' \in [File -> Seq(Fragment)] /\ synced' = [f \in File |-> Len(log'[f])] /\ cut' = TRUE
    BY <1>10, CutLog DEF IInv
  <2>2. \A f \in File : Len(log'[f]) \in Nat
    BY <2>1
  <2>3. UNCHANGED <<arrived, skipped>>
    BY <1>10 DEF Ends
  <2>4. QED
    BY <1>10, <2>1, <2>2, <2>3
<1>11. QED
  BY <1>2, <1>5, <1>6, <1>7, <1>8, <1>9, <1>10 DEF Effect

-----------------------------------------------------------------------------
(* One part of the invariant after the other. *)
LEMMA LastNext == IInv /\ Effect => ShutdownLast'
<1> SUFFICES ASSUME IInv, Effect PROVE ShutdownLast'
  OBVIOUS
<1>0. Backlog \in Seq(Command) /\ ShutdownLast
  BY BacklogTyped DEF IInv
<1>1. ASSUME NEW c \in Command, Backlog' = Append(Backlog, c), mode \in {"pending", "live"},
             c.op # "shutdown" \/ mode' = "closing", mode' \in {"pending", "live", "closing"}
      PROVE  ShutdownLast'
  <2>1. /\ DOMAIN Backlog' = 1..Len(Backlog) + 1 /\ Len(Backlog') = Len(Backlog) + 1
        /\ Backlog'[Len(Backlog) + 1] = c /\ Len(Backlog) \in Nat
        /\ \A i \in 1..Len(Backlog) : Backlog'[i] = Backlog[i] /\ i \in DOMAIN Backlog
    BY <1>0, <1>1
  <2>2. \A i \in DOMAIN Backlog : Backlog[i].op # "shutdown"
    BY <1>0, <1>1 DEF ShutdownLast
  <2>3. \A i \in DOMAIN Backlog' : i = Len(Backlog) + 1 \/ Backlog'[i].op # "shutdown"
    BY <2>1, <2>2
  <2>4. QED
    BY <1>1, <2>1, <2>3 DEF ShutdownLast
<1>2. ASSUME NEW k \in Kind \cup {"session_resumed"}, Arrives(k) PROVE ShutdownLast'
  <2>1. [op |-> "append", event |-> Len(arrived) + 1] \in Command
    BY DEF Command, IInv, Typed
  <2>2. QED
    BY <1>1, <1>2, <2>1 DEF Arrives
<1>3. ASSUME NEW t \in Thread, Asks(t) PROVE ShutdownLast'
  <2>1. [op |-> "flush", by |-> t, upto |-> Len(arrived)] \in Command
    BY DEF Command, IInv, Typed
  <2>2. QED
    BY <1>1, <1>3, <2>1 DEF Asks
<1>4. CASE Closes
  <2>1. [op |-> "shutdown"] \in Command
    BY DEF Command
  <2>2. QED
    BY <1>1, <1>4, <2>1 DEF Closes
<1>5. CASE Stands \/ GivesUp \/ Ends \/ Opens
  BY <1>0, <1>5 DEF Stands, GivesUp, Ends, Opens, ShutdownLast
<1>6. ASSUME TakesFirst, mode' \in {mode, "closed"} PROVE ShutdownLast'
  <2>1. Backlog # <<>> /\ Backlog' = Tail(Backlog)
    BY <1>6 DEF TakesFirst
  <2>2. Len(Tail(Backlog)) = Len(Backlog) - 1
    BY <1>0, <2>1
  <2>3. QED
    BY <1>0, <1>6, <2>1, <2>2, HeadWaits DEF ShutdownLast
<1>7. CASE Drops \/ Skips
  BY <1>6, <1>7 DEF Drops, Skips
<1>8. ASSUME NEW e \in DOMAIN arrived, NEW n \in 0..Bytes(e), Puts(e, n) PROVE ShutdownLast'
  BY <1>6, <1>8 DEF Puts
<1>9. ASSUME NEW ok \in BOOLEAN, Flushes(ok) \/ Stops(ok) PROVE ShutdownLast'
  BY <1>6, <1>9 DEF Flushes, Stops, Syncs
<1>10. QED
  BY <1>2, <1>3, <1>4, <1>5, <1>7, <1>8, <1>9 DEF Effect

LEMMA TypedNext == IInv /\ Effect => Typed'
<1> SUFFICES ASSUME IInv, Effect PROVE Typed'
  OBVIOUS
<1>0. /\ Typed /\ arrived \in Seq(Arrival) /\ life \in Nat /\ log \in [File -> Seq(Fragment)]
      /\ DOMAIN arrived = 1..Len(arrived) /\ Len(arrived) \in Nat
      /\ \A f \in File : DOMAIN log[f] = 1..Len(log[f]) /\ Len(log[f]) \in Nat
  BY DEF IInv, Typed
<1>1. /\ arrived' \in Seq(Arrival) /\ Len(arrived) <= Len(arrived')
      /\ \A e \in DOMAIN arrived : e \in DOMAIN arrived' /\ arrived'[e] = arrived[e]
  BY <1>0, EffectFiles, Kept
<1>2. life' \in Nat /\ life <= life'
  <2>1. life' = life \/ life' = life + 1
    BY DEF Effect, Arrives, Asks, Stands, Closes, GivesUp, Drops, Puts, Skips, Syncs, Flushes,
           Stops, Ends, Opens, TakesFirst, Durable
  <2>2. QED
    BY <1>0, <2>1
<1>3. \A e \in DOMAIN arrived' : arrived'[e].life <= life'
  <2>1. CASE arrived' = arrived
    <3>1. \A e \in DOMAIN arrived : arrived[e].life \in Nat /\ arrived[e].life <= life
      <4>1. \A e \in DOMAIN arrived : arrived[e] \in Arrival
        BY <1>0
      <4>2. QED
        BY <1>0, <4>1 DEF Typed, Arrival
    <3>2. QED
      BY <1>0, <1>2, <2>1, <3>1
  <2>2. ASSUME NEW k \in Kind \cup {"session_resumed"}, Arrives(k)
        PROVE  \A e \in DOMAIN arrived' : arrived'[e].life <= life'
    <3> DEFINE x == [kind |-> k, life |-> life]
    <3>1. x \in Arrival /\ x.life = life
      BY <1>0 DEF Arrival
    <3>2. arrived' = Append(arrived, x) /\ life' = life
      BY <2>2 DEF Arrives
    <3> HIDE DEF x
    <3>3. /\ DOMAIN arrived' = 1..Len(arrived) + 1 /\ arrived'[Len(arrived) + 1] = x
          /\ \A e \in 1..Len(arrived) : arrived'[e] = arrived[e]
      BY <1>0, <3>1, <3>2
    <3>4. QED
      BY <1>0, <3>1, <3>2, <3>3 DEF Typed
  <2>3. arrived' = arrived \/ \E k \in Kind \cup {"session_resumed"} : Arrives(k)
    BY DEF Effect, Asks, Stands, Closes, GivesUp, Drops, Puts, Skips, Syncs, Flushes,
           Stops, Ends, Opens, TakesFirst, Durable
  <2>4. QED
    BY <2>1, <2>2, <2>3
<1>4. \A f \in File : \A i \in DOMAIN log'[f] : log'[f][i].event \in DOMAIN arrived'
  <2>1. CASE log' = log
    BY <1>0, <1>1, <2>1 DEF Typed
  <2>2. ASSUME arrived' = arrived, NEW e \in DOMAIN arrived, NEW n \in Nat, Grown(e, n)
        PROVE  \A f \in File : \A i \in DOMAIN log'[f] : log'[f][i].event \in DOMAIN arrived'
    <3>1. e \in Nat
      BY <1>0
    <3>2. \A f \in File : \A i \in DOMAIN log'[f] :
              \/ i \in DOMAIN log[f] /\ log'[f][i] = log[f][i]
              \/ log'[f][i] = [event |-> e, len |-> n]
      BY <1>0, <2>2, <3>1, GrownLog
    <3>3. \A f \in File : \A i \in DOMAIN log[f] : log[f][i].event \in DOMAIN arrived
      BY <1>0 DEF Typed
    <3>4. QED
      BY <2>2, <3>2, <3>3
  <2>3. CASE PowerCut /\ arrived' = arrived
    <3>1. \A f \in File :
              /\ log'[f] \in Seq(Fragment) /\ Len(log'[f]) <= Len(log[f])
              /\ \A i \in 1..Len(log'[f]) : log'[f][i].event = log[f][i].event
      BY <1>0, <2>3, CutLog
    <3>2. \A f \in File : DOMAIN log'[f] = 1..Len(log'[f]) /\ Len(log'[f]) \in Nat
      BY <3>1
    <3>3. \A f \in File : \A i \in DOMAIN log'[f] :
              i \in DOMAIN log[f] /\ log'[f][i].event = log[f][i].event
      BY <1>0, <3>1, <3>2, SMTT(30)
    <3>4. QED
      BY <2>3, <1>0, <3>3 DEF Typed
  <2>4. QED
    BY <2>1, <2>2, <2>3, EffectFiles
<1>5. acked' \subseteq DOMAIN arrived'
  <2>1. CASE acked' = acked
    BY <1>0, <1>1, <2>1 DEF Typed
  <2>2. ASSUME NEW ok \in BOOLEAN, Flushes(ok) PROVE acked' \subseteq DOMAIN arrived'
    <3>1. Backlog # <<>> /\ Head(Backlog).op = "flush" /\ arrived' = arrived
      BY <2>2 DEF Flushes, Syncs, TakesFirst
    <3>2. Backlog[1].upto <= Len(arrived) /\ Head(Backlog) = Backlog[1] /\ 1 \in DOMAIN Backlog
      BY <3>1, HeadWaits DEF IInv, Waits
    <3>3. Backlog \in Seq(Command)
      BY BacklogTyped DEF IInv
    <3>4. Backlog[1] \in Command
      BY <3>2, <3>3
    <3>5. Backlog[1].upto \in Nat
      BY <3>1, <3>2, <3>4 DEF Command
    <3>6. 1..Head(Backlog).upto \subseteq DOMAIN arrived
      BY <1>0, <3>2, <3>5
    <3>7. acked' \subseteq acked \cup 1..Head(Backlog).upto
      BY <2>2 DEF Flushes
    <3>8. QED
      BY <1>0, <3>1, <3>6, <3>7 DEF Typed
  <2>3. acked' = acked \/ \E ok \in BOOLEAN : Flushes(ok)
    BY DEF Effect, Arrives, Asks, Stands, Closes, GivesUp, Drops, Puts, Skips,
           Stops, Ends, Opens, Durable
  <2>4. QED
    BY <2>1, <2>2, <2>3
<1>6. QED
  BY <1>1, <1>2, <1>3, <1>4, <1>5, EffectFiles DEF Typed

LEMMA WaitsNext == IInv /\ Effect => Waits'
<1> SUFFICES ASSUME IInv, Effect PROVE Waits'
  OBVIOUS
<1>0. /\ Typed /\ Waits /\ arrived \in Seq(Arrival) /\ life \in Nat /\ log \in [File -> Seq(Fragment)]
      /\ DOMAIN arrived = 1..Len(arrived) /\ Len(arrived) \in Nat
      /\ \A f \in File : DOMAIN log[f] = 1..Len(log[f]) /\ Len(log[f]) \in Nat
      /\ Backlog \in Seq(Command) /\ DOMAIN Backlog = 1..Len(Backlog) /\ Len(Backlog) \in Nat
  BY BacklogTyped DEF IInv, Typed
<1>1. /\ arrived' \in Seq(Arrival) /\ Len(arrived) <= Len(arrived') /\ Len(arrived') \in Nat
      /\ \A e \in DOMAIN arrived : e \in DOMAIN arrived' /\ arrived'[e] = arrived[e]
  <2>1. /\ arrived' \in Seq(Arrival) /\ Len(arrived) <= Len(arrived')
        /\ \A e \in DOMAIN arrived : e \in DOMAIN arrived' /\ arrived'[e] = arrived[e]
    BY <1>0, EffectFiles, Kept
  <2>2. QED
    BY <2>1
<1>2. \A i \in DOMAIN Backlog : Backlog[i].op = "flush" => Backlog[i].upto \in Nat
  <2>1. \A i \in DOMAIN Backlog : Backlog[i] \in Command
    BY <1>0
  <2>2. QED
    BY <2>1 DEF Command
<1>3. ASSUME NEW c \in Command, Backlog' = Append(Backlog, c), life' = life, log' = log,
             c.op = "append" => /\ c.event = Len(arrived) + 1 /\ c.event \in DOMAIN arrived'
                                /\ arrived'[c.event].life = life,
             c.op = "flush" => c.upto = Len(arrived)
      PROVE  Waits'
  <2> DEFINE n == Len(Backlog)
             B == Backlog'
  <2>1. /\ DOMAIN B = 1..n + 1 /\ B[n + 1] = c
        /\ \A i \in 1..n : B[i] = Backlog[i] /\ i \in DOMAIN Backlog
        /\ n \in Nat
    BY <1>0, <1>3
  <2> HIDE DEF n, B
  <2>2. ASSUME NEW i \in 1..n
        PROVE  /\ B[i].op = "flush" => B[i].upto <= Len(arrived')
               /\ B[i].op = "append" =>
                      /\ B[i].event \in DOMAIN arrived' /\ arrived'[B[i].event].life = life'
                      /\ \A f \in File : \A j \in DOMAIN log'[f] : log'[f][j].event < B[i].event
                      /\ \A j \in 1..i - 1 :
                             /\ B[j].op = "append" => B[j].event < B[i].event
                             /\ B[j].op = "flush" => B[j].upto < B[i].event
    <3>1. i \in DOMAIN Backlog /\ B[i] = Backlog[i] /\ \A j \in 1..i - 1 : B[j] = Backlog[j]
      BY <2>1
    <3>2. B[i].op = "flush" => B[i].upto <= Len(arrived')
      <4>1. B[i].op = "flush" => B[i].upto <= Len(arrived) /\ B[i].upto \in Nat
        BY <1>0, <1>2, <3>1 DEF Waits
      <4>2. QED
        BY <1>0, <1>1, <4>1
    <3>3. QED
      BY <1>0, <1>1, <1>3, <3>1, <3>2 DEF Waits
  <2>3. ASSUME c.op = "append"
        PROVE  /\ c.event \in DOMAIN arrived' /\ arrived'[c.event].life = life'
               /\ \A f \in File : \A j \in DOMAIN log'[f] : log'[f][j].event < c.event
               /\ \A j \in 1..n :
                      /\ B[j].op = "append" => B[j].event < c.event
                      /\ B[j].op = "flush" => B[j].upto < c.event
    <3>1. \A f \in File : \A j \in DOMAIN log'[f] : log'[f][j].event \in 1..Len(arrived)
      BY <1>0, <1>3 DEF Typed
    <3>2. \A j \in 1..n : B[j].op = "append" => B[j].event \in 1..Len(arrived)
      BY <1>0, <2>1 DEF Waits
    <3>3. \A j \in 1..n : B[j].op = "flush" => B[j].upto <= Len(arrived) /\ B[j].upto \in Nat
      BY <1>0, <1>2, <2>1 DEF Waits
    <3>4. c.event = Len(arrived) + 1
      BY <1>3, <2>3
    <3>5. QED
      BY <1>0, <1>3, <2>3, <3>1, <3>2, <3>3, <3>4
  <2>4. c.op = "flush" => c.upto <= Len(arrived')
    BY <1>0, <1>1, <1>3
  <2>5. \A i \in 1..n + 1 : i \in 1..n \/ (i = n + 1 /\ i - 1 = n)
    BY <2>1
  <2>6. ASSUME NEW i \in DOMAIN B
        PROVE  /\ B[i].op = "flush" => B[i].upto <= Len(arrived')
               /\ B[i].op = "append" =>
                      /\ B[i].event \in DOMAIN arrived' /\ arrived'[B[i].event].life = life'
                      /\ \A f \in File : \A j \in DOMAIN log'[f] : log'[f][j].event < B[i].event
                      /\ \A j \in 1..i - 1 :
                             /\ B[j].op = "append" => B[j].event < B[i].event
                             /\ B[j].op = "flush" => B[j].upto < B[i].event
    <3>1. CASE i \in 1..n
      BY <2>2, <3>1
    <3>2. CASE i = n + 1 /\ i - 1 = n
      BY <2>1, <2>3, <2>4, <3>2
    <3>3. QED
      BY <2>1, <2>5, <3>1, <3>2
  <2>7. QED
    BY <2>6 DEF Waits, B
<1>4. ASSUME TakesFirst,
             log' = log \/ \E e \in DOMAIN arrived : \E m \in Nat : First(e) /\ Grown(e, m)
      PROVE  Waits'
  <2> DEFINE B == Backlog'
  <2>1. /\ Backlog # <<>> /\ UNCHANGED <<arrived, life>>
        /\ \A i \in DOMAIN B : i + 1 \in DOMAIN Backlog /\ B[i] = Backlog[i + 1]
        /\ DOMAIN B = 1..Len(Backlog) - 1
    BY <1>4, HeadWaits DEF TakesFirst
  <2>2. \A i \in DOMAIN B : \A f \in File : \A j \in DOMAIN log'[f] :
            B[i].op = "append" => log'[f][j].event < B[i].event
    <3>1. \A i \in DOMAIN B : \A f \in File : \A j \in DOMAIN log[f] :
              B[i].op = "append" => log[f][j].event < B[i].event
      BY <1>0, <2>1 DEF Waits
    <3>2. ASSUME NEW e \in DOMAIN arrived, NEW m \in Nat, First(e), Grown(e, m),
                 NEW i \in DOMAIN B, NEW f \in File, NEW j \in DOMAIN log'[f], B[i].op = "append"
          PROVE  log'[f][j].event < B[i].event
      <4>1. e \in Nat
        BY <1>0
      <4>2. \/ j \in DOMAIN log[f] /\ log'[f][j] = log[f][j]
            \/ log'[f][j] = [event |-> e, len |-> m]
        BY <1>0, <3>2, <4>1, GrownLog
      <4>3. Backlog[1].op = "append" /\ Backlog[1].event = e /\ 1 \in DOMAIN Backlog
        BY <2>1, <3>2, HeadWaits DEF First
      <4>4. i + 1 \in DOMAIN Backlog /\ B[i] = Backlog[i + 1] /\ 1 \in 1..(i + 1) - 1
        BY <1>0, <2>1
      <4>5. e < B[i].event
        BY <1>0, <3>2, <4>3, <4>4 DEF Waits
      <4>6. QED
        BY <3>1, <3>2, <4>2, <4>5
    <3>3. QED
      BY <1>4, <3>1, <3>2
  <2>3. ASSUME NEW i \in DOMAIN B
        PROVE  /\ B[i].op = "flush" => B[i].upto <= Len(arrived')
               /\ B[i].op = "append" =>
                      /\ B[i].event \in DOMAIN arrived' /\ arrived'[B[i].event].life = life'
                      /\ \A j \in 1..i - 1 :
                             /\ B[j].op = "append" => B[j].event < B[i].event
                             /\ B[j].op = "flush" => B[j].upto < B[i].event
    <3>1. i + 1 \in DOMAIN Backlog /\ B[i] = Backlog[i + 1]
      BY <2>1
    <3> HIDE DEF B
    <3>2. \A j \in 1..i - 1 : j + 1 \in 1..(i + 1) - 1 /\ j \in DOMAIN B
      BY <1>0, <2>1
    <3>4. \A j \in 1..i - 1 : j + 1 \in 1..(i + 1) - 1 /\ B[j] = Backlog[j + 1]
      BY <2>1, <3>2
    <3>3. QED
      BY <1>0, <2>1, <3>1, <3>4 DEF Waits
  <2>4. QED
    BY <2>2, <2>3 DEF Waits
<1>5. ASSUME Backlog' = Backlog, UNCHANGED <<arrived, life, log>> PROVE Waits'
  BY <1>0, <1>5 DEF Waits
<1>6. ASSUME Backlog' = <<>> PROVE Waits'
  BY <1>6 DEF Waits
<1>7. ASSUME NEW k \in Kind \cup {"session_resumed"}, Arrives(k) PROVE Waits'
  <2> DEFINE x == [kind |-> k, life |-> life]
             c == [op |-> "append", event |-> Len(arrived) + 1]
  <2>1. x \in Arrival /\ x.life = life /\ c \in Command /\ c.op = "append"
        /\ c.event = Len(arrived) + 1
    BY <1>0 DEF Arrival, Command
  <2>2. arrived' = Append(arrived, x) /\ Backlog' = Append(Backlog, c) /\ life' = life /\ log' = log
    BY <1>7 DEF Arrives
  <2> HIDE DEF x, c
  <2>3. Len(arrived) + 1 \in DOMAIN arrived' /\ arrived'[Len(arrived) + 1] = x
    BY <1>0, <2>1, <2>2
  <2>4. QED
    BY <1>3, <2>1, <2>2, <2>3
<1>8. ASSUME NEW t \in Thread, Asks(t) PROVE Waits'
  <2>1. [op |-> "flush", by |-> t, upto |-> Len(arrived)] \in Command
    BY <1>0 DEF Command
  <2>2. QED
    BY <1>3, <1>8, <2>1 DEF Asks, Durable
<1>9. CASE Closes
  <2>1. [op |-> "shutdown"] \in Command
    BY DEF Command
  <2>2. QED
    BY <1>3, <1>9, <2>1 DEF Closes, Durable
<1>10. CASE Stands \/ GivesUp
  BY <1>5, <1>6, <1>10 DEF Stands, GivesUp, Durable
<1>11. CASE Ends \/ Opens
  BY <1>6, <1>11 DEF Ends, Opens
<1>12. CASE Drops \/ Skips
  BY <1>4, <1>12 DEF Drops, Skips
<1>13. ASSUME NEW ok \in BOOLEAN, Flushes(ok) \/ Stops(ok) PROVE Waits'
  BY <1>4, <1>13 DEF Flushes, Stops, Syncs
<1>14. ASSUME NEW e \in DOMAIN arrived, NEW n \in 0..Bytes(e), Puts(e, n) PROVE Waits'
  <2>1. n \in Nat /\ First(e) /\ Grown(e, n) /\ TakesFirst
    BY <1>14 DEF Puts, TakesFirst, First, Grown
  <2>2. QED
    BY <1>4, <2>1
<1>15. QED
  BY <1>7, <1>8, <1>9, <1>10, <1>11, <1>12, <1>13, <1>14 DEF Effect

\* An event that lies in its file stays there while its fragments do.
LEMMA LiesKept ==
    ASSUME NEW e \in DOMAIN arrived, Bytes(e)' = Bytes(e), NEW f \in File, NEW n \in Nat, NEW m \in Nat,
           n <= m, \A j \in 1..n : log'[f][j] = log[f][j], LiesIn(e, f, n)
    PROVE  LiesIn(e, f, m)'
<1>1. PICK j \in 1..n : log[f][j].event = e /\ Whole(log[f][j])
  BY DEF LiesIn
<1>2. j \in 1..m /\ log'[f][j] = log[f][j]
  BY <1>1
<1>3. log'[f][j].event = e /\ log'[f][j].len = Bytes(e)
  BY <1>1, <1>2 DEF Whole
<1>4. Whole(log[f][j])'
  BY <1>3 DEF Whole
<1>5. QED
  BY <1>2, <1>3, <1>4 DEF LiesIn

\* The first event that waits is the oldest.
LEMMA FirstIsOldest ==
    ASSUME IInv, NEW e \in DOMAIN arrived, NEW d \in DOMAIN arrived, First(e), Waiting(d)
    PROVE  d = e \/ e < d
<1>1. /\ 1 \in DOMAIN Backlog /\ Backlog[1].op = "append" /\ Backlog[1].event = e
      /\ DOMAIN Backlog = 1..Len(Backlog) /\ Len(Backlog) \in Nat
  <2>1. Backlog \in Seq(Command)
    BY BacklogTyped DEF IInv
  <2>2. QED
    BY <2>1, HeadWaits DEF First
<1>2. PICK i \in DOMAIN Backlog : Backlog[i].op = "append" /\ Backlog[i].event = d
  BY DEF Waiting
<1>3. CASE i = 1
  BY <1>1, <1>2, <1>3
<1>4. CASE i # 1
  <2>1. 1 \in 1..i - 1
    BY <1>1, <1>4
  <2>2. QED
    BY <1>1, <1>2, <2>1 DEF IInv, Waits
<1>5. QED
  BY <1>3, <1>4

LEMMA HistoryNext == IInv /\ Effect => Ascending' /\ Holes'
<1> SUFFICES ASSUME IInv, Effect PROVE Ascending' /\ Holes'
  OBVIOUS
<1> DEFINE Right(f, i) ==
        /\ \A j \in 1..i - 1 : log'[f][j].event < log'[f][i].event
        /\ \A e \in 1..log'[f][i].event - 1 :
               FileOf(KindOf(e)') = f /\ arrived'[e].life = arrived'[log'[f][i].event].life
                   => e \in skipped' \/ LiesIn(e, f, i - 1)'
<1>0. /\ arrived \in Seq(Arrival) /\ log \in [File -> Seq(Fragment)]
      /\ DOMAIN arrived = 1..Len(arrived) /\ Len(arrived) \in Nat
      /\ \A f \in File : DOMAIN log[f] = 1..Len(log[f]) /\ Len(log[f]) \in Nat
      /\ \A f \in File : \A i \in DOMAIN log[f] : log[f][i].event \in DOMAIN arrived
      /\ \A e \in DOMAIN arrived : e \in Nat
  BY DEF IInv, Typed
<1>1. /\ skipped \subseteq skipped'
      /\ \A e \in DOMAIN arrived : /\ arrived'[e] = arrived[e]
                                   /\ KindOf(e)' = KindOf(e) /\ Bytes(e)' = Bytes(e)
  BY <1>0, EffectFiles, Kept
<1>2. \A f \in File : \A i \in DOMAIN log[f] : \A e \in 1..log[f][i].event - 1 : e \in DOMAIN arrived
  BY <1>0
<1>3. \A f \in File : \A i \in DOMAIN log[f] : \A j \in 1..i - 1 : j \in DOMAIN log[f]
  BY <1>0
\* a fragment that stays, with everything before it
<1>4. ASSUME NEW f \in File, NEW i \in DOMAIN log[f], log'[f][i].event = log[f][i].event,
             \A j \in 1..i - 1 : log'[f][j] = log[f][j]
      PROVE  Right(f, i)
  <2>1. \A j \in 1..i - 1 : log'[f][j].event < log'[f][i].event
    BY <1>4 DEF IInv, Ascending
  <2>2. ASSUME NEW e \in 1..log[f][i].event - 1,
               FileOf(KindOf(e)') = f, arrived'[e].life = arrived'[log[f][i].event].life
        PROVE  e \in skipped' \/ LiesIn(e, f, i - 1)'
    <3>1. e \in DOMAIN arrived /\ log[f][i].event \in DOMAIN arrived
      BY <1>0, <1>2
    <3>2. FileOf(KindOf(e)) = f /\ arrived[e].life = arrived[log[f][i].event].life
      BY <1>1, <2>2, <3>1
    <3>3. e \in skipped \/ LiesIn(e, f, i - 1)
      BY <3>2 DEF IInv, Holes
    <3>4. i - 1 \in Nat
      BY <1>0
    <3>5. CASE LiesIn(e, f, i - 1)
      <4>1. Bytes(e)' = Bytes(e)
        BY <1>1, <3>1
      <4>2. \A k \in Nat : k <= k
        OBVIOUS
      <4>3. QED
        BY <1>4, <3>1, <3>4, <3>5, <4>1, <4>2, LiesKept
    <3>6. QED
      BY <1>1, <3>3, <3>5
  <2>3. QED
    BY <1>4, <2>1, <2>2
\* the fragment that is added
<1>5. ASSUME NEW d \in DOMAIN arrived, NEW n \in Nat, First(d), arrived' = arrived,
             NEW f \in File, f = FileOf(KindOf(d)), NEW i \in DOMAIN log'[f], i = Len(log[f]) + 1,
             log'[f][i] = [event |-> d, len |-> n],
             \A j \in 1..Len(log[f]) : log'[f][j] = log[f][j]
      PROVE  Right(f, i)
  <2>1. i - 1 = Len(log[f]) /\ i - 1 \in Nat
    BY <1>0, <1>5
  <2>2. 1 \in DOMAIN Backlog /\ Backlog[1].op = "append" /\ Backlog[1].event = d
    BY <1>5, HeadWaits DEF First
  <2>3. arrived[d].life = life /\ \A j \in DOMAIN log[f] : log[f][j].event < d
    BY <2>2 DEF IInv, Waits
  <2>4. \A j \in 1..i - 1 : log'[f][j].event < log'[f][i].event
    BY <1>0, <1>5, <2>1, <2>3
  <2>5. ASSUME NEW e \in 1..d - 1, FileOf(KindOf(e)') = f, arrived'[e].life = arrived'[d].life
        PROVE  e \in skipped' \/ LiesIn(e, f, i - 1)'
    <3>1. e \in DOMAIN arrived /\ e < d /\ d \in Nat
      BY <1>0
    <3>2. FileOf(KindOf(e)) = f /\ arrived[e].life = life
      BY <1>1, <1>5, <2>3, <2>5, <3>1
    <3>3. ~Waiting(e)
      BY <1>0, <1>5, <3>1, FirstIsOldest
    <3>4. e \in skipped \/ Lies(e)
      BY <1>5, <3>1, <3>2, <3>3 DEF IInv, Accounted, First
    <3>5. CASE Lies(e)
      <4>1. LiesIn(e, f, i - 1)
        BY <2>1, <3>2, <3>5 DEF Lies
      <4>2. Bytes(e)' = Bytes(e) /\ \A k \in Nat : k <= k
        BY <1>1, <3>1
      <4>3. \A j \in 1..i - 1 : log'[f][j] = log[f][j]
        BY <1>5, <2>1
      <4>4. QED
        BY <2>1, <3>1, <4>1, <4>2, <4>3, LiesKept
    <3>6. QED
      BY <1>1, <3>4, <3>5
  <2>6. log'[f][i].event = d
    BY <1>5
  <2>7. QED
    BY <2>4, <2>5, <2>6
<1> HIDE DEF Right
<1>6. ASSUME NEW f \in File, NEW i \in DOMAIN log'[f]
      PROVE  Right(f, i)
  <2>1. CASE log' = log
    <3>1. /\ i \in DOMAIN log[f] /\ log'[f][i].event = log[f][i].event
          /\ \A j \in 1..i - 1 : log'[f][j] = log[f][j]
      BY <2>1
    <3>2. QED
      BY <1>4, <3>1
  <2>2. ASSUME arrived' = arrived, NEW d \in DOMAIN arrived, NEW n \in Nat, First(d), Grown(d, n)
        PROVE  Right(f, i)
    <3>1. d \in Nat
      BY <1>0
    <3>2. /\ \A j \in 1..Len(log[f]) : log'[f][j] = log[f][j]
          /\ \/ i \in DOMAIN log[f] /\ log'[f][i] = log[f][i]
             \/ /\ i = Len(log[f]) + 1 /\ f = FileOf(KindOf(d))
                /\ log'[f][i] = [event |-> d, len |-> n]
      BY <1>0, <2>2, <3>1, GrownLog
    <3>3. CASE i \in DOMAIN log[f] /\ log'[f][i] = log[f][i]
      <4>1. \A j \in 1..i - 1 : log'[f][j] = log[f][j]
        BY <1>0, <3>2, <3>3
      <4>2. QED
        BY <1>4, <3>3, <4>1
    <3>4. CASE /\ i = Len(log[f]) + 1 /\ f = FileOf(KindOf(d))
               /\ log'[f][i] = [event |-> d, len |-> n]
      <4>1. First(d) /\ arrived' = arrived
        BY <2>2
      <4>2. \A j \in 1..Len(log[f]) : log'[f][j] = log[f][j]
        BY <3>2
      <4>3. QED
        BY <1>5, <3>4, <4>1, <4>2
    <3>5. QED
      BY <3>2, <3>3, <3>4
  <2>3. CASE PowerCut
    <3>1. /\ log'[f] \in Seq(Fragment) /\ Len(log'[f]) <= Len(log[f])
          /\ \A j \in 1..Len(log'[f]) : log'[f][j].event = log[f][j].event
          /\ \A j \in 1..Len(log'[f]) : j < Len(log'[f]) => log'[f][j] = log[f][j]
      BY <2>3, CutLog DEF IInv
    <3>2. DOMAIN log'[f] = 1..Len(log'[f]) /\ Len(log'[f]) \in Nat
      BY <3>1
    <3>3. /\ i \in DOMAIN log[f] /\ log'[f][i].event = log[f][i].event
          /\ \A j \in 1..i - 1 : j \in 1..Len(log'[f]) /\ j < Len(log'[f])
      BY <1>0, <3>1, <3>2
    <3>4. \A j \in 1..i - 1 : log'[f][j] = log[f][j]
      BY <3>1, <3>3
    <3>5. QED
      BY <1>4, <3>3, <3>4
  <2>4. QED
    BY <2>1, <2>2, <2>3, EffectFiles
<1>7. Ascending'
  BY <1>6 DEF Ascending, Right
<1>8. Holes'
  BY <1>6 DEF Holes, Right
<1>9. QED
  BY <1>7, <1>8

LEMMA LiesStays ==
    ASSUME IInv, Effect, log' = log \/ \E d \in DOMAIN arrived : \E n \in Nat : Grown(d, n),
           NEW e \in DOMAIN arrived, Lies(e)
    PROVE  Lies(e)'
<1> DEFINE f == FileOf(KindOf(e))
<1>0. /\ arrived \in Seq(Arrival) /\ log \in [File -> Seq(Fragment)] /\ f \in File
      /\ \A d \in DOMAIN arrived : d \in Nat
  BY FileOfFile DEF IInv, Typed
<1>1. KindOf(e)' = KindOf(e) /\ Bytes(e)' = Bytes(e)
  BY <1>0, EffectFiles, Kept
<1>2. /\ Len(log[f]) <= Len(log'[f]) /\ \A i \in 1..Len(log[f]) : log'[f][i] = log[f][i]
      /\ Len(log[f]) \in Nat /\ Len(log'[f]) \in Nat
  <2>1. log' \in [File -> Seq(Fragment)]
    BY EffectFiles
  <2>2. Len(log[f]) \in Nat /\ Len(log'[f]) \in Nat
    BY <1>0, <2>1
  <2>3. CASE log' = log
    BY <2>2, <2>3
  <2>4. ASSUME NEW d \in DOMAIN arrived, NEW n \in Nat, Grown(d, n)
        PROVE  /\ Len(log[f]) <= Len(log'[f])
               /\ \A i \in 1..Len(log[f]) : log'[f][i] = log[f][i]
    BY <1>0, <2>4, GrownLog
  <2>5. QED
    BY <2>2, <2>3, <2>4
<1>3. LiesIn(e, f, Len(log[f]))
  BY DEF Lies
<1>4. PICK n \in Nat : n = Len(log[f])
  BY <1>2
<1>5. PICK m \in Nat : m = Len(log'[f])
  BY <1>2
<1>6. PICK g \in File : g = f
  BY <1>0
<1>7. LiesIn(e, g, m)'
  BY <1>1, <1>2, <1>3, <1>4, <1>5, <1>6, LiesKept
<1>8. FileOf(KindOf(e)') = g /\ Len(log'[g]) = m
  BY <1>1, <1>5, <1>6
<1>9. QED
  BY <1>7, <1>8 DEF Lies

LEMMA WaitingStays ==
    ASSUME IInv, TakesFirst, NEW e, Waiting(e)
    PROVE  Waiting(e)' \/ (Head(Backlog).op = "append" /\ Head(Backlog).event = e)
<1>1. PICK i \in DOMAIN Backlog : Backlog[i].op = "append" /\ Backlog[i].event = e
  BY DEF Waiting
<1>2. Backlog # <<>> /\ Backlog' = Tail(Backlog)
  BY DEF TakesFirst
<1>3. CASE i = 1
  BY <1>1, <1>2, <1>3, HeadWaits
<1>4. CASE i - 1 \in DOMAIN Tail(Backlog)
  <2>1. Len(Backlog) \in Nat /\ DOMAIN Backlog = 1..Len(Backlog)
    BY BacklogTyped DEF IInv
  <2>2. (i - 1) + 1 = i
    BY <2>1
  <2>3. Backlog'[i - 1] = Backlog[i]
    BY <1>2, <1>4, <2>2, HeadWaits
  <2>4. QED
    BY <1>1, <1>2, <1>4, <2>3 DEF Waiting
<1>5. QED
  BY <1>2, <1>3, <1>4, HeadWaits

\* The event that is written whole lies in its file.
LEMMA PutLies ==
    ASSUME IInv, NEW e \in DOMAIN arrived, NEW n \in Nat, n # 0, n = Bytes(e), Grown(e, n),
           arrived' = arrived
    PROVE  Lies(e)'
<1> DEFINE f == FileOf(KindOf(e))
<1>1. e \in Nat /\ log \in [File -> Seq(Fragment)] /\ f \in File
  BY FileOfFile DEF IInv, Typed
<1>2. log' \in [File -> Seq(Fragment)]
      /\ Len(log'[f]) = Len(log[f]) + 1 /\ log'[f][Len(log[f]) + 1] = [event |-> e, len |-> n]
  BY <1>1, GrownLog
<1>3. PICK j \in Nat : j = Len(log[f]) + 1
  BY <1>1
<1>4. j \in 1..Len(log'[f])
  BY <1>1, <1>2, <1>3
<1>5. KindOf(e)' = KindOf(e) /\ Bytes(e)' = Bytes(e)
  BY DEF KindOf, Bytes
<1>6. log'[f][j].event = e /\ log'[f][j].len = Bytes(e)'
  BY <1>2, <1>3, <1>5
<1>7. FileOf(KindOf(e)') = f
  BY <1>5
<1>8. QED
  BY <1>4, <1>6, <1>7 DEF Lies, LiesIn, Whole

LEMMA AccountedNext == IInv /\ Effect => Accounted'
<1> SUFFICES ASSUME IInv, Effect, mode' \in {"pending", "live", "closing"}, ~failed',
                    NEW e \in DOMAIN arrived', arrived'[e].life = life'
             PROVE  e \in skipped' \/ Lies(e)' \/ Waiting(e)'
  BY DEF Accounted
<1>0. /\ arrived \in Seq(Arrival) /\ life \in Nat
      /\ DOMAIN arrived = 1..Len(arrived) /\ Len(arrived) \in Nat
      /\ \A d \in DOMAIN arrived : d \in Nat /\ arrived[d].life \in Nat /\ arrived[d].life <= life
  <2>1. \A d \in DOMAIN arrived : arrived[d] \in Arrival
    BY DEF IInv, Typed
  <2>2. \A d \in DOMAIN arrived : arrived[d].life \in Nat
    BY <2>1 DEF Arrival
  <2>3. QED
    BY <2>2 DEF IInv, Typed
<1>1. /\ skipped \subseteq skipped'
      /\ \A d \in DOMAIN arrived : arrived'[d] = arrived[d]
  BY <1>0, EffectFiles, Kept
<1>2. ASSUME mode \in {"pending", "live", "closing"}, ~failed, e \in DOMAIN arrived, life' = life
      PROVE  e \in skipped \/ Lies(e) \/ Waiting(e)
  BY <1>1, <1>2 DEF IInv, Accounted
<1>3. ASSUME NEW c, Backlog' = Append(Backlog, c), Waiting(e) PROVE Waiting(e)'
  <2>1. Backlog \in Seq(Command)
    BY BacklogTyped DEF IInv
  <2>2. \A i \in DOMAIN Backlog : i \in DOMAIN Backlog' /\ Backlog'[i] = Backlog[i]
    BY <1>3, <2>1
  <2>3. QED
    BY <1>3, <2>2 DEF Waiting
<1>4. ASSUME NEW k \in Kind \cup {"session_resumed"}, Arrives(k)
      PROVE  e \in skipped' \/ Lies(e)' \/ Waiting(e)'
  <2> DEFINE x == [kind |-> k, life |-> life]
             c == [op |-> "append", event |-> Len(arrived) + 1]
  <2>1. Backlog \in Seq(Command) /\ c \in Command
    BY <1>0, BacklogTyped DEF IInv, Command
  <2>2. Backlog' = Append(Backlog, c) /\ arrived' = Append(arrived, x)
        /\ mode \in {"pending", "live"} /\ UNCHANGED <<failed, life, log>>
    BY <1>4 DEF Arrives
  <2>3. CASE e = Len(arrived) + 1
    <3>1. Len(Backlog) + 1 \in DOMAIN Backlog' /\ Backlog'[Len(Backlog) + 1] = c
      BY <2>1, <2>2
    <3>2. QED
      BY <2>3, <3>1 DEF Waiting
  <2>4. CASE e # Len(arrived) + 1
    <3>1. x \in Arrival
      BY <1>0, <1>4 DEF Arrival
    <3>2. e \in DOMAIN arrived
      <4> HIDE DEF x
      <4>1. DOMAIN arrived' = 1..Len(arrived) + 1
        BY <1>0, <2>2, <3>1
      <4>2. QED
        BY <1>0, <2>4, <4>1
    <3>3. e \in skipped \/ Lies(e) \/ Waiting(e)
      BY <1>2, <2>2, <3>2
    <3>4. Lies(e) => Lies(e)'
      BY <2>2, <3>2, LiesStays
    <3>5. QED
      BY <1>1, <1>3, <2>2, <3>3, <3>4
  <2>5. QED
    BY <2>3, <2>4
<1>5. ASSUME UNCHANGED <<failed, life, arrived, log>>, mode \in {"pending", "live"},
             Backlog' = Backlog \/ \E c : Backlog' = Append(Backlog, c)
      PROVE  e \in skipped' \/ Lies(e)' \/ Waiting(e)'
  <2>1. e \in skipped \/ Lies(e) \/ Waiting(e)
    BY <1>2, <1>5
  <2>2. Lies(e) => Lies(e)'
    BY <1>5, LiesStays
  <2>3. Waiting(e) => Waiting(e)'
    BY <1>3, <1>5 DEF Waiting
  <2>4. QED
    BY <1>1, <2>1, <2>2, <2>3
<1>6. CASE (\E t \in Thread : Asks(t)) \/ Closes
  BY <1>5, <1>6 DEF Asks, Closes, Durable
<1>7. CASE Stands
  <2>1. UNCHANGED <<failed, life, arrived, log, Backlog>> /\ mode \in {"pending", "live", "closing"}
    BY <1>7 DEF Stands, Durable
  <2>2. e \in skipped \/ Lies(e) \/ Waiting(e)
    BY <1>2, <2>1
  <2>3. Lies(e) => Lies(e)'
    BY <2>1, LiesStays
  <2>4. QED
    BY <1>1, <2>1, <2>2, <2>3 DEF Waiting
<1>8. CASE GivesUp \/ Ends \/ Drops
  BY <1>8 DEF GivesUp, Ends, Drops
<1>9. CASE Opens
  <2>1. arrived' = arrived /\ life' = life + 1
    BY <1>9 DEF Opens
  <2>2. QED
    BY <1>0, <2>1
<1>10. ASSUME TakesFirst, log' = log \/ \E d \in DOMAIN arrived : \E n \in Nat : Grown(d, n),
              ~failed, ~(Head(Backlog).op = "append" /\ Head(Backlog).event = e)
       PROVE  e \in skipped' \/ Lies(e)' \/ Waiting(e)'
  <2>1. mode \in {"live", "closing"} /\ UNCHANGED <<arrived, life>>
    BY <1>10 DEF TakesFirst
  <2>2. e \in skipped \/ Lies(e) \/ Waiting(e)
    BY <1>2, <1>10, <2>1
  <2>3. Lies(e) => Lies(e)'
    BY <1>10, <2>1, LiesStays
  <2>4. QED
    BY <1>1, <1>10, <2>2, <2>3, WaitingStays
<1>11. CASE Skips
  <2>1. TakesFirst /\ log' = log /\ ~failed /\ skipped' = skipped \cup {Head(Backlog).event}
    BY <1>11 DEF Skips
  <2>2. CASE Head(Backlog).op = "append" /\ Head(Backlog).event = e
    BY <2>1, <2>2
  <2>3. QED
    BY <1>10, <2>1, <2>2
<1>12. ASSUME NEW d \in DOMAIN arrived, NEW n \in 0..Bytes(d), Puts(d, n)
       PROVE  e \in skipped' \/ Lies(e)' \/ Waiting(e)'
  <2>1. /\ TakesFirst /\ ~failed /\ Grown(d, n) /\ Head(Backlog).event = d /\ n = Bytes(d)
        /\ arrived' = arrived
    BY <1>12 DEF Puts, TakesFirst, Grown
  <2>2. n \in Nat
    OBVIOUS
  <2>3. CASE e = d
    <3>1. n # 0
      BY <1>0, <2>1, Sizes
    <3>2. QED
      BY <2>1, <2>2, <2>3, <3>1, PutLies
  <2>4. CASE e # d
    BY <1>10, <2>1, <2>2, <2>4
  <2>5. QED
    BY <2>3, <2>4
<1>13. ASSUME NEW ok \in BOOLEAN, Flushes(ok) \/ Stops(ok)
       PROVE  e \in skipped' \/ Lies(e)' \/ Waiting(e)'
  <2>1. TakesFirst /\ log' = log /\ ~failed /\ Head(Backlog).op # "append"
    BY <1>13 DEF Flushes, Stops, Syncs
  <2>2. QED
    BY <1>10, <2>1
<1>14. QED
  BY <1>4, <1>6, <1>7, <1>8, <1>9, <1>11, <1>12, <1>13 DEF Effect

LEMMA ClosedNext == IInv /\ Effect => Closed'
<1> SUFFICES ASSUME IInv, Effect, mode' = "closed", pc' = "ended", ~failed', ~cut',
                    NEW e \in DOMAIN arrived', arrived'[e].life = life'
             PROVE  e \in skipped' \/ Lies(e)'
  BY DEF Closed
<1>1. skipped \subseteq skipped'
  BY EffectFiles
<1>2. ASSUME NEW ok \in BOOLEAN, Stops(ok) PROVE e \in skipped' \/ Lies(e)'
  <2>1. /\ TakesFirst /\ Head(Backlog).op = "shutdown" /\ ~failed
        /\ UNCHANGED <<arrived, life, log>> /\ mode \in {"live", "closing"} /\ Backlog # <<>>
    BY <1>2 DEF Stops, Syncs, TakesFirst
  <2>2. Backlog[1].op = "shutdown" /\ 1 \in DOMAIN Backlog
    BY <2>1, HeadWaits
  <2>3. Len(Backlog) = 1 /\ DOMAIN Backlog = 1..Len(Backlog)
    <3>1. Backlog \in Seq(Command)
      BY BacklogTyped DEF IInv
    <3>2. Len(Backlog) = 1
      BY <2>2 DEF IInv, ShutdownLast
    <3>3. DOMAIN Backlog = 1..Len(Backlog)
      BY <3>1
    <3>4. QED
      BY <3>2, <3>3
  <2>4. ~Waiting(e)
    BY <2>2, <2>3 DEF Waiting
  <2>5. e \in skipped \/ Lies(e)
    BY <2>1, <2>4 DEF IInv, Accounted
  <2>6. Lies(e) => Lies(e)'
    BY <2>1, LiesStays
  <2>7. QED
    BY <1>1, <2>5, <2>6
<1>3. CASE Stands
  <2>1. mode = "closed" /\ pc = "ended" /\ UNCHANGED <<failed, cut, arrived, life, log>>
    BY <1>3 DEF Stands, Durable
  <2>2. e \in skipped \/ Lies(e)
    BY <2>1 DEF IInv, Closed
  <2>3. Lies(e) => Lies(e)'
    BY <2>1, LiesStays
  <2>4. QED
    BY <1>1, <2>2, <2>3
<1>4. Stands \/ \E ok \in BOOLEAN : Stops(ok)
  BY DEF Effect, Arrives, Asks, Closes, GivesUp, Drops, Puts, Skips, Flushes, Ends, Opens,
         TakesFirst, Syncs
<1>5. QED
  BY <1>2, <1>3, <1>4

\* Safe, of one event
SafeOf(e) ==
    \/ e \in skipped
    \/ LiesIn(e, FileOf(KindOf(e)), synced[FileOf(KindOf(e))])
    \/ durability = "fast" /\ (Lies(e) \/ cut)

LEMMA SafeStays ==
    ASSUME IInv, Effect, NEW e \in acked
    PROVE  SafeOf(e)'
<1> DEFINE f == FileOf(KindOf(e))
<1>0. /\ e \in DOMAIN arrived /\ f \in File /\ SafeOf(e)
      /\ arrived \in Seq(Arrival) /\ log \in [File -> Seq(Fragment)] /\ synced \in [File -> Nat]
      /\ synced[f] <= Len(log[f]) /\ \A d \in DOMAIN arrived : d \in Nat
  BY FileOfFile DEF IInv, Typed, Safe, SafeOf
<1>1. KindOf(e)' = KindOf(e) /\ Bytes(e)' = Bytes(e)
  BY <1>0, EffectFiles, Kept
<1>2. durability' = durability
  BY DEF Effect, Arrives, Asks, Stands, Closes, GivesUp, Drops, Puts, Skips, Syncs, Flushes,
         Stops, Ends, Opens, TakesFirst, Durable
<1>3. skipped \subseteq skipped' /\ (cut => cut')
  BY EffectFiles
<1>4. ASSUME NEW n \in Nat, n = synced[f], NEW m \in Nat, m = synced'[f], n <= m,
             \A j \in 1..n : log'[f][j] = log[f][j],
             LiesIn(e, f, synced[f])
      PROVE  SafeOf(e)'
  <2>1. PICK g \in File : g = f
    BY <1>0
  <2>2. LiesIn(e, g, m)'
    BY <1>0, <1>1, <1>4, <2>1, LiesKept
  <2>3. FileOf(KindOf(e)') = g /\ synced'[g] = m
    BY <1>1, <1>4, <2>1
  <2>4. QED
    BY <2>2, <2>3 DEF SafeOf
<1>5. PICK n \in Nat : n = synced[f]
  BY <1>0
<1>6. PICK m \in Nat : m = synced'[f]
  BY <1>0, EffectFiles
<1>7. CASE LiesIn(e, f, synced[f])
  <2>1. n <= m /\ \A j \in 1..n : log'[f][j] = log[f][j]
    <3>1. CASE PowerCut
      <4>1. /\ synced'[f] = Len(log'[f]) /\ synced[f] <= Len(log'[f])
            /\ \A j \in 1..Len(log'[f]) : j <= synced[f] => log'[f][j] = log[f][j]
            /\ Len(log'[f]) \in Nat
        <5>1. log' \in [File -> Seq(Fragment)]
          BY EffectFiles
        <5>2. /\ synced'[f] = Len(log'[f]) /\ synced[f] <= Len(log'[f])
              /\ \A j \in 1..Len(log'[f]) : j <= synced[f] => log'[f][j] = log[f][j]
          BY <1>0, <3>1, CutLog DEF IInv
        <5>3. QED
          BY <1>0, <5>1, <5>2
      <4>2. \A j \in 1..n : j \in 1..Len(log'[f]) /\ j <= synced[f]
        BY <1>5, <4>1
      <4>3. QED
        BY <1>5, <1>6, <4>1, <4>2
    <3>2. CASE ~PowerCut
      <4>1. n <= m
        BY <1>0, <1>5, <1>6, <3>2, EffectFiles
      <4>2. \A j \in 1..n : j \in 1..Len(log[f])
        BY <1>0, <1>5
      <4>3. log' = log \/ \E d \in DOMAIN arrived : \E k \in Nat : Grown(d, k)
        BY <3>2, EffectFiles
      <4>4. \A j \in 1..Len(log[f]) : log'[f][j] = log[f][j]
        <5>1. ASSUME NEW d \in DOMAIN arrived, NEW k \in Nat, Grown(d, k)
              PROVE  \A j \in 1..Len(log[f]) : log'[f][j] = log[f][j]
          BY <1>0, <5>1, GrownLog
        <5>2. QED
          BY <4>3, <5>1
      <4>5. QED
        BY <4>1, <4>2, <4>4
    <3>3. QED
      BY <3>1, <3>2
  <2>2. QED
    BY <1>4, <1>5, <1>6, <1>7, <2>1
<1>8. CASE durability = "fast" /\ Lies(e)
  <2>1. CASE PowerCut
    BY <1>2, <1>8, <2>1 DEF PowerCut, SafeOf
  <2>2. CASE ~PowerCut
    <3>1. log' = log \/ \E d \in DOMAIN arrived : \E k \in Nat : Grown(d, k)
      BY <2>2, EffectFiles
    <3>2. Lies(e)'
      BY <1>0, <1>8, <3>1, LiesStays
    <3>3. QED
      BY <1>2, <1>8, <3>2 DEF SafeOf
  <2>3. QED
    BY <2>1, <2>2
<1>9. CASE e \in skipped \/ (durability = "fast" /\ cut)
  BY <1>2, <1>3, <1>9 DEF SafeOf
<1>10. QED
  BY <1>0, <1>7, <1>8, <1>9 DEF SafeOf

LEMMA SafeNext == IInv /\ Effect => Safe'
<1> SUFFICES ASSUME IInv, Effect, NEW e \in acked' PROVE SafeOf(e)'
  BY DEF Safe, SafeOf
<1>1. CASE e \in acked
  BY <1>1, SafeStays
<1>2. ASSUME NEW ok \in BOOLEAN, Flushes(ok), ok, e \in 1..Head(Backlog).upto, arrived[e].life = life
      PROVE  SafeOf(e)'
  <2> DEFINE f == FileOf(KindOf(e))
  <2>1. /\ TakesFirst /\ ~failed /\ Head(Backlog).op = "flush" /\ Backlog # <<>>
        /\ UNCHANGED <<arrived, log, durability>> /\ mode \in {"live", "closing"}
        /\ synced' = (IF durability = "fast" THEN synced ELSE [g \in File |-> Len(log[g])])
    BY <1>2 DEF Flushes, Syncs, TakesFirst
  <2>2. 1 \in DOMAIN Backlog /\ Head(Backlog) = Backlog[1] /\ Backlog[1].op = "flush"
    BY <2>1, HeadWaits
  <2>3. /\ Backlog \in Seq(Command) /\ DOMAIN Backlog = 1..Len(Backlog) /\ Len(Backlog) \in Nat
        /\ DOMAIN arrived = 1..Len(arrived) /\ Len(arrived) \in Nat
    BY BacklogTyped DEF IInv, Typed
  <2>4. Backlog[1].upto \in Nat /\ Backlog[1].upto <= Len(arrived)
    <3>1. Backlog[1] \in Command
      BY <2>2, <2>3
    <3>2. Backlog[1].upto \in Nat
      BY <2>2, <3>1 DEF Command
    <3>3. QED
      BY <2>2, <3>2 DEF IInv, Waits
  <2>5. e \in DOMAIN arrived /\ e \in Nat /\ e <= Backlog[1].upto
    BY <1>2, <2>2, <2>3, <2>4
  <2>6. ~Waiting(e)
    <3> SUFFICES ASSUME NEW i \in DOMAIN Backlog, Backlog[i].op = "append", Backlog[i].event = e
                 PROVE  FALSE
      BY DEF Waiting
    <3>1. i # 1
      BY <2>2
    <3>2. 1 \in 1..i - 1
      BY <2>3, <3>1
    <3>3. Backlog[1].upto < Backlog[i].event
      BY <2>2, <3>2 DEF IInv, Waits
    <3>4. QED
      BY <2>4, <2>5, <3>3
  <2>7. e \in skipped \/ Lies(e)
    BY <1>2, <2>1, <2>5, <2>6 DEF IInv, Accounted
  <2>8. skipped \subseteq skipped' /\ KindOf(e)' = KindOf(e)
    BY <2>1, EffectFiles DEF KindOf
  <2>9. CASE Lies(e)
    <3>1. Lies(e)'
      BY <2>1, <2>5, <2>9, LiesStays
    <3>2. f \in File
      BY FileOfFile
    <3>3. CASE durability = "fast"
      BY <2>1, <3>1, <3>3 DEF SafeOf
    <3>4. CASE durability # "fast"
      <4>1. FileOf(KindOf(e))' = f /\ synced'[f] = Len(log'[f])
        BY <2>1, <2>8, <3>2, <3>4
      <4>2. QED
        BY <3>1, <4>1 DEF SafeOf, Lies
    <3>5. QED
      BY <3>3, <3>4
  <2>10. QED
    BY <2>7, <2>8, <2>9 DEF SafeOf
<1>3. acked' = acked \/ \E ok \in BOOLEAN : Flushes(ok)
  BY DEF Effect, Arrives, Asks, Stands, Closes, GivesUp, Drops, Puts, Skips, Stops, Ends, Opens,
         Durable
<1>4. QED
  BY <1>1, <1>2, <1>3 DEF Flushes

LEMMA Stuttering == IInv /\ UNCHANGED vars => IInv'
<1> SUFFICES ASSUME IInv, UNCHANGED vars PROVE IInv'
  OBVIOUS
<1>1. UNCHANGED <<durability, mode, buffered, holders, queue, pc, failed, log, synced, arrived,
                  skipped, acked, cut, life>>
  BY DEF vars
<1>2. Backlog' = Backlog
  BY <1>1 DEF Backlog, Appends
<1>3. Phases' /\ Queues' /\ ShutdownLast' /\ Typed'
  BY <1>1, <1>2 DEF IInv, Phases, Queues, ShutdownLast, Typed
<1>4. \A e : Waiting(e)' <=> Waiting(e)
  BY <1>2 DEF Waiting
<1>5. \A e : Lies(e)' <=> Lies(e)
  BY <1>1 DEF Lies, LiesIn, Whole, Bytes, KindOf
<1>6. Waits' /\ Accounted' /\ Closed'
  BY <1>1, <1>2, <1>4, <1>5 DEF IInv, Waits, Accounted, Closed
<1>7. Safe'
  BY <1>1, <1>5 DEF IInv, Safe, LiesIn, Whole, Bytes, KindOf
<1>8. Ascending' /\ Holes'
  BY <1>1 DEF IInv, Ascending, Holes, LiesIn, Whole, Bytes, KindOf
<1>9. QED
  BY <1>3, <1>6, <1>7, <1>8 DEF IInv

LEMMA Invariant == Spec => []IInv
<1>1. IInv /\ Next => IInv'
  <2> SUFFICES ASSUME IInv, Next PROVE IInv'
    OBVIOUS
  <2>1. Effect /\ Queues'
    BY StepEffect DEF IInv, Typed
  <2>2. Phases'
    BY PhasesNext DEF IInv
  <2>3. QED
    BY <2>1, <2>2, LastNext, TypedNext, WaitsNext, AccountedNext, ClosedNext, SafeNext,
       HistoryNext DEF IInv
<1>2. QED
  BY <1>1, Initially, Stuttering, PTL DEF Spec

-----------------------------------------------------------------------------
LEMMA LiesIsStored ==
    ASSUME IInv, NEW e, NEW f \in File, NEW n \in 0..Len(log[f]), LiesIn(e, f, n)
    PROVE  Stored(e)
<1>1. DOMAIN log[f] = 1..Len(log[f]) /\ Len(log[f]) \in Nat
  BY DEF IInv, Typed
<1>2. 1..n \subseteq DOMAIN log[f]
  BY <1>1
<1>3. QED
  BY <1>2 DEF LiesIn, Stored

LEMMA LiesStored == ASSUME IInv, NEW e, Lies(e) PROVE Stored(e)
<1> DEFINE f == FileOf(KindOf(e))
<1>1. f \in File /\ Len(log[f]) \in 0..Len(log[f])
  BY FileOfFile DEF IInv, Typed
<1>2. QED
  BY <1>1, LiesIsStored DEF Lies

\* What was appended before a flush_events that returned Ok is in the log or over the cap,
\* whatever crashes, power cuts and failures come between and after: the channel keeps the
\* order of the calls, the writer fails for good, and what is synced outlives the machine.
THEOREM FlushBarrier == Spec => []FlushIsBarrier
<1>1. IInv => FlushIsBarrier
  <2> SUFFICES ASSUME IInv, NEW e \in acked, e \notin skipped, ~(cut /\ durability = "fast")
               PROVE  Stored(e)
    BY DEF FlushIsBarrier
  <2>1. CASE LiesIn(e, FileOf(KindOf(e)), synced[FileOf(KindOf(e))])
    <3> DEFINE f == FileOf(KindOf(e))
    <3>1. f \in File /\ synced[f] \in 0..Len(log[f])
      BY FileOfFile DEF IInv, Typed
    <3>2. QED
      BY <2>1, <3>1, LiesIsStored
  <2>2. CASE Lies(e)
    BY <2>2, LiesStored
  <2>3. QED
    BY <2>1, <2>2 DEF IInv, Safe
<1>2. QED
  BY <1>1, Invariant, PTL

\* When the drop of the last clone has returned after joining a writer that never failed, no
\* event of this life is missing from its file, save those over the cap: Shutdown is the last
\* command of the channel.
THEOREM CloseBarrier == Spec => []CloseIsBarrier
<1>1. IInv => CloseIsBarrier
  BY LiesStored DEF IInv, Closed, CloseIsBarrier
<1>2. QED
  BY <1>1, Invariant, PTL

\* The files hold the events in the order they were appended, and within a life nothing is
\* written after an event that is missing: the buffer goes before what promotes the handle,
\* and the writer drops every append after its first failure.
THEOREM LogHistory == Spec => []LogIsHistory
<1>1. IInv => LogIsHistory
  <2> SUFFICES ASSUME IInv, NEW f \in File, NEW i \in DOMAIN log[f],
                      NEW e \in 1..log[f][i].event - 1, FileOf(KindOf(e)) = f,
                      arrived[e].life = arrived[log[f][i].event].life, e \notin skipped
               PROVE  Stored(e)
    BY DEF IInv, Ascending, LogIsHistory
  <2>1. LiesIn(e, f, i - 1)
    BY DEF IInv, Holes
  <2>2. i - 1 \in 0..Len(log[f])
    BY DEF IInv, Typed
  <2>3. QED
    BY <2>1, <2>2, LiesIsStored
<1>2. QED
  BY <1>1, Invariant, PTL

-----------------------------------------------------------------------------
(* The bytes of a file. *)
AddLen(upto, s, n) == IF n = 0 THEN 0 ELSE upto[n - 1] + s[n].len

Adding(s) == CHOOSE upto : upto = [n \in 0..Len(s) |-> AddLen(upto, s, n)]

\* The length of a file is what its recursion ends with, and the recursion is well defined.
LEMMA LengthDef ==
    ASSUME NEW s \in Seq(Fragment)
    PROVE  /\ Length(s) = Adding(s)[Len(s)]
           /\ \A i \in 0..Len(s) : Adding(s)[i] = AddLen(Adding(s), s, i) /\ Adding(s)[i] \in Nat
<1> DEFINE n == Len(s)
           E == [i \in 0..n |-> [k \in Nat |-> IF i = 0 THEN k ELSE k + s[i].len]]
<1>1. n \in Nat /\ \A i \in 1..n : s[i].len \in Nat
  <2>1. \A i \in 1..n : s[i] \in Fragment
    OBVIOUS
  <2> QED
    BY <2>1 DEF Fragment
<1>2. E \in [0..n -> [Nat -> Nat]]
  <2>1. ASSUME NEW i \in 0..n, NEW k \in Nat
        PROVE  (IF i = 0 THEN k ELSE k + s[i].len) \in Nat
    BY <1>1
  <2> QED
    BY <2>1
<1>3. PICK g \in [0..n -> Nat] : \A i \in 0..n : g[i] = IF i = 0 THEN 0 ELSE E[i][g[i - 1]]
  <2>1. n \in Nat /\ 0 \in Nat
    BY <1>1
  <2> HIDE DEF E, n
  <2>2. \E g \in [0..n -> Nat] : Recurs(g, 0, n, 0, E)
    BY <1>2, <2>1, RecursionExists
  <2> QED
    BY <2>2 DEF Recurs
<1>4. ASSUME NEW i \in 0..n PROVE g[i] = AddLen(g, s, i)
  <2>1. CASE i = 0
    BY <2>1, <1>3 DEF AddLen
  <2>2. CASE i # 0
    <3>1. i - 1 \in 0..n /\ g[i - 1] \in Nat
      BY <2>2, <1>1
    <3>2. E[i][g[i - 1]] = g[i - 1] + s[i].len
      BY <2>2, <3>1
    <3> HIDE DEF E, n
    <3> QED
      BY <1>3, <2>2, <3>2 DEF AddLen
  <2> QED
    BY <2>1, <2>2
<1>5. g = [i \in 0..n |-> AddLen(g, s, i)]
  BY <1>4
<1>6. Adding(s) = [i \in 0..n |-> AddLen(Adding(s), s, i)]
  <2> HIDE DEF E, n
  <2> QED
    BY <1>5 DEF Adding, n
<1>7. Length(s) = Adding(s)[n]
  BY DEF Length, Adding, AddLen
<1>8. \A j \in 0..n : Adding(s)[j] = AddLen(Adding(s), s, j)
  <2> HIDE DEF n
  <2> QED
    BY <1>6, Zenon
<1> DEFINE B == {j \in Nat : j <= n => Adding(s)[j] \in Nat}
<1>9. 0 \in B
  <2>1. 0 \in 0..n
    BY <1>1
  <2> QED
    BY <2>1, <1>8 DEF AddLen
<1>10. \A j \in Nat : j \in B => j + 1 \in B
  <2> SUFFICES ASSUME NEW j \in B, j + 1 <= n PROVE Adding(s)[j + 1] \in Nat
    OBVIOUS
  <2>1. j + 1 \in 0..n /\ j + 1 # 0 /\ (j + 1) - 1 = j /\ s[j + 1].len \in Nat /\ Adding(s)[j] \in Nat
    BY <1>1
  <2> HIDE DEF B, n
  <2> QED
    BY <2>1, <1>8, SMTT(30) DEF AddLen
<1>11. Nat \subseteq B
  <2> HIDE DEF B
  <2> QED
    BY <1>9, <1>10, NatSetInduction
<1>12. \A j \in 0..n : Adding(s)[j] \in Nat
  BY <1>11, <1>1
<1> QED
  BY <1>7, <1>8, <1>12

\* The length of a longer file
LEMMA LengthAppend ==
    ASSUME NEW s \in Seq(Fragment), NEW x \in Fragment
    PROVE  Length(Append(s, x)) = Length(s) + x.len
<1> DEFINE t == Append(s, x)
           h == Adding(t)
           B == {j \in Nat : j <= Len(s) => Adding(s)[j] = h[j]}
<1>1. /\ t \in Seq(Fragment) /\ Len(t) = Len(s) + 1 /\ Len(s) \in Nat /\ t[Len(t)] = x
      /\ \A i \in 1..Len(s) : t[i] = s[i]
  OBVIOUS
<1>2. \A i \in 0..Len(t) : h[i] = AddLen(h, t, i)
  BY <1>1, LengthDef
<1>3. ASSUME NEW i \in 0..Len(s) PROVE h[i] = AddLen(h, s, i)
  BY <1>1, <1>2 DEF AddLen
<1>4. \A i \in 0..Len(s) : Adding(s)[i] = AddLen(Adding(s), s, i)
  BY LengthDef
<1>5. 0 \in B
  <2> HIDE DEF h
  <2> QED
    BY <1>1, <1>3, <1>4 DEF AddLen
<1>6. \A j \in Nat : j \in B => j + 1 \in B
  <2> SUFFICES ASSUME NEW j \in B, j + 1 <= Len(s) PROVE Adding(s)[j + 1] = h[j + 1]
    OBVIOUS
  <2>1. j + 1 \in 0..Len(s) /\ j + 1 # 0 /\ (j + 1) - 1 = j /\ Adding(s)[j] = h[j]
    BY <1>1
  <2> HIDE DEF B, h
  <2> QED
    BY <2>1, <1>3, <1>4 DEF AddLen
<1>7. Nat \subseteq B
  <2> HIDE DEF B
  <2> QED
    BY <1>5, <1>6, NatSetInduction
<1>8. Adding(s)[Len(s)] = h[Len(s)]
  BY <1>1, <1>7
<1>9. h[Len(t)] = h[Len(s)] + x.len
  <2> HIDE DEF h, t
  <2>1. Len(t) \in 0..Len(t) /\ Len(t) # 0 /\ Len(t) - 1 = Len(s)
    BY <1>1
  <2> QED
    BY <1>1, <1>2, <2>1 DEF AddLen
<1>10. Length(s) = Adding(s)[Len(s)] /\ Length(t) = h[Len(t)]
  BY <1>1, LengthDef
<1> QED
  BY <1>8, <1>9, <1>10

\* An empty file has no bytes.
LEMMA LengthEmpty == Length(<<>>) = 0
<1>1. <<>> \in Seq(Fragment) /\ Len(<<>>) = 0 /\ 0 \in 0..0
  OBVIOUS
<1>2. Length(<<>>) = Adding(<<>>)[0] /\ Adding(<<>>)[0] = AddLen(Adding(<<>>), <<>>, 0)
  BY <1>1, LengthDef
<1> QED
  BY <1>2 DEF AddLen

\* A length is a natural number.
LEMMA LengthNat == ASSUME NEW s \in Seq(Fragment) PROVE Length(s) \in Nat
<1>1. Len(s) \in 0..Len(s)
  OBVIOUS
<1> QED
  BY <1>1, LengthDef

\* The beginning of a file is no longer than the file.
LEMMA LengthPrefix ==
    ASSUME NEW s \in Seq(Fragment), NEW n \in 0..Len(s)
    PROVE  Length(SubSeq(s, 1, n)) <= Length(s)
<1> DEFINE Good(r) == \A i \in 0..Len(r) : Length(SubSeq(r, 1, i)) <= Length(r)
           T == {r \in Seq(Fragment) : Good(r)}
<1>1. Good(<<>>)
  <2> SUFFICES ASSUME NEW i \in 0..Len(<<>>)
               PROVE  Length(SubSeq(<<>>, 1, i)) <= Length(<<>>)
    OBVIOUS
  <2>1. SubSeq(<<>>, 1, i) = <<>>
    OBVIOUS
  <2>2. Length(SubSeq(<<>>, 1, i)) = 0
    BY <2>1, LengthEmpty, Zenon
  <2> QED
    BY <2>2, LengthEmpty
<1>2. ASSUME NEW r \in Seq(Fragment), NEW x \in Fragment, Good(r) PROVE Good(Append(r, x))
  <2> DEFINE t == Append(r, x)
  <2>1. t \in Seq(Fragment) /\ Len(t) = Len(r) + 1 /\ Len(r) \in Nat
    OBVIOUS
  <2>2. Length(t) = Length(r) + x.len /\ Length(r) \in Nat /\ Length(t) \in Nat /\ x.len \in Nat
    BY <2>1, LengthAppend, LengthNat DEF Fragment
  <2>3. ASSUME NEW i \in 0..Len(r) PROVE Length(SubSeq(t, 1, i)) <= Length(t)
    <3>1. SubSeq(t, 1, i) = SubSeq(r, 1, i) /\ SubSeq(r, 1, i) \in Seq(Fragment)
      OBVIOUS
    <3>2. Length(SubSeq(r, 1, i)) <= Length(r) /\ Length(SubSeq(r, 1, i)) \in Nat
      BY <1>2, <3>1, LengthNat
    <3> HIDE DEF t
    <3>3. Length(SubSeq(t, 1, i)) = Length(SubSeq(r, 1, i))
      BY <3>1, Zenon
    <3> QED
      BY <2>2, <3>2, <3>3
  <2>4. SubSeq(t, 1, Len(t)) = t
    BY <2>1
  <2>5. \A i \in 0..Len(t) : i \in 0..Len(r) \/ i = Len(t)
    BY <2>1
  <2>6. ASSUME NEW i \in 0..Len(t) PROVE Length(SubSeq(t, 1, i)) <= Length(t)
    <3> HIDE DEF t
    <3>1. CASE i = Len(t)
      <4>1. Length(SubSeq(t, 1, i)) = Length(t)
        BY <3>1, <2>4, Zenon
      <4> QED
        BY <4>1, <2>2
    <3> QED
      BY <3>1, <2>3, <2>5, Zenon
  <2> QED
    BY <2>6, Zenon
<1>3. <<>> \in T /\ \A r \in Seq(Fragment), x \in Fragment : r \in T => Append(r, x) \in T
  <2> HIDE DEF Good
  <2>1. ASSUME NEW r \in Seq(Fragment), NEW x \in Fragment, r \in T PROVE Append(r, x) \in T
    BY <1>2, <2>1
  <2> QED
    BY <1>1, <2>1
<1>4. Seq(Fragment) \subseteq T
  <2> HIDE DEF T
  <2> QED
    BY <1>3, SeqSetInduction
<1>5. Good(s)
  <2> HIDE DEF Good
  <2> QED
    BY <1>4
<1> QED
  BY <1>5

\* What a power cut leaves of a file is no longer than the file.
LEMMA LengthRemains ==
    ASSUME NEW s \in Seq(Fragment), NEW from \in Nat, NEW r \in Remains(s, from)
    PROVE  Length(r) <= Length(s)
<1>1. CASE \E n \in from..Len(s) : r = SubSeq(s, 1, n)
  <2>1. \A n \in from..Len(s) : n \in 0..Len(s)
    OBVIOUS
  <2> QED
    BY <1>1, <2>1, LengthPrefix
<1>2. ASSUME NEW n \in from..Len(s) - 1, NEW k \in 1..s[n + 1].len - 1,
             r = Append(SubSeq(s, 1, n), [event |-> s[n + 1].event, len |-> k])
      PROVE  Length(r) <= Length(s)
  <2> DEFINE p == SubSeq(s, 1, n)
             x == [event |-> s[n + 1].event, len |-> k]
  <2>1. n + 1 \in 0..Len(s) /\ n + 1 \in 1..Len(s) /\ n \in Nat /\ n \in 0..Len(s)
    OBVIOUS
  <2>2. s[n + 1] \in Fragment /\ s[n + 1].len \in Nat /\ s[n + 1].event \in Nat
    <3>1. s[n + 1] \in Fragment
      BY <2>1
    <3> QED
      BY <3>1 DEF Fragment
  <2>3. x \in Fragment /\ x.len = k /\ k \in Nat /\ k <= s[n + 1].len
    BY <2>2 DEF Fragment
  <2>4. p \in Seq(Fragment) /\ SubSeq(s, 1, n + 1) = Append(p, s[n + 1])
    BY <2>1
  <2> HIDE DEF p, x
  <2>5. Length(r) = Length(p) + k /\ Length(SubSeq(s, 1, n + 1)) = Length(p) + s[n + 1].len
    BY <1>2, <2>2, <2>3, <2>4, LengthAppend DEF p, x
  <2>6. Length(p) \in Nat /\ Length(s) \in Nat /\ Length(SubSeq(s, 1, n + 1)) <= Length(s)
    BY <2>1, <2>4, LengthNat, LengthPrefix
  <2> QED
    BY <2>2, <2>3, <2>5, <2>6
<1> QED
  BY <1>1, <1>2 DEF Remains

-----------------------------------------------------------------------------
(* The types of what the barriers do not speak of, and the size a writer   *)
(* keeps of each file.                                                     *)
Metadata == [status : {"none", "Running", "Completed", "Truncated"}, title : BOOLEAN]
Place == {"idle", "sent", "read", "write", "greet", "wait"}
Job == {"none", "user_message", "assistant_completed", "account", "flush", "finish", "resume"}
Progress == [Thread -> [pc : Place, job : Job, copy : Metadata]]

Held ==
    /\ durability \in Durability
    /\ mode # "pending" => buffered = <<>>
    /\ titled \in BOOLEAN /\ reported \in BOOLEAN /\ cut \in BOOLEAN
    /\ size \in [File -> Nat] /\ truncated \in [File -> BOOLEAN]
    /\ skipped \subseteq DOMAIN arrived /\ faults \in Nat
    /\ meta \in Metadata /\ draft \in Metadata /\ stale \in Metadata
    /\ call \in Progress

\* While it updates the metadata the writer has an event in hand.
InHand == pc = "truncating" => Head(queue).op = "append"

\* A writer knows how long its files are, torn lines and earlier lives included.
Measured == mode \in {"pending", "live", "closing"} => \A f \in File : size[f] = Length(log[f])

\* An update of the metadata gives metadata.
LEMMA UpdateTyped == ASSUME NEW job, NEW m \in Metadata PROVE Update(job, m) \in Metadata
<1>1. Update(job, m) \in {m, [m EXCEPT !.title = TRUE], [m EXCEPT !.status = "Truncated"],
                          [m EXCEPT !.status = "Completed"], [m EXCEPT !.status = "Running"]}
  BY DEF Update
<1> QED
  BY <1>1 DEF Metadata

\* The values of a task that is in no method
LEMMA Blank == NoMetadata \in Metadata /\ "idle" \in Place /\ "none" \in Job
BY DEF NoMetadata, Metadata, Place, Job

\* A task that goes on keeps its type.
LEMMA GotoTyped ==
    ASSUME call \in Progress, NEW t \in Thread, NEW where \in Place, NEW job \in Job,
           NEW copy \in Metadata, Goto(t, where, job, copy)
    PROVE  call' \in Progress
BY DEF Progress, Goto

\* A task that returns keeps its type.
LEMMA ReturnTyped ==
    ASSUME call \in Progress, NEW t \in Thread, Return(t) PROVE call' \in Progress
BY Blank, GotoTyped DEF Return

\* What a task carries through a method has its type.
LEMMA CallTyped ==
    ASSUME call \in Progress, NEW t \in Thread
    PROVE  call[t].job \in Job /\ call[t].copy \in Metadata
BY DEF Progress

\* What ensure_live does to the handle
LEMMA EnsuredHeld ==
    ASSUME Held, NEW new, EnsureLive(new)
    PROVE  (mode' # "pending" => buffered' = <<>>) /\ draft' \in Metadata /\ meta' \in Metadata
BY DEF Held, EnsureLive

\* Events that arrived before stay.
LEMMA ArriveKeeps ==
    ASSUME arrived \in Seq(Arrival), NEW x, arrived' = Append(arrived, x)
    PROVE  DOMAIN arrived \subseteq DOMAIN arrived'
OBVIOUS

\* The task's steps
LEMMA TaskHeld == IInv /\ Held /\ (\E t \in Thread : Task(t)) => Held'
<1> SUFFICES ASSUME IInv, Held, NEW t \in Thread, Task(t) PROVE Held'
  OBVIOUS
<1>1. arrived \in Seq(Arrival) /\ NoMetadata \in Metadata
  BY Blank DEF IInv, Typed
<1> USE DEF Place
<1>2. call[t].job \in Job /\ call[t].copy \in Metadata
  BY CallTyped DEF Held
<1>3. ASSUME NEW k \in Kind, Buffer(t, k) PROVE Held'
  <2>1. DOMAIN arrived \subseteq DOMAIN arrived'
    BY <1>1, <1>3, ArriveKeeps DEF Buffer, Arrive
  <2> QED
    BY <1>3, <2>1 DEF Buffer, Held
<1>4. ASSUME NEW k \in Kind, AppendEvent(t, k) PROVE Held'
  <2>1. DOMAIN arrived \subseteq DOMAIN arrived'
    BY <1>1, <1>4, ArriveKeeps DEF AppendEvent, Arrive
  <2>2. (mode' # "pending" => buffered' = <<>>) /\ draft' \in Metadata /\ meta' \in Metadata
    BY <1>4, EnsuredHeld DEF AppendEvent
  <2>3. call' \in Progress
    <3>1. CASE k \in {"user_message", "assistant_completed"}
      <4>1. "sent" \in Place /\ k \in Job
        BY <3>1 DEF Place, Job
      <4>2. Goto(t, "sent", k, NoMetadata)
        BY <1>4, <3>1 DEF AppendEvent
      <4> QED
        BY <1>1, <4>1, <4>2, GotoTyped DEF Held
    <3>2. CASE k \notin {"user_message", "assistant_completed"}
      BY <1>4, <3>2 DEF AppendEvent, Held
    <3> QED
      BY <3>1, <3>2
  <2> QED
    BY <1>4, <2>1, <2>2, <2>3 DEF AppendEvent, Held
<1>5. CASE Sent(t)
  <2>1. \/ Goto(t, "read", call[t].job, NoMetadata) \/ Return(t)
    BY <1>5 DEF Sent
  <2>2. call' \in Progress
    BY <1>1, <1>2, <2>1, GotoTyped, ReturnTyped DEF Held, Job
  <2>3. titled' \in BOOLEAN
    BY <1>5 DEF Sent, Held
  <2> QED
    BY <1>5, <2>2, <2>3 DEF Sent, Held
<1>6. CASE ReadMetadata(t)
  <2>1. call' \in Progress
    BY <1>2, <1>6, GotoTyped DEF ReadMetadata, Held
  <2> QED
    BY <1>6, <2>1 DEF ReadMetadata, Held
<1>7. CASE WriteMetadata(t)
  <2>1. call' \in Progress
    <3>1. Goto(t, "greet", "resume", NoMetadata) \/ Return(t)
      BY <1>7 DEF WriteMetadata
    <3> QED
      BY <1>1, <3>1, GotoTyped, ReturnTyped DEF Held, Job
  <2>2. meta' \in Metadata
    BY <1>2, <1>7, UpdateTyped DEF WriteMetadata
  <2> QED
    BY <1>7, <2>1, <2>2 DEF WriteMetadata, Held
<1>8. CASE MetadataFails(t)
  <2>1. call' \in Progress
    <3>1. Goto(t, "greet", "resume", NoMetadata) \/ Return(t)
      BY <1>8 DEF MetadataFails
    <3> QED
      BY <1>1, <3>1, GotoTyped, ReturnTyped DEF Held, Job
  <2> QED
    BY <1>8, <2>1 DEF MetadataFails, Held
<1>9. CASE Account(t)
  <2>1. call' \in Progress
    BY <1>1, <1>9, GotoTyped DEF Account, Held, Job
  <2>2. (mode' # "pending" => buffered' = <<>>) /\ draft' \in Metadata /\ meta' \in Metadata
    BY <1>9, EnsuredHeld DEF Account
  <2> QED
    BY <1>9, <2>1, <2>2 DEF Account, Held
<1>10. ASSUME NEW job \in {"flush", "finish"}, Flush(t, job) PROVE Held'
  <2>1. CASE mode = "live" /\ Goto(t, "wait", job, NoMetadata) /\ UNCHANGED draft
    <3>1. call' \in Progress
      BY <1>1, <2>1, GotoTyped DEF Held, Job
    <3> QED
      BY <1>10, <2>1, <3>1 DEF Flush, Held
  <2>2. CASE draft' = Update("finish", draft) /\ UNCHANGED call
    <3>1. draft' \in Metadata
      BY <2>2, UpdateTyped DEF Held
    <3> QED
      BY <1>10, <2>2, <3>1 DEF Flush, Held
  <2> QED
    BY <1>10, <2>1, <2>2 DEF Flush
<1>11. CASE Greet(t)
  <2>1. DOMAIN arrived \subseteq DOMAIN arrived'
    BY <1>1, <1>11, ArriveKeeps DEF Greet
  <2>2. (mode' # "pending" => buffered' = <<>>) /\ draft' \in Metadata /\ meta' \in Metadata
    BY <1>11, EnsuredHeld DEF Greet
  <2>3. call' \in Progress
    BY <1>11, ReturnTyped DEF Greet, Held
  <2> QED
    BY <1>11, <2>1, <2>2, <2>3 DEF Greet, Held
<1>12. CASE DropHandle(t)
  <2>1. mode' # "pending" => buffered' = <<>>
    BY <1>12 DEF DropHandle, Held
  <2> QED
    BY <1>12, <2>1 DEF DropHandle, Held
<1>13. CASE Resume(t)
  <2>1. call' \in Progress
    BY <1>1, <1>13, GotoTyped DEF Resume, Held, Job
  <2>2. size' \in [File -> Nat]
    <3>1. \A f \in File : Length(log[f]) \in Nat
      BY LengthNat DEF IInv, Typed
    <3> QED
      BY <1>13, <3>1 DEF Resume, SizeOnDisk
  <2>3. titled' \in BOOLEAN
    BY <1>13 DEF Resume, Held, Metadata
  <2>4. mode # "pending" /\ buffered' = buffered
    BY <1>13 DEF Resume
  <2> QED
    BY <1>1, <1>13, <2>1, <2>2, <2>3, <2>4 DEF Resume, Held
<1> QED
  BY ONLY <1>3, <1>4, <1>5, <1>6, <1>7, <1>8, <1>9, <1>10, <1>11, <1>12, <1>13, Task(t) DEF Task

\* A failure leaves the types of what it changes ...
LEMMA BrokenHeld ==
    ASSUME Held, Broken
    PROVE  reported' \in BOOLEAN /\ faults' \in Nat
BY DEF Held, Broken

\* ... as the bytes that reach a file ...
LEMMA PutHeld ==
    ASSUME Held, NEW e, NEW k \in Nat, Put(e, k)
    PROVE  size' \in [File -> Nat]
<1> DEFINE f == FileOf(KindOf(e))
<1>1. f \in File
  BY FileOfFile
<1>2. size' = [size EXCEPT ![f] = size[f] + k]
  BY DEF Put
<1>3. size \in [File -> Nat]
  BY DEF Held
<1> HIDE DEF f
<1>4. size[f] + k \in Nat
  BY <1>1, <1>3
<1> QED
  BY <1>1, <1>2, <1>3, <1>4

\* ... and the answer to a flush do.
LEMMA AnswerHeld ==
    ASSUME Held, NEW ok \in BOOLEAN, Answer(ok)
    PROVE  reported' \in BOOLEAN /\ faults' \in Nat
<1>1. CASE UNCHANGED <<reported, faults>>
  BY <1>1 DEF Held
<1>2. CASE faults' = faults + 1 /\ reported' = (reported \/ holders # {})
  BY <1>2 DEF Held
<1> QED
  BY <1>1, <1>2 DEF Answer

\* What a writer has in hand while it updates the metadata is an event that arrived.
LEMMA HandIsEvent ==
    ASSUME IInv, InHand, pc = "truncating"
    PROVE  Head(queue).event \in DOMAIN arrived
<1>1. mode \in {"live", "closing"} /\ queue # <<>>
  BY DEF IInv, Phases
<1>2. Backlog = queue
  BY <1>1 DEF Backlog
<1>3. 1 \in DOMAIN Backlog /\ Head(queue) = Backlog[1]
  BY <1>1, <1>2, HeadWaits
<1>4. Backlog[1].op = "append"
  BY <1>3 DEF InHand
<1> QED
  BY <1>3, <1>4, HeadWaits, <1>1, <1>2

\* The writer's steps
LEMMA WriterHeld == IInv /\ Held /\ InHand /\ Writer => Held'
<1> SUFFICES ASSUME IInv, Held, InHand, Writer PROVE Held'
  OBVIOUS
<1>1. arrived \in Seq(Arrival)
  BY DEF IInv, Typed
<1>2. CASE WriterIgnores
  BY <1>2 DEF WriterIgnores, Held
<1>3. CASE WriterTruncates
  <2>1. Head(queue).event \in DOMAIN arrived
    BY <1>3, HandIsEvent DEF WriterTruncates
  <2>2. skipped' \subseteq DOMAIN arrived
    BY <1>3, <2>1 DEF WriterTruncates, Held
  <2>3. meta' \in Metadata /\ stale' \in Metadata
    BY <1>3, UpdateTyped, Blank DEF WriterTruncates, Held
  <2>4. truncated' \in [File -> BOOLEAN]
    BY <1>3 DEF WriterTruncates, Held
  <2> QED
    BY <1>3, <2>2, <2>3, <2>4 DEF WriterTruncates, Held
<1>4. CASE WriterReleases
  BY <1>4 DEF WriterReleases, Held
<1>5. ASSUME NEW e \in DOMAIN arrived, WriterStores(e) PROVE Held'
  <2>1. size' \in [File -> Nat]
    BY <1>1, <1>5, Sizes, PutHeld DEF WriterStores
  <2> QED
    BY <1>5, <2>1 DEF WriterStores, Held
<1>6. ASSUME NEW e \in DOMAIN arrived, NEW k \in 0..Bytes(e), WriterTears(e, k) PROVE Held'
  <2>1. size' \in [File -> Nat]
    <3>1. k \in Nat
      BY <1>1, Sizes
    <3> QED
      BY <1>6, <3>1, PutHeld DEF WriterTears
  <2>2. reported' \in BOOLEAN /\ faults' \in Nat
    BY <1>6, BrokenHeld DEF WriterTears
  <2> QED
    BY <1>6, <2>1, <2>2 DEF WriterTears, Held
<1>7. ASSUME NEW e \in DOMAIN arrived, WriterSkips(e) PROVE Held'
  BY <1>7 DEF WriterSkips, Held
<1>8. ASSUME NEW e \in DOMAIN arrived, WriterReads(e) PROVE Held'
  <2>1. /\ UNCHANGED <<durability, mode, buffered, titled, size, truncated, skipped, arrived,
                       meta, draft, call, cut>>
    BY <1>8 DEF WriterReads
  <2>2. /\ reported' \in BOOLEAN /\ faults' \in Nat /\ stale' \in Metadata
    <3>1. CASE stale' = meta /\ UNCHANGED <<queue, failed, reported, faults>>
      BY <3>1 DEF Held
    <3>2. CASE Broken /\ UNCHANGED stale
      BY <3>2, BrokenHeld DEF Held
    <3> QED
      BY <1>8, <3>1, <3>2 DEF WriterReads
  <2> QED
    BY <2>1, <2>2 DEF Held
<1>9. ASSUME NEW ok \in BOOLEAN, NEW t \in Thread, WriterFlushes(t, ok) PROVE Held'
  <2>1. reported' \in BOOLEAN /\ faults' \in Nat
    BY <1>9, AnswerHeld DEF WriterFlushes
  <2>2. call' \in Progress
    <3>1. Goto(t, "read", "finish", NoMetadata) \/ Return(t)
      BY <1>9 DEF WriterFlushes
    <3>2. "read" \in Place /\ "finish" \in Job
      BY DEF Place, Job
    <3> QED
      BY <3>1, <3>2, Blank, GotoTyped, ReturnTyped DEF Held
  <2> QED
    BY <1>9, <2>1, <2>2 DEF WriterFlushes, Held
<1>10. ASSUME NEW ok \in BOOLEAN, WriterStops(ok) PROVE Held'
  <2>1. reported' \in BOOLEAN /\ faults' \in Nat
    BY <1>10, AnswerHeld DEF WriterStops
  <2>2. mode # "pending"
    BY <1>10 DEF WriterStops, Takes, IInv, Phases
  <2> QED
    BY <1>10, <2>1, <2>2 DEF WriterStops, Held
<1> QED
  BY ONLY <1>2, <1>3, <1>4, <1>5, <1>6, <1>7, <1>8, <1>9, <1>10, Writer DEF Writer

\* Every step keeps the types.
LEMMA HeldNext == IInv /\ Held /\ InHand /\ Next => Held'
<1> SUFFICES ASSUME IInv, Held, InHand, Next PROVE Held'
  OBVIOUS
<1>1. CASE PrepareFails
  BY <1>1 DEF PrepareFails, Held
<1>2. CASE Crash \/ PowerCut
  <2>1. Gone /\ cut' \in BOOLEAN
    BY <1>2 DEF Crash, PowerCut, Held
  <2>2. call' \in Progress
    BY <2>1, Blank DEF Gone, Progress, Idle
  <2>3. draft' \in Metadata
    BY <2>1 DEF Gone, Started, Metadata
  <2> QED
    BY <2>1, <2>2, <2>3, Blank DEF Gone, Held
<1> QED
  BY <1>1, <1>2, TaskHeld, WriterHeld DEF Next

\* The command in hand stays the first of the channel.
LEMMA InHandNext == IInv /\ InHand /\ Next => InHand'
<1> SUFFICES ASSUME IInv, InHand, Next, pc' = "truncating" PROVE Head(queue').op = "append"
  BY DEF InHand
<1> DEFINE Longer == \E s \in Seq(Command) : queue' = queue \o s
<1>1. queue \in Seq(Command) /\ (pc = "truncating" => queue # <<>> /\ mode \in {"live", "closing"})
  BY DEF IInv, Queues, Phases
<1>2. CASE pc = "truncating" /\ (queue' = queue \/ Longer)
  <2>1. Head(queue) = queue[1] /\ 1 \in 1..Len(queue)
    BY <1>1, <1>2
  <2>2. CASE queue' = queue
    BY <1>2, <2>2 DEF InHand
  <2>3. ASSUME NEW s \in Seq(Command), queue' = queue \o s PROVE Head(queue') = Head(queue)
    BY <1>1, <2>1, <2>3, ConcatAt
  <2> QED
    BY <1>2, <2>2, <2>3 DEF InHand
<1>3. CASE \E e \in DOMAIN arrived : WriterReads(e)
  <2>1. PICK e \in DOMAIN arrived : WriterReads(e)
    BY <1>3
  <2>2. pc = "idle" /\ Head(queue).op = "append"
    BY <2>1 DEF WriterReads, Handling, Takes
  <2>3. UNCHANGED queue
    BY <2>1, <2>2 DEF WriterReads, Broken
  <2> QED
    BY <2>2, <2>3
<1>4. ASSUME ~(\E e \in DOMAIN arrived : WriterReads(e))
      PROVE  pc = "truncating" /\ (queue' = queue \/ Longer)
  <2>1. ASSUME NEW new \in Seq(Command), EnsureLive(new)
        PROVE  pc = "truncating" /\ (queue' = queue \/ Longer)
    <3>1. CASE mode = "live"
      BY <2>1, <3>1 DEF EnsureLive
    <3>2. CASE mode = "pending"
      BY <2>1, <3>2 DEF EnsureLive
    <3> QED
      BY <2>1, <3>1, <3>2 DEF EnsureLive
  <2>2. Len(arrived) + 1 \in Nat /\ <<>> \in Seq(Command)
    BY DEF IInv, Typed
  <2>3. Appends(<<Len(arrived) + 1>>) \in Seq(Command) /\ Appends(<<>>) \in Seq(Command)
    <3>1. <<Len(arrived) + 1>> \in Seq(Nat) /\ <<>> \in Seq(Nat)
      BY <2>2
    <3> QED
      BY <3>1, AppendsOf
  <2>4. ASSUME NEW t \in Thread, Task(t) PROVE pc = "truncating" /\ (queue' = queue \/ Longer)
    <3>1. CASE \E k \in Kind : AppendEvent(t, k)
      BY <3>1, <2>1, <2>3 DEF AppendEvent
    <3>2. CASE Account(t) \/ Greet(t)
      BY <3>2, <2>1, <2>2, <2>3 DEF Account, Greet
    <3>3. ASSUME NEW job \in {"flush", "finish"}, Flush(t, job)
          PROVE  pc = "truncating" /\ (queue' = queue \/ Longer)
      <4>1. pc' = pc
        BY <3>3 DEF Flush
      <4>2. CASE queue' = Append(queue, [op |-> "flush", by |-> t, upto |-> Len(arrived)])
        <5> DEFINE c == [op |-> "flush", by |-> t, upto |-> Len(arrived)]
        <5>1. c \in Command
          BY DEF Command, IInv, Typed
        <5> HIDE DEF c
        <5>2. <<c>> \in Seq(Command) /\ Append(queue, c) = queue \o <<c>>
          BY <1>1, <5>1
        <5> QED
          BY <4>1, <4>2, <5>2 DEF c
      <4> QED
        BY <3>3, <4>1, <4>2 DEF Flush
    <3>4. CASE DropHandle(t)
      <4>1. pc' = pc
        BY <3>4 DEF DropHandle
      <4>2. [op |-> "shutdown"] \in Command
        BY DEF Command
      <4>3. /\ <<[op |-> "shutdown"]>> \in Seq(Command)
            /\ Append(queue, [op |-> "shutdown"]) = queue \o <<[op |-> "shutdown"]>>
        BY <1>1, <4>2
      <4> QED
        BY <3>4, <4>1, <4>3 DEF DropHandle
    <3>5. ASSUME NEW k \in Kind, Buffer(t, k) PROVE pc = "truncating" /\ (queue' = queue \/ Longer)
      BY <3>5 DEF Buffer
    <3>6. CASE Sent(t) \/ ReadMetadata(t) \/ WriteMetadata(t) \/ MetadataFails(t)
      BY <3>6 DEF Sent, ReadMetadata, WriteMetadata, MetadataFails
    <3>7. CASE Resume(t)
      BY <3>7 DEF Resume
    <3> QED
      BY ONLY <2>4, <3>1, <3>2, <3>3, <3>4, <3>5, <3>6, <3>7, Task(t) DEF Task
  <2>5. ASSUME Writer PROVE FALSE
    <3>1. CASE WriterIgnores \/ WriterTruncates \/ WriterReleases
      BY <3>1 DEF WriterIgnores, WriterTruncates, WriterReleases, Takes
    <3>2. ASSUME NEW e \in DOMAIN arrived, WriterStores(e) \/ WriterSkips(e) PROVE FALSE
      BY <3>2 DEF WriterStores, WriterSkips, Handling, Takes
    <3>3. ASSUME NEW e \in DOMAIN arrived, NEW k \in 0..Bytes(e), WriterTears(e, k) PROVE FALSE
      BY <3>3 DEF WriterTears, Handling, Takes, Broken
    <3>4. ASSUME NEW ok \in BOOLEAN, NEW t \in Thread, WriterFlushes(t, ok) PROVE FALSE
      BY <3>4 DEF WriterFlushes, Takes
    <3>5. ASSUME NEW ok \in BOOLEAN, WriterStops(ok) PROVE FALSE
      BY <3>5 DEF WriterStops
    <3> QED
      BY ONLY <1>4, <2>5, <3>1, <3>2, <3>3, <3>4, <3>5 DEF Writer
  <2>6. CASE PrepareFails
    BY <2>6 DEF PrepareFails
  <2>7. CASE Crash \/ PowerCut
    BY <2>7 DEF Crash, PowerCut, Gone
  <2> QED
    BY <2>4, <2>5, <2>6, <2>7 DEF Next
<1> QED
  BY <1>2, <1>3, <1>4

Alive == {"pending", "live", "closing"}

\* What a step does to the sizes of the files
SizeEffect ==
    \/ UNCHANGED <<log, size>> /\ (mode' \in Alive => mode \in Alive)
    \/ \E e \in DOMAIN arrived : \E k \in 0..Bytes(e) : Handling(e) /\ Fits(e) /\ Put(e, k)
    \/ \E t \in Thread : Resume(t)
    \/ Crash \/ PowerCut

\* Every step does one of these things to the sizes.
LEMMA NextSizes == IInv /\ Next => SizeEffect
<1> SUFFICES ASSUME IInv, Next PROVE SizeEffect
  OBVIOUS
<1> USE DEF Alive
<1>1. arrived \in Seq(Arrival)
  BY DEF IInv, Typed
<1>2. ASSUME NEW t \in Thread, Task(t) PROVE SizeEffect
  <2>1. ASSUME NEW k \in Kind, Buffer(t, k) PROVE SizeEffect
    BY <2>1 DEF Buffer, SizeEffect
  <2>2. ASSUME NEW new, EnsureLive(new), UNCHANGED <<log, size>> PROVE SizeEffect
    BY <2>2 DEF EnsureLive, SizeEffect
  <2>3. ASSUME NEW k \in Kind, AppendEvent(t, k) PROVE SizeEffect
    BY <2>2, <2>3 DEF AppendEvent
  <2>4. CASE Account(t) \/ Greet(t)
    BY <2>2, <2>4 DEF Account, Greet
  <2>5. CASE Sent(t) \/ ReadMetadata(t) \/ WriteMetadata(t) \/ MetadataFails(t)
    BY <2>5 DEF Sent, ReadMetadata, WriteMetadata, MetadataFails, SizeEffect
  <2>6. ASSUME NEW job \in {"flush", "finish"}, Flush(t, job) PROVE SizeEffect
    BY <2>6 DEF Flush, SizeEffect
  <2>7. CASE DropHandle(t)
    <3>1. UNCHANGED <<log, size>> /\ mode' \in {mode, "closed", "closing"} /\ holders # {}
      BY <2>7 DEF DropHandle, At
    <3>2. mode \in Alive
      BY <3>1 DEF IInv, Phases
    <3> QED
      BY <3>1, <3>2 DEF SizeEffect
  <2>8. CASE Resume(t)
    BY <2>8 DEF SizeEffect
  <2> QED
    BY ONLY <1>2, <2>1, <2>3, <2>4, <2>5, <2>6, <2>7, <2>8, Task(t) DEF Task
<1>3. CASE Writer
  <2>1. CASE WriterIgnores \/ WriterTruncates \/ WriterReleases
    BY <2>1 DEF WriterIgnores, WriterTruncates, WriterReleases, SizeEffect
  <2>2. ASSUME NEW e \in DOMAIN arrived, WriterStores(e) PROVE SizeEffect
    BY <1>1, <2>2, Sizes DEF WriterStores, SizeEffect
  <2>3. ASSUME NEW e \in DOMAIN arrived, NEW k \in 0..Bytes(e), WriterTears(e, k) PROVE SizeEffect
    BY <2>3 DEF WriterTears, SizeEffect
  <2>4. ASSUME NEW e \in DOMAIN arrived, WriterSkips(e) \/ WriterReads(e) PROVE SizeEffect
    BY <2>4 DEF WriterSkips, WriterReads, SizeEffect
  <2>5. ASSUME NEW ok \in BOOLEAN, NEW t \in Thread, WriterFlushes(t, ok) PROVE SizeEffect
    BY <2>5 DEF WriterFlushes, SizeEffect
  <2>6. ASSUME NEW ok \in BOOLEAN, WriterStops(ok) PROVE SizeEffect
    BY <2>6 DEF WriterStops, SizeEffect
  <2> QED
    BY ONLY <1>3, <2>1, <2>2, <2>3, <2>4, <2>5, <2>6 DEF Writer
<1>4. CASE PrepareFails
  BY <1>4 DEF PrepareFails, SizeEffect
<1>5. CASE Crash \/ PowerCut
  BY <1>5 DEF SizeEffect
<1> QED
  BY <1>2, <1>3, <1>4, <1>5 DEF Next

\* k bytes more: the size a writer keeps follows the file.
LEMMA PutMeasured ==
    ASSUME log \in [File -> Seq(Fragment)], size \in [File -> Nat],
           NEW e \in Nat, NEW k \in Nat, Put(e, k)
    PROVE  \A f \in File :
               /\ Length(log'[f]) = Length(log[f]) + (IF f = FileOf(KindOf(e)) THEN k ELSE 0)
               /\ size'[f] = size[f] + (IF f = FileOf(KindOf(e)) THEN k ELSE 0)
<1> DEFINE g == FileOf(KindOf(e))
           x == [event |-> e, len |-> k]
<1>1. g \in File
  BY FileOfFile
<1>2. size' = [size EXCEPT ![g] = size[g] + k]
  BY DEF Put
<1>3. log' = [log EXCEPT ![g] = IF k = 0 THEN log[g] ELSE Append(log[g], x)]
  BY DEF Put
<1>4. x \in Fragment /\ x.len = k
  BY DEF Fragment
<1> HIDE DEF g, x
<1>5. \A f \in File : log[f] \in Seq(Fragment) /\ Length(log[f]) \in Nat /\ size[f] \in Nat
  BY LengthNat
<1>6. ASSUME NEW f \in File, f # g
      PROVE  Length(log'[f]) = Length(log[f]) + 0 /\ size'[f] = size[f] + 0
  <2>1. log'[f] = log[f] /\ size'[f] = size[f]
    BY <1>2, <1>3, <1>6
  <2>2. Length(log'[f]) = Length(log[f])
    BY <2>1, Zenon
  <2> QED
    BY <1>5, <2>1, <2>2
<1>7. Length(log'[g]) = Length(log[g]) + k /\ size'[g] = size[g] + k
  <2>1. size'[g] = size[g] + k
    BY <1>1, <1>2
  <2>2. CASE k = 0
    <3>1. log'[g] = log[g]
      BY <1>1, <1>3, <2>2
    <3>2. Length(log'[g]) = Length(log[g])
      BY <3>1, Zenon
    <3> QED
      BY <1>1, <1>5, <2>1, <2>2, <3>2
  <2>3. CASE k # 0
    <3>1. log'[g] = Append(log[g], x)
      BY <1>1, <1>3, <2>3
    <3>2. Length(log'[g]) = Length(log[g]) + k
      BY <1>1, <1>4, <1>5, <3>1, LengthAppend, Zenon
    <3> QED
      BY <2>1, <3>2
  <2> QED
    BY <2>2, <2>3
<1> QED
  BY <1>6, <1>7 DEF g

\* A writer keeps knowing how long its files are.
LEMMA MeasuredNext == IInv /\ Held /\ Measured /\ Next => Measured'
<1> SUFFICES ASSUME IInv, Held, Measured, Next, mode' \in Alive, NEW f \in File
             PROVE  size'[f] = Length(log'[f])
  BY DEF Measured, Alive
<1>1. log \in [File -> Seq(Fragment)] /\ size \in [File -> Nat] /\ arrived \in Seq(Arrival)
  BY DEF IInv, Typed, Held
<1>2. CASE UNCHANGED <<log, size>> /\ mode \in Alive
  <2>1. Length(log'[f]) = Length(log[f])
    BY <1>2, Zenon
  <2> QED
    BY <1>2, <2>1 DEF Measured, Alive
<1>3. ASSUME NEW e \in DOMAIN arrived, NEW k \in 0..Bytes(e), Handling(e), Put(e, k)
      PROVE  size'[f] = Length(log'[f])
  <2>1. e \in Nat /\ k \in Nat
    BY <1>1, Sizes
  <2>2. mode \in Alive
    BY <1>3 DEF Handling, Takes, IInv, Phases, Alive
  <2>3. size[f] = Length(log[f])
    BY <2>2 DEF Measured, Alive
  <2>4. /\ Length(log'[f]) = Length(log[f]) + (IF f = FileOf(KindOf(e)) THEN k ELSE 0)
        /\ size'[f] = size[f] + (IF f = FileOf(KindOf(e)) THEN k ELSE 0)
    BY <1>1, <1>3, <2>1, PutMeasured
  <2> QED
    BY <2>3, <2>4
<1>4. ASSUME NEW t \in Thread, Resume(t) PROVE size'[f] = Length(log'[f])
  <2>1. size'[f] = Length(log[f]) /\ log' = log
    BY <1>4 DEF Resume, SizeOnDisk
  <2>2. Length(log'[f]) = Length(log[f])
    BY <2>1, Zenon
  <2> QED
    BY <2>1, <2>2
<1>5. CASE Crash \/ PowerCut
  BY <1>5 DEF Crash, PowerCut, Gone, Alive
<1> QED
  BY <1>2, <1>3, <1>4, <1>5, NextSizes DEF SizeEffect

\* What is written fits; a crash writes less than that, and a power cut takes away.
LEMMA CapNext == IInv /\ Held /\ Measured /\ CapHolds /\ Next => CapHolds'
<1> SUFFICES ASSUME IInv, Held, Measured, CapHolds, Next, NEW f \in File
             PROVE  Length(log'[f]) <= MaxBytes
  BY DEF CapHolds
<1>1. log \in [File -> Seq(Fragment)] /\ size \in [File -> Nat] /\ arrived \in Seq(Arrival)
  BY DEF IInv, Typed, Held
<1>2. /\ log[f] \in Seq(Fragment) /\ Length(log[f]) \in Nat /\ Length(log[f]) <= MaxBytes
      /\ MaxBytes \in Nat
  BY <1>1, LengthNat, SessionLogAssumption DEF CapHolds
<1>3. CASE UNCHANGED log
  <2>1. Length(log'[f]) = Length(log[f])
    BY <1>3, Zenon
  <2> QED
    BY <1>2, <2>1
<1>4. ASSUME NEW e \in DOMAIN arrived, NEW k \in 0..Bytes(e), Handling(e), Fits(e), NEW n \in Nat,
             Length(log'[f]) = Length(log[f]) + n, n = 0 \/ (n = k /\ f = FileOf(KindOf(e)))
      PROVE  Length(log'[f]) <= MaxBytes
  <2>1. CASE n = 0
    BY <1>2, <1>4, <2>1
  <2>2. CASE n = k /\ f = FileOf(KindOf(e))
    <3>1. mode \in {"live", "closing"}
      BY <1>4 DEF Handling, Takes, IInv, Phases
    <3>2. size[f] = Length(log[f])
      BY <3>1 DEF Measured
    <3>3. size[f] + Bytes(e) <= MaxBytes /\ Bytes(e) \in Nat
      BY <1>1, <1>4, <2>2, Sizes DEF Fits
    <3> QED
      BY <1>2, <1>4, <2>2, <3>2, <3>3
  <2> QED
    BY <1>4, <2>1, <2>2
<1>5. ASSUME NEW e \in DOMAIN arrived, NEW k \in 0..Bytes(e), Handling(e), Fits(e), Put(e, k)
      PROVE  Length(log'[f]) <= MaxBytes
  <2>1. e \in Nat /\ k \in Nat
    BY <1>1, Sizes
  <2>2. Length(log'[f]) = Length(log[f]) + (IF f = FileOf(KindOf(e)) THEN k ELSE 0)
    BY <1>1, <1>5, <2>1, PutMeasured
  <2> QED
    BY <1>4, <1>5, <2>1, <2>2
<1>6. CASE Crash
  <2>1. CASE UNCHANGED log
    BY <1>3, <2>1
  <2>2. CASE Takes("append") /\ ~failed /\ Fits(Head(queue).event) /\ ~UNCHANGED log
    <3> DEFINE e == Head(queue).event
    <3>1. mode \in {"live", "closing"} /\ queue # <<>> /\ Head(queue).op = "append"
      BY <2>2 DEF Takes, IInv, Phases
    <3>2. Backlog = queue
      BY <3>1 DEF Backlog
    <3>3. e \in DOMAIN arrived /\ e \in Nat
      BY <3>1, <3>2, HeadWaits
    <3>4. PICK k \in 1..Bytes(e) - 1 :
              log' = [log EXCEPT ![FileOf(KindOf(e))] = Append(@, [event |-> e, len |-> k])]
      BY <1>6, <2>2 DEF Crash
    <3> HIDE DEF e
    <3>5. Bytes(e) \in Nat /\ k \in Nat /\ k \in 0..Bytes(e) /\ k # 0
      BY <1>1, <3>3, Sizes
    <3> DEFINE g == FileOf(KindOf(e))
               x == [event |-> e, len |-> k]
    <3>6. x \in Fragment /\ x.len = k /\ g \in File
      BY <3>3, <3>5, FileOfFile DEF Fragment
    <3>7. log' = [log EXCEPT ![g] = Append(log[g], x)]
      BY <3>4
    <3> HIDE DEF g, x
    <3>8. CASE f = g
      <4>1. log'[f] = Append(log[f], x)
        BY <1>1, <3>6, <3>7, <3>8
      <4>2. Length(log'[f]) = Length(log[f]) + k
        BY <1>2, <3>6, <4>1, LengthAppend, Zenon
      <4>3. Handling(e) /\ Fits(e)
        BY <2>2 DEF Handling, e
      <4> QED
        BY <1>4, <3>3, <3>5, <3>8, <4>2, <4>3 DEF g
    <3>9. CASE f # g
      <4>1. log'[f] = log[f]
        BY <1>1, <3>7, <3>9
      <4>2. Length(log'[f]) = Length(log[f])
        BY <4>1, Zenon
      <4> QED
        BY <1>2, <4>2
    <3> QED
      BY <3>8, <3>9
  <2> QED
    BY <1>6, <2>1, <2>2 DEF Crash
<1>7. CASE PowerCut
  <2>1. log'[f] \in Remains(log[f], synced[f]) /\ synced[f] \in Nat
    BY <1>7 DEF PowerCut, IInv, Typed
  <2>2. Length(log'[f]) <= Length(log[f])
    BY <1>2, <2>1, LengthRemains
  <2>3. log'[f] \in Seq(Fragment) /\ Length(log'[f]) \in Nat
    <3>1. log' \in [File -> Seq(Fragment)]
      BY <1>7, CutLog DEF IInv
    <3> QED
      BY <3>1, LengthNat
  <2> QED
    BY <1>2, <2>2, <2>3
<1>8. ASSUME NEW t \in Thread, Resume(t) PROVE UNCHANGED log
  BY <1>8 DEF Resume
<1> QED
  BY <1>3, <1>5, <1>6, <1>7, <1>8, NextSizes DEF SizeEffect

\* The sizes and the types hold at the start.
LEMMA HeldInit == Init => Held /\ InHand /\ Measured /\ CapHolds
<1> SUFFICES ASSUME Init PROVE Held /\ InHand /\ Measured /\ CapHolds
  OBVIOUS
<1>1. Held
  <2>1. call \in Progress
    BY Blank DEF Init, Progress, Idle
  <2>2. draft \in Metadata
    BY DEF Init, Started, Metadata
  <2> QED
    BY <2>1, <2>2, Blank DEF Init, Held
<1>2. \A f \in File : log[f] = <<>> /\ size[f] = 0
  BY DEF Init
<1>3. \A f \in File : Length(log[f]) = 0
  BY <1>2, LengthEmpty, Zenon
<1>4. MaxBytes \in Nat
  BY SessionLogAssumption
<1>5. CapHolds /\ Measured
  BY <1>2, <1>3, <1>4 DEF CapHolds, Measured
<1> QED
  BY <1>1, <1>5 DEF Init, InHand

\* Nothing changes when nothing does.
LEMMA HeldStutters ==
    Held /\ InHand /\ Measured /\ CapHolds /\ UNCHANGED vars
        => Held' /\ InHand' /\ Measured' /\ CapHolds'
<1> SUFFICES ASSUME Held, InHand, Measured, CapHolds, UNCHANGED vars
             PROVE  Held' /\ InHand' /\ Measured' /\ CapHolds'
  OBVIOUS
<1>1. Held' /\ InHand'
  BY DEF Held, InHand, vars
<1>2. \A f \in File : Length(log'[f]) = Length(log[f])
  BY Zenon DEF vars
<1>3. Measured' /\ CapHolds'
  BY <1>2 DEF Measured, CapHolds, vars
<1> QED
  BY <1>1, <1>3

\* The invariant of the sizes and the types
LEMMA SizeInvariant == Spec => [](IInv /\ Held /\ InHand /\ Measured /\ CapHolds)
<1> DEFINE J == Held /\ InHand /\ Measured /\ CapHolds
<1>1. Init => J
  BY HeldInit
<1>2. IInv /\ J /\ [Next]_vars => J'
  BY HeldNext, InHandNext, MeasuredNext, CapNext, HeldStutters
<1> QED
  BY <1>1, <1>2, Invariant, PTL DEF Spec

\* The state of a session has its types: the handle's, the writer's, the files' and what the
\* history records.
THEOREM TypeCorrect == Spec => []TypeOK
<1>1. IInv /\ Held => TypeOK
  <2> SUFFICES ASSUME IInv, Held PROVE TypeOK
    OBVIOUS
  <2>1. log \in [File -> Seq([event : DOMAIN arrived, len : Nat])]
    <3>1. ASSUME NEW f \in File PROVE log[f] \in Seq([event : DOMAIN arrived, len : Nat])
      <4>1. log[f] \in Seq(Fragment) /\ Len(log[f]) \in Nat /\ DOMAIN log[f] = 1..Len(log[f])
        BY <3>1 DEF IInv, Typed
      <4>2. \A i \in 1..Len(log[f]) : log[f][i] \in [event : DOMAIN arrived, len : Nat]
        <5>1. ASSUME NEW i \in 1..Len(log[f])
              PROVE  log[f][i] \in [event : DOMAIN arrived, len : Nat]
          <6>1. log[f][i] \in Fragment /\ log[f][i].event \in DOMAIN arrived
            BY <4>1 DEF IInv, Typed
          <6> QED
            BY <6>1 DEF Fragment
        <5> QED
          BY <5>1
      <4> DEFINE S == [event : DOMAIN arrived, len : Nat]
                 s == log[f]
      <4>3. \A i \in 1..Len(s) : s[i] \in S
        BY <4>2
      <4>4. s \in Seq(Fragment)
        BY <4>1
      <4> HIDE DEF S, s
      <4>5. s \in Seq(S)
        BY <4>3, <4>4
      <4> QED
        BY <4>5 DEF S, s
    <3> QED
      BY <3>1 DEF IInv, Typed
  <2>2. skipped \cup acked \subseteq DOMAIN arrived
    BY DEF IInv, Typed, Held
  <2>3. life \in Nat /\ synced \in [File -> Nat] /\ buffered \in Seq(Nat)
        /\ arrived \in Seq([kind : Kind \cup {"session_resumed"}, life : Nat])
    BY DEF IInv, Typed, Queues, Arrival
  <2> QED
    BY <2>1, <2>2, <2>3 DEF TypeOK, IInv, Phases, Held
<1> QED
  BY <1>1, SizeInvariant, PTL

\* No file of a session outgrows max_session_bytes, in any number of lives and whatever tears
\* its lines: a resumed writer starts from the length on disk (fs::metadata), and what fits by
\* the size it keeps fits in the file.
THEOREM CapKept == Spec => []CapHolds
BY SizeInvariant, PTL

=============================================================================
