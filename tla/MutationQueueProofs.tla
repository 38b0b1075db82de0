------------------------- MODULE MutationQueueProofs -------------------------
(***************************************************************************)
(* Proofs about MutationQueue for any calls, paths, requests and initial   *)
(* directory.  The inductive invariant says what pruning preserves: an Arc *)
(* that any call still holds is the one the map hands out for that key.    *)
(***************************************************************************)
EXTENDS MutationQueue, TLAPS

USE MutationQueueAssumption

\* A call's Arc for a key is the mutex the map has for it.
ArcMapped == \A t \in Task, k \in Key : arc[t][k] # 0 => lockMap[k] = arc[t][k]

\* Two keys never share a mutex.
MapInjective == \A j, k \in Key : lockMap[j] # 0 /\ lockMap[j] = lockMap[k] => j = k

\* A guard is an Arc whose mutex the call owns.
HeldOwns == \A t \in Task : \A k \in held[t] :
                arc[t][k] # 0 /\ Owns(arc[t][k], t)

\* A key is not needed and held at once, and a call that has not arrived holds nothing.
NeedNotHeld == \A t \in Task :
    /\ need[t] \cap held[t] = {}
    /\ pc[t] = "idle" => held[t] = {}

LockInv == TypeOK /\ ArcMapped /\ MapInjective /\ HeldOwns /\ NeedNotHeld

-----------------------------------------------------------------------------

\* A function on an initial segment is a sequence.
LEMMA FunctionIsSeq ==
    ASSUME NEW S, NEW n \in Nat, NEW f \in [1..n -> S]
    PROVE  f \in Seq(S)
OBVIOUS

\* Leaving a queue yields a queue, and does not change whose mutex it is.
LEMMA LeaveLemma ==
    ASSUME NEW q \in Seq(Task), NEW t \in Task
    PROVE  /\ Leave(q, t) \in Seq(Task)
           /\ q # <<>> /\ Head(q) # t =>
                 Leave(q, t) # <<>> /\ Head(Leave(q, t)) = Head(q)
<1>1. CASE ~ \E i \in DOMAIN q : q[i] = t
  BY <1>1 DEF Leave
<1>2. CASE \E i \in DOMAIN q : q[i] = t
  <2> DEFINE n == CHOOSE i \in DOMAIN q : q[i] = t
  <2>1. n \in 1..Len(q) /\ q[n] = t
    BY <1>2
  <2>2. Leave(q, t) = SubSeq(q, 1, n-1) \o SubSeq(q, n+1, Len(q))
    BY <1>2 DEF Leave, RemoveAt
  <2> HIDE DEF n
  <2>3. SubSeq(q, 1, n-1) \in Seq(Task) /\ SubSeq(q, n+1, Len(q)) \in Seq(Task)
    BY <2>1
  <2>4. Leave(q, t) \in Seq(Task)
    BY <2>2, <2>3
  <2>5. ASSUME q # <<>>, Head(q) # t
        PROVE  Leave(q, t) # <<>> /\ Head(Leave(q, t)) = Head(q)
    <3>1. n > 1 
      BY <2>1, <2>5
    <3>2. Len(SubSeq(q, 1, n-1)) = n - 1 /\ SubSeq(q, 1, n-1)[1] = q[1]
      BY <2>1, <3>1
    <3> DEFINE a == SubSeq(q, 1, n-1)
               b == SubSeq(q, n+1, Len(q))
    <3>3. a \in Seq(Task) /\ b \in Seq(Task) /\ Len(a) \in Nat \ {0} /\ a[1] = q[1]
      BY <2>1, <2>3, <3>1, <3>2
    <3>4. Leave(q, t) = a \o b
      BY <2>2
    <3> HIDE DEF a, b
    <3>5. Len(a \o b) > 0 /\ (a \o b)[1] = a[1]
      BY <3>3
    <3>6. QED
      BY <3>3, <3>4, <3>5, <2>4, <2>5
  <2>6. QED
    BY <2>4, <2>5
<1>3. QED
  BY <1>1, <1>2

\* The effect of a call's release on the queues.
LEMMA ReleaseQueues ==
    ASSUME TypeOK, NEW t \in Task, ReleaseAll(t)
    PROVE  /\ queue' \in Seq(Seq(Task))
           /\ Len(queue') = Len(queue)
           /\ \A m \in 1..Len(queue), u \in Task :
                 u # t /\ Owns(m, u) => Owns(m, u)'
<1>1. queue \in Seq(Seq(Task)) /\ queue' = [m \in 1..Len(queue) |-> Leave(queue[m], t)]
  BY DEF TypeOK, ReleaseAll
<1>2. \A m \in 1..Len(queue) : queue[m] \in Seq(Task)
  BY <1>1
<1>3. \A m \in 1..Len(queue) : queue'[m] \in Seq(Task)
  BY <1>1, <1>2, LeaveLemma
<1>4. queue' \in Seq(Seq(Task)) /\ Len(queue') = Len(queue)
  BY <1>1, <1>3
<1>5. ASSUME NEW m \in 1..Len(queue), NEW u \in Task, u # t, Owns(m, u)
      PROVE  Owns(m, u)'
  BY <1>1, <1>2, <1>5, LeaveLemma DEF Owns
<1>6. QED
  BY <1>4, <1>5

-----------------------------------------------------------------------------

\* The variables keep their types: no step leaves a lock id the queue does not have.
LEMMA TypeInductive == TypeOK /\ [Next]_vars => TypeOK'
<1> SUFFICES ASSUME TypeOK, [Next]_vars PROVE TypeOK'
  OBVIOUS
<1> USE DEF TypeOK
<1>1. ASSUME NEW t \in Task, Submit(t) PROVE TypeOK'
  <2>1. PICK r \in Requests[t] : 
          \/ PathConflict(r.ops) /\ pc' = [pc EXCEPT ![t] = "done"] /\ UNCHANGED <<dry, ops, need>>
          \/ /\ dry' = [dry EXCEPT ![t] = r.dry]
             /\ ops' = [ops EXCEPT ![t] = [i \in DOMAIN r.ops |-> ResolvedEarly(r.ops[i])]]
             /\ need' = [need EXCEPT ![t] = TouchedKeys(r.ops)]
             /\ pc' = [pc EXCEPT ![t] = "lookup"]
    BY <1>1 DEF Submit
  <2>2. r.dry \in BOOLEAN /\ r.ops \in Seq(Op)
    OBVIOUS
  <2>3. \A op \in Op : ResolvedEarly(op) \in Op
    BY DEF ResolvedEarly, Op, MutationKey, Kind
  <2>4. [i \in DOMAIN r.ops |-> ResolvedEarly(r.ops[i])] \in Seq(Op)
    <3>1. DOMAIN r.ops = 1..Len(r.ops) /\ Len(r.ops) \in Nat
          /\ \A i \in 1..Len(r.ops) : r.ops[i] \in Op
      BY <2>2
    <3>2. [i \in 1..Len(r.ops) |-> ResolvedEarly(r.ops[i])] \in [1..Len(r.ops) -> Op]
      BY <3>1, <2>3
    <3>3. QED
      BY <3>1, <3>2, FunctionIsSeq
  <2>5. TouchedKeys(r.ops) \subseteq Key
    <3>0. \A op \in Op : Endpoints(op) \subseteq Key
      BY DEF Endpoints, Op
    <3>1. \A i \in DOMAIN r.ops : Endpoints(r.ops[i]) \subseteq Key
      BY <2>2, <3>0
    <3> DEFINE ks == UNION {Endpoints(r.ops[i]) : i \in DOMAIN r.ops}
    <3>4. ks \subseteq Key
      BY <3>1
    <3>5. TouchedKeys(r.ops) = {MutationKey(k) : k \in ks}
      BY DEF TouchedKeys
    <3> HIDE DEF ks
    <3>2. \A k \in Key : MutationKey(k) \in Key
      BY DEF MutationKey
    <3>3. QED
      BY <3>2, <3>4, <3>5
  <2>6. pc' \in [Task -> PC] /\ dry' \in [Task -> BOOLEAN]
        /\ ops' \in [Task -> Seq(Op)] /\ need' \in [Task -> SUBSET Key]
    <3> HIDE DEF PC
    <3>1. "done" \in PC /\ "lookup" \in PC
      BY DEF PC
    <3> DEFINE os == [i \in DOMAIN r.ops |-> ResolvedEarly(r.ops[i])]
               ks == TouchedKeys(r.ops)
    <3>7. /\ pc' = [pc EXCEPT ![t] = "done"] \/ pc' = [pc EXCEPT ![t] = "lookup"]
          /\ ops' = ops \/ ops' = [ops EXCEPT ![t] = os]
          /\ need' = need \/ need' = [need EXCEPT ![t] = ks]
      BY <2>1
    <3>8. os \in Seq(Op) /\ ks \in SUBSET Key
      BY <2>4, <2>5
    <3> HIDE DEF os, ks
    <3>2. pc' \in [Task -> PC]
      <4>1. [pc EXCEPT ![t] = "done"] \in [Task -> PC]
        BY <3>1
      <4>2. [pc EXCEPT ![t] = "lookup"] \in [Task -> PC]
        BY <3>1
      <4>3. QED
        BY <3>7, <4>1, <4>2
    <3>3. dry' \in [Task -> BOOLEAN]
      BY <2>1, <2>2
    <3>4. ops' \in [Task -> Seq(Op)]
      <4>1. [ops EXCEPT ![t] = os] \in [Task -> Seq(Op)]
        BY <3>8
      <4>2. QED
        BY <3>7, <4>1
    <3>5. need' \in [Task -> SUBSET Key]
      <4>1. [need EXCEPT ![t] = ks] \in [Task -> SUBSET Key]
        BY <3>8
      <4>2. QED
        BY <3>7, <4>1
    <3>6. QED
      BY <3>2, <3>3, <3>4, <3>5
  <2>7. QED
    BY <1>1, <2>6 DEF Submit
<1>2. ASSUME NEW t \in Task, Lookup(t) PROVE TypeOK'
  <2>1. PICK k \in need[t] :
          LET kept == [j \in Key |-> Retained(lockMap[j])]
              fresh == Len(queue) + 1
              m == IF kept[k] # 0 THEN kept[k] ELSE fresh
          IN /\ lockMap' = [kept EXCEPT ![k] = m]
             /\ queue' = IF kept[k] # 0 THEN queue ELSE Append(queue, <<>>)
             /\ arc' = [arc EXCEPT ![t] = [@ EXCEPT ![k] = m]]
    BY <1>2 DEF Lookup
  <2> DEFINE kept == [j \in Key |-> Retained(lockMap[j])]
             m == IF kept[k] # 0 THEN kept[k] ELSE Len(queue) + 1
  <2>2. kept \in [Key -> 0..Len(queue)]
    BY DEF Retained
  <2>3. queue' \in Seq(Seq(Task)) /\ Len(queue') >= Len(queue) /\ m \in 0..Len(queue')
    BY <2>1, <2>2
  <2>4. lockMap' = [kept EXCEPT ![k] = m] /\ arc' = [arc EXCEPT ![t] = [@ EXCEPT ![k] = m]]
    BY <2>1
  <2> HIDE DEF kept, m
  <2>5. Len(queue) \in Nat /\ Len(queue') \in Nat
    BY <2>3
  <2>6. lockMap' \in [Key -> 0..Len(queue')] /\ arc' \in [Task -> [Key -> 0..Len(queue')]]
    <3>1. 0..Len(queue) \subseteq 0..Len(queue')
      BY <2>3, <2>5
    <3>2. kept \in [Key -> 0..Len(queue')] /\ m \in 0..Len(queue')
      BY <3>1, <2>2, <2>3
    <3>3. lockMap' \in [Key -> 0..Len(queue')]
      BY <3>2, <2>4
    <3>4. arc \in [Task -> [Key -> 0..Len(queue')]]
      BY <3>1
    <3>5. arc' \in [Task -> [Key -> 0..Len(queue')]]
      BY <3>4, <3>2, <2>4
    <3>6. QED
      BY <3>3, <3>5
  <2>7. QED
    BY <1>2, <2>3, <2>6 DEF Lookup, PC
<1>3. ASSUME NEW t \in Task, Poll(t) PROVE TypeOK'
  <2>1. queue' \in Seq(Seq(Task)) /\ Len(queue') = Len(queue)
    BY <1>3 DEF Poll, Awaits
  <2>2. QED
    BY <1>3, <2>1 DEF Poll, PC
<1>4. ASSUME NEW t \in Task, Granted(t) PROVE TypeOK'
  BY <1>4 DEF Granted, PC
<1>5. ASSUME NEW t \in Task, Stage(t) PROVE TypeOK'
  <2>1. \A op \in Op : ResolvedLate(op) \in Op
    BY DEF ResolvedLate, Op, Kind
  <2>2. ops[t] \in Seq(Op)
    OBVIOUS
  <2>3. [i \in DOMAIN ops[t] |-> ResolvedLate(ops[t][i])] \in Seq(Op)
    <3>1. DOMAIN ops[t] = 1..Len(ops[t]) /\ Len(ops[t]) \in Nat
          /\ \A i \in 1..Len(ops[t]) : ops[t][i] \in Op
      BY <2>2
    <3>2. [i \in 1..Len(ops[t]) |-> ResolvedLate(ops[t][i])] \in [1..Len(ops[t]) -> Op]
      BY <3>1, <2>1
    <3>3. QED
      BY <3>1, <3>2, FunctionIsSeq
  <2>4. ops' \in [Task -> Seq(Op)]
    BY <1>5, <2>3 DEF Stage
  <2>5. base' \in [Task -> [Key -> Content \cup {None}]]
    BY <1>5 DEF Stage
  <2>6. at' \in [Task -> Nat \ {0}] /\ pc' \in [Task -> PC]
    BY <1>5, <2>2 DEF Stage, PC
  <2>7. QED
    BY <1>5, <2>4, <2>5, <2>6 DEF Stage, lockVars
<1>6. ASSUME NEW t \in Task, ReleaseAll(t) PROVE TypeOK'
  <2>1. queue' \in Seq(Seq(Task)) /\ Len(queue') = Len(queue)
    BY <1>6, ReleaseQueues
  <2>2. QED
    BY <1>6, <2>1 DEF ReleaseAll, PC, NoArcs, Nothing
<1>7. ASSUME NEW t \in Task, Apply(t) PROVE TypeOK'
  <2> DEFINE op == ops[t][at[t]]
  <2>1. op \in Op /\ op.path \in Key /\ op.to \in Key
    <3>1. at[t] \in 1..Len(ops[t]) /\ ops[t] \in Seq(Op)
      BY <1>7 DEF Apply
    <3>2. op \in Op
      BY <3>1
    <3>3. QED
      BY <3>2 DEF Op
  <2>2. t \in Content /\ Absent \in Content
    BY DEF Content
  <2> HIDE DEF op
  <2>3. ASSUME NEW k \in Key, NEW c \in Content, Put(t, k, c)
        PROVE  /\ file' \in [Key -> Content] /\ link' \in [Key -> Key]
               /\ base' \in [Task -> [Key -> Content \cup {None}]]
    BY <2>3 DEF Put
  <2>4. Advance(t) => at' \in [Task -> Nat \ {0}]
    BY DEF Advance
  <2>5. /\ file' \in [Key -> Content] /\ link' \in [Key -> Key]
        /\ base' \in [Task -> [Key -> Content \cup {None}]]
        /\ at' \in [Task -> Nat \ {0}]
    BY <1>7, <2>1, <2>2, <2>3, <2>4 DEF Apply, op
  <2>6. QED
    BY <1>7, <2>5 DEF Apply, lockVars
<1>8. ASSUME NEW t \in Task, ApplyFails(t) PROVE TypeOK'
  BY <1>8 DEF ApplyFails, lockVars, Nothing
<1>9. ASSUME NEW k \in Key, Read(k) PROVE TypeOK'
  BY <1>9 DEF Read, lockVars
<1>10. CASE UNCHANGED vars
  BY <1>10 DEF vars, lockVars
<1>11. QED
  BY <1>1, <1>2, <1>3, <1>4, <1>5, <1>6, <1>7, <1>8, <1>9, <1>10
     DEF Next, Step, Abort, Reject, Finish, AllDone

LEMMA TypeInit == Init => TypeOK
BY DEF Init, TypeOK, PC, Content, Nothing, NoArcs

\* Type correctness: every variable of the queue and of the calls keeps its type.
THEOREM TypeCorrect == Spec => []TypeOK
BY TypeInit, TypeInductive, PTL DEF Spec

-----------------------------------------------------------------------------

LEMMA LockInit == Init => LockInv
BY TypeInit DEF Init, LockInv, ArcMapped, MapInjective, HeldOwns, NeedNotHeld, NoArcs

\* The steps that leave every lock variable alone.
LEMMA LockStutter ==
    ASSUME LockInv, TypeOK', UNCHANGED lockVars,
           \A t \in Task : pc'[t] = "idle" => pc[t] = "idle"
    PROVE  LockInv'
<1>1. UNCHANGED <<need, held, arc, lockMap, queue>>
  BY DEF lockVars
<1>2. ArcMapped' /\ MapInjective'
  BY <1>1 DEF LockInv, ArcMapped, MapInjective
<1>3. HeldOwns' /\ NeedNotHeld'
  BY <1>1 DEF LockInv, HeldOwns, Owns, NeedNotHeld
<1>4. QED
  BY <1>2, <1>3 DEF LockInv

\* Looking a lock up prunes only mutexes nobody has an Arc of, and hands out the one
\* every other holder of the key already has.
LEMMA LockLookup ==
    ASSUME LockInv, TypeOK', NEW t \in Task, Lookup(t)
    PROVE  LockInv'
<1> USE DEF LockInv
<1>1. PICK k \in need[t] :
        LET kept == [j \in Key |-> Retained(lockMap[j])]
            fresh == Len(queue) + 1
            m == IF kept[k] # 0 THEN kept[k] ELSE fresh
        IN /\ lockMap' = [kept EXCEPT ![k] = m]
           /\ queue' = IF kept[k] # 0 THEN queue ELSE Append(queue, <<>>)
           /\ arc' = [arc EXCEPT ![t] = [@ EXCEPT ![k] = m]]
  BY DEF Lookup
<1> DEFINE kept == [j \in Key |-> Retained(lockMap[j])]
           m == IF kept[k] # 0 THEN kept[k] ELSE Len(queue) + 1
<1>2. k \in Key /\ queue \in Seq(Seq(Task)) /\ Len(queue) \in Nat
      /\ lockMap \in [Key -> 0..Len(queue)] /\ arc \in [Task -> [Key -> 0..Len(queue)]]
      /\ held \in [Task -> SUBSET Key]
  BY DEF TypeOK
<1>3. /\ lockMap' = [kept EXCEPT ![k] = m]
      /\ queue' = queue \/ queue' = Append(queue, <<>>)
      /\ arc' = [arc EXCEPT ![t] = [@ EXCEPT ![k] = m]]
      /\ m # 0
  BY <1>1, <1>2
<1>4. \A j \in Key : kept[j] # 0 => kept[j] = lockMap[j]
  BY DEF Retained
<1>5. \A u \in Task, j \in Key : arc[u][j] # 0 => kept[j] = arc[u][j]
  BY <1>2 DEF Retained, InUse, ArcMapped
<1>6. m = kept[k] \/ (kept[k] = 0 /\ m = Len(queue) + 1)
  OBVIOUS
<1>7. kept \in [Key -> 0..Len(queue)]
  BY <1>2 DEF Retained
<1> HIDE DEF kept, m
<1>8. UNCHANGED <<need, held>> /\ pc' = [pc EXCEPT ![t] = "poll"]
  BY DEF Lookup
<1>9. ArcMapped'
  <2> SUFFICES ASSUME NEW u \in Task, NEW j \in Key, arc'[u][j] # 0
               PROVE  lockMap'[j] = arc'[u][j]
    BY DEF ArcMapped
  <2>1. CASE u = t /\ j = k
    BY <2>1, <1>2, <1>3, <1>7
  <2>2. CASE ~(u = t /\ j = k)
    <3>1. arc'[u][j] = arc[u][j] /\ kept[j] = arc[u][j]
      BY <2>2, <1>2, <1>3, <1>5
    <3>2. lockMap'[j] = kept[j]
      BY <3>1, <1>2, <1>3, <1>6, <1>7
    <3>3. QED
      BY <3>1, <3>2
  <2>3. QED
    BY <2>1, <2>2
<1>10. MapInjective'
  BY <1>2, <1>3, <1>4, <1>6, <1>7 DEF MapInjective
<1>11. HeldOwns'
  <2> SUFFICES ASSUME NEW u \in Task, NEW j \in held[u]
               PROVE  arc'[u][j] # 0 /\ queue'[arc'[u][j]] # <<>>
                      /\ Head(queue'[arc'[u][j]]) = u
    BY <1>8 DEF HeldOwns, Owns
  <2>1. j \in Key /\ arc[u][j] # 0 /\ Owns(arc[u][j], u)
    BY <1>2 DEF HeldOwns
  <2>2. arc'[u][j] = arc[u][j]
    BY <1>2, <1>3, <1>5, <1>6, <2>1
  <2>3. arc[u][j] \in 1..Len(queue)
    BY <1>2, <2>1
  <2>4. queue'[arc[u][j]] = queue[arc[u][j]]
    BY <1>2, <1>3, <2>3
  <2>5. QED
    BY <2>1, <2>2, <2>4 DEF Owns
<1>12. NeedNotHeld'
  BY <1>8 DEF NeedNotHeld, TypeOK
<1>13. QED
  BY <1>9, <1>10, <1>11, <1>12

\* Joining a mutex's queue does not change its owner.
LEMMA LockPoll ==
    ASSUME LockInv, TypeOK', NEW t \in Task, Poll(t)
    PROVE  LockInv'
<1> USE DEF LockInv
<1>1. PICK k \in need[t] : Awaits(t, k) /\ queue' = [queue EXCEPT ![arc[t][k]] = Append(@, t)]
  BY DEF Poll
<1>2. queue \in Seq(Seq(Task)) /\ arc[t][k] \in 1..Len(queue)
  BY <1>1 DEF TypeOK, Awaits
<1>3. ASSUME NEW n \in 1..Len(queue), NEW u \in Task, Owns(n, u)
      PROVE  Owns(n, u)'
  <2>1. queue[n] \in Seq(Task) /\ queue[n] # <<>> /\ Head(queue[n]) = u
    BY <1>2, <1>3 DEF Owns
  <2>2. queue'[n] = queue[n] \/ queue'[n] = Append(queue[n], t)
    BY <1>1, <1>2
  <2>3. Append(queue[n], t) # <<>> /\ Head(Append(queue[n], t)) = u
    BY <2>1
  <2>4. QED
    BY <2>1, <2>2, <2>3 DEF Owns
<1>4. UNCHANGED <<need, held, arc, lockMap>> /\ pc' = [pc EXCEPT ![t] = "wait"]
  BY DEF Poll
<1>5. HeldOwns'
  <2> SUFFICES ASSUME NEW u \in Task, NEW j \in held[u]
               PROVE  arc[u][j] # 0 /\ queue'[arc[u][j]] # <<>> /\ Head(queue'[arc[u][j]]) = u
    BY <1>4 DEF HeldOwns, Owns
  <2>1. j \in Key /\ arc[u][j] \in 0..Len(queue)
    BY DEF TypeOK
  <2>2. arc[u][j] # 0 /\ Owns(arc[u][j], u)
    BY DEF HeldOwns
  <2>3. arc[u][j] \in 1..Len(queue)
    BY <1>2, <2>1, <2>2
  <2>4. Owns(arc[u][j], u)'
    BY <1>3, <1>4, <2>2, <2>3 DEF Owns
  <2>5. QED
    BY <1>4, <2>2, <2>4 DEF Owns
<1>6. ArcMapped' /\ MapInjective' /\ NeedNotHeld'
  BY <1>4 DEF ArcMapped, MapInjective, NeedNotHeld, TypeOK
<1>7. QED
  BY <1>5, <1>6

\* A guard is granted to the mutex's owner.
LEMMA LockGranted ==
    ASSUME LockInv, TypeOK', NEW t \in Task, Granted(t)
    PROVE  LockInv'
<1> USE DEF LockInv
<1>1. PICK k \in need[t] : /\ Awaits(t, k)
                          /\ Owns(arc[t][k], t)
                          /\ held' = [held EXCEPT ![t] = @ \cup {k}]
                          /\ need' = [need EXCEPT ![t] = @ \ {k}]
                          /\ pc' = [pc EXCEPT ![t] = IF need[t] = {k} THEN "locked" ELSE "lookup"]
  BY DEF Granted
<1>2. UNCHANGED <<queue, arc, lockMap>>
  BY DEF Granted
<1>3. HeldOwns'
  <2> SUFFICES ASSUME NEW u \in Task, NEW j \in held'[u]
               PROVE  arc[u][j] # 0 /\ Owns(arc[u][j], u)
    BY <1>2 DEF HeldOwns, Owns
  <2>1. (u = t /\ j = k) \/ j \in held[u]
    BY <1>1 DEF TypeOK
  <2>2. arc[t][k] # 0 /\ Owns(arc[t][k], t)
    BY <1>1 DEF Awaits
  <2>3. CASE u = t /\ j = k
    BY <2>2, <2>3
  <2>4. CASE j \in held[u]
    BY <2>4 DEF HeldOwns
  <2>5. QED
    BY <2>1, <2>3, <2>4
<1>4. NeedNotHeld'
  BY <1>1 DEF NeedNotHeld, TypeOK
<1>5. QED
  BY <1>2, <1>3, <1>4 DEF ArcMapped, MapInjective

\* Dropping the guards of one call keeps every other call's guards valid.
LEMMA LockRelease ==
    ASSUME LockInv, TypeOK', NEW t \in Task, ReleaseAll(t)
    PROVE  LockInv'
<1> USE DEF LockInv
<1>1. /\ arc' = [arc EXCEPT ![t] = NoArcs]
      /\ held' = [held EXCEPT ![t] = {}]
      /\ need' = [need EXCEPT ![t] = {}]
      /\ pc' = [pc EXCEPT ![t] = "done"]
      /\ lockMap' = lockMap
  BY DEF ReleaseAll
<1>2. ArcMapped' /\ MapInjective'
  BY <1>1 DEF ArcMapped, MapInjective, NoArcs, TypeOK
<1>3. HeldOwns'
  <2> SUFFICES ASSUME NEW u \in Task, NEW j \in held'[u]
               PROVE  arc'[u][j] # 0 /\ queue'[arc'[u][j]] # <<>>
                      /\ Head(queue'[arc'[u][j]]) = u
    BY DEF HeldOwns, Owns
  <2>1. u # t /\ j \in held[u] /\ j \in Key /\ arc'[u][j] = arc[u][j]
    BY <1>1 DEF TypeOK
  <2>2. arc[u][j] \in 1..Len(queue) /\ Owns(arc[u][j], u)
    BY <2>1 DEF HeldOwns, TypeOK
  <2> DEFINE n == arc[u][j]
  <2>3. Owns(n, u)'
    <3> HIDE DEF n
    <3> QED BY <2>1, <2>2, ReleaseQueues DEF n
  <2>4. QED
    BY <2>1, <2>2, <2>3 DEF Owns
<1>4. NeedNotHeld'
  BY <1>1 DEF NeedNotHeld, TypeOK
<1>5. QED
  BY <1>2, <1>3, <1>4

LEMMA LockInductive == LockInv /\ [Next]_vars => LockInv'
<1> SUFFICES ASSUME LockInv, [Next]_vars PROVE LockInv'
  OBVIOUS
<1>0. TypeOK'
  BY TypeInductive DEF LockInv
<1>1. ASSUME NEW t \in Task, Submit(t) PROVE LockInv'
  <2>1. UNCHANGED <<held, arc, lockMap, queue>> /\ pc[t] = "idle"
        /\ (\A u \in Task : pc'[u] = "idle" => pc[u] = "idle")
        /\ (\A u \in Task : u # t => need'[u] = need[u])
    BY <1>1 DEF Submit, LockInv, TypeOK
  <2>2. NeedNotHeld'
    BY <2>1, <1>0 DEF NeedNotHeld, LockInv, TypeOK
  <2>3. QED
    BY <1>0, <2>1, <2>2 DEF LockInv, ArcMapped, MapInjective, HeldOwns, Owns
<1>2. ASSUME NEW t \in Task, Stage(t) PROVE LockInv'
  BY <1>0, <1>2, LockStutter DEF Stage, LockInv, TypeOK
<1>3. ASSUME NEW t \in Task, Apply(t) \/ ApplyFails(t) PROVE LockInv'
  BY <1>0, <1>3, LockStutter DEF Apply, ApplyFails
<1>4. ASSUME NEW k \in Key, Read(k) PROVE LockInv'
  BY <1>0, <1>4, LockStutter DEF Read
<1>5. CASE UNCHANGED vars
  BY <1>0, <1>5, LockStutter DEF vars
<1>6. QED
  BY <1>0, <1>1, <1>2, <1>3, <1>4, <1>5, LockLookup, LockPoll, LockGranted, LockRelease
     DEF Next, Step, Abort, Reject, Finish, AllDone

\* Two owners of one mutex are the same call.
LEMMA OneHolder ==
    ASSUME LockInv, NEW t \in Task, NEW u \in Task, NEW k \in Key,
           k \in held[t], k \in held[u]
    PROVE  t = u
<1>1. arc[t][k] = lockMap[k] /\ arc[u][k] = lockMap[k]
  BY DEF LockInv, HeldOwns, ArcMapped
<1>2. Owns(arc[t][k], t) /\ Owns(arc[u][k], u)
  BY DEF LockInv, HeldOwns
<1>3. QED
  BY <1>1, <1>2 DEF Owns

LEMMA LockInvariant == Spec => []LockInv
BY LockInit, LockInductive, PTL DEF Spec

\* Two calls never hold the guard of one key, whatever is pruned from the map and
\* whichever calls are cancelled while they wait.
THEOREM Exclusion == Spec => []MutualExclusion
<1>1. LockInv => MutualExclusion
  BY OneHolder DEF LockInv, TypeOK, MutualExclusion
<1>2. QED
  BY <1>1, LockInvariant, PTL

-----------------------------------------------------------------------------
(* Refinement: granting a guard is Take, dropping the guards is Drop, and   *)
(* no other step changes who holds what.                                    *)

\* The queue implements the abstract per-file lock.
THEOREM QueueImplementsLock == Spec => ImplementsPathLock
<1> DEFINE h == [k \in Key |-> {t \in Task : k \in held[t]}]
<1>1. Init => Lock!Init
  BY DEF Init, Lock!Init, Lock!Free
<1>2. LockInv /\ [Next]_vars => [Lock!Next]_h
  <2> SUFFICES ASSUME LockInv, [Next]_vars PROVE Lock!Next \/ h' = h
    OBVIOUS
  <2>1. ASSUME NEW t \in Task, Granted(t) PROVE Lock!Next
    <3>1. PICK k \in need[t] : /\ Awaits(t, k)
                              /\ Owns(arc[t][k], t)
                              /\ held' = [held EXCEPT ![t] = @ \cup {k}]
      BY <2>1 DEF Granted
    <3>2. k \in Key /\ k \notin held[t] /\ arc[t][k] # 0
      BY <3>1 DEF LockInv, TypeOK, NeedNotHeld, Awaits
    <3>3. ASSUME NEW u \in Task, k \in held[u] PROVE FALSE
      <4>1. arc[u][k] = lockMap[k] /\ arc[t][k] = lockMap[k] /\ Owns(arc[u][k], u)
        BY <3>2, <3>3 DEF LockInv, HeldOwns, ArcMapped
      <4>2. u = t
        BY <3>1, <4>1 DEF Owns
      <4>3. QED
        BY <3>2, <3>3, <4>2
    <3>4. h[k] = {}
      BY <3>2, <3>3
    <3>5. h' = [h EXCEPT ![k] = {t}]
      <4>1. \A u \in Task : held'[u] = IF u = t THEN held[t] \cup {k} ELSE held[u]
        BY <3>1 DEF LockInv, TypeOK
      <4> DEFINE g == [j \in Key |-> {u \in Task : j \in held'[u]}]
      <4>2. ASSUME NEW j \in Key PROVE g[j] = IF j = k THEN {t} ELSE h[j]
        <5>1. g[j] = {u \in Task : j \in held'[u]}
          OBVIOUS
        <5>2. h[j] = {u \in Task : j \in held[u]}
          OBVIOUS
        <5> HIDE DEF g, h
        <5>3. CASE j = k
          <6>1. \A u \in Task : j \in held'[u] <=> u = t
            BY <4>1, <3>3, <5>3
          <6>2. g[j] = {t}
            BY <5>1, <6>1
          <6>3. QED
            BY <5>3, <6>2
        <5>4. CASE j # k
          <6>1. \A u \in Task : j \in held'[u] <=> j \in held[u]
            BY <4>1, <5>4
          <6>2. g[j] = h[j]
            BY <5>1, <5>2, <6>1
          <6>3. QED
            BY <5>4, <6>2
        <5>5. QED
          BY <5>3, <5>4
      <4>3. g = [h EXCEPT ![k] = {t}]
        <5>1. /\ g = [j \in Key |-> g[j]]
              /\ h = [j \in Key |-> h[j]]
          OBVIOUS
        <5> HIDE DEF g, h
        <5>2. QED
          BY <5>1, <3>2, <4>2
      <4>4. QED
        BY <4>3
    <3>6. Lock!Take(t, k)
      BY <3>4, <3>5 DEF Lock!Take
    <3>7. QED
      BY <3>2, <3>6 DEF Lock!Next
  <2>2. ASSUME NEW t \in Task, ReleaseAll(t) PROVE Lock!Next
    <3>1. held' = [held EXCEPT ![t] = {}]
      BY <2>2 DEF ReleaseAll
    <3>2. h' = [k \in Key |-> h[k] \ {t}]
      BY <3>1 DEF LockInv, TypeOK
    <3>3. QED
      BY <3>2 DEF Lock!Next, Lock!Drop
  <2>3. CASE UNCHANGED held
    BY <2>3
  <2>4. ASSUME NEW t \in Task,
               Submit(t) \/ Lookup(t) \/ Poll(t) \/ Stage(t) \/ Apply(t) \/ ApplyFails(t)
        PROVE  UNCHANGED held
    BY <2>4 DEF Submit, Lookup, Poll, Stage, Apply, ApplyFails, lockVars
  <2>5. ASSUME NEW k \in Key, Read(k) PROVE UNCHANGED held
    BY <2>5 DEF Read, lockVars
  <2>6. UNCHANGED vars => UNCHANGED held
    BY DEF vars, lockVars
  <2>7. QED
    BY <2>1, <2>2, <2>3, <2>4, <2>5, <2>6 DEF Next, Step, Abort, Reject, Finish, AllDone
<1>3. QED
  BY <1>1, <1>2, LockInvariant, PTL DEF Spec, ImplementsPathLock, Lock!Spec

-----------------------------------------------------------------------------
(* What the lock protects.  Without symlinks a path is its own key, so the  *)
(* keys a call locked are the files it stages.                              *)

NoSymlinks == Links = [k \in Key |-> k]

\* The keys a call computed are the files it will touch.
KeysCoverOps == \A t \in Task :
    pc[t] \notin {"idle", "done"} => StagedFiles(ops[t]) \subseteq need[t] \cup held[t]

AllLocked == \A t \in Task : pc[t] \in {"locked", "apply"} => need[t] = {}

\* A staged file is locked, and is what the model last obtained unless it is absent.
StagedHeld == \A t \in Task, k \in Key : base[t][k] # None =>
    /\ pc[t] = "apply"
    /\ k \in held[t]
    /\ file[k] = base[t][k]
    /\ file[k] # Absent => lastRead[k] = file[k]

FreshInv == LockInv /\ link = Links /\ KeysCoverOps /\ AllLocked /\ StagedHeld

LEMMA FreshInit == Init => FreshInv
BY LockInit DEF Init, FreshInv, KeysCoverOps, AllLocked, StagedHeld, Nothing

\* Steps that leave the files and the staged contents alone.
LEMMA FreshKept ==
    ASSUME FreshInv, LockInv', KeysCoverOps', AllLocked',
           UNCHANGED <<file, link, base, lastRead>>,
           \A t \in Task : pc[t] = "apply" => pc'[t] = "apply" /\ held'[t] = held[t]
    PROVE  FreshInv'
BY DEF FreshInv, StagedHeld

LEMMA FreshInductive ==
    ASSUME NoSymlinks
    PROVE  FreshInv /\ [Next]_vars => FreshInv'
<1> SUFFICES ASSUME FreshInv, [Next]_vars PROVE FreshInv'
  OBVIOUS
<1>0. LockInv /\ LockInv' /\ TypeOK /\ TypeOK'
  BY LockInductive DEF FreshInv, LockInv
<1>1. \A k \in Key : link[k] = k /\ MutationKey(k) = k
  BY DEF NoSymlinks, FreshInv, MutationKey
<1>2. ASSUME NEW t \in Task, Submit(t) PROVE FreshInv'
  <2>1. PICK r \in Requests[t] :
          \/ pc' = [pc EXCEPT ![t] = "done"] /\ UNCHANGED <<ops, need>>
          \/ /\ ops' = [ops EXCEPT ![t] = [i \in DOMAIN r.ops |-> ResolvedEarly(r.ops[i])]]
             /\ need' = [need EXCEPT ![t] = TouchedKeys(r.ops)]
             /\ pc' = [pc EXCEPT ![t] = "lookup"]
    BY <1>2 DEF Submit
  <2> DEFINE os == [i \in DOMAIN r.ops |-> ResolvedEarly(r.ops[i])]
  <2>2. \A i \in DOMAIN r.ops : r.ops[i] \in Op
    <3>1. r.ops \in Seq(Op)
      OBVIOUS
    <3>2. QED
      BY <3>1
  <2>3. \A op \in Op : Endpoints(ResolvedEarly(op)) = Endpoints(op) /\ Endpoints(op) \subseteq Key
    BY <1>1 DEF ResolvedEarly, Endpoints, Op
  <2>4. StagedFiles(os) \subseteq TouchedKeys(r.ops)
    <3> SUFFICES ASSUME NEW k \in StagedFiles(os)
                 PROVE  k \in TouchedKeys(r.ops)
      OBVIOUS
    <3>0. PICK i \in DOMAIN os : k \in Endpoints(os[i])
      <4> HIDE DEF os
      <4> QED BY DEF StagedFiles
    <3>4. i \in DOMAIN r.ops /\ os[i] = ResolvedEarly(r.ops[i])
      BY <3>0
    <3>1. k \in Endpoints(r.ops[i]) /\ k \in Key
      BY <2>2, <2>3, <3>0, <3>4
    <3>2. k = MutationKey(k)
      BY <3>1, <1>1
    <3>3. QED
      BY <3>1, <3>2, <3>4 DEF TouchedKeys
  <2> HIDE DEF os
  <2>5. UNCHANGED <<file, link, base, lastRead, held>> /\ pc[t] = "idle"
    BY <1>2 DEF Submit
  <2>6. KeysCoverOps'
    <3> SUFFICES ASSUME NEW u \in Task, pc'[u] \notin {"idle", "done"}
                 PROVE  StagedFiles(ops'[u]) \subseteq need'[u] \cup held'[u]
      BY DEF KeysCoverOps
    <3>1. CASE u = t
      BY <3>1, <2>1, <2>4, <1>0 DEF TypeOK, os
    <3>2. CASE u # t
      BY <3>2, <2>1, <2>5, <1>0 DEF TypeOK, FreshInv, KeysCoverOps
    <3>3. QED
      BY <3>1, <3>2
  <2>7. AllLocked'
    BY <2>1, <1>0 DEF TypeOK, FreshInv, AllLocked
  <2>8. \A u \in Task : pc[u] = "apply" => pc'[u] = "apply"
    BY <2>1, <2>5, <1>0 DEF TypeOK
  <2>9. QED
    BY <1>0, <2>5, <2>6, <2>7, <2>8, FreshKept
<1>3. ASSUME NEW t \in Task, Lookup(t) \/ Poll(t) PROVE FreshInv'
  <2>1. /\ UNCHANGED <<file, link, base, lastRead, ops, need, held>>
        /\ pc' = [pc EXCEPT ![t] = "poll"] \/ pc' = [pc EXCEPT ![t] = "wait"]
        /\ pc[t] \in {"lookup", "poll"}
    BY <1>3 DEF Lookup, Poll
  <2>2. KeysCoverOps' /\ AllLocked'
    BY <2>1, <1>0 DEF FreshInv, KeysCoverOps, AllLocked, TypeOK
  <2>3. \A u \in Task : pc[u] = "apply" => pc'[u] = "apply"
    BY <2>1, <1>0 DEF TypeOK
  <2>4. QED
    BY <1>0, <2>1, <2>2, <2>3, FreshKept
<1>4. ASSUME NEW t \in Task, Granted(t) PROVE FreshInv'
  <2>1. PICK k \in need[t] :
          /\ held' = [held EXCEPT ![t] = @ \cup {k}]
          /\ need' = [need EXCEPT ![t] = @ \ {k}]
          /\ pc' = [pc EXCEPT ![t] = IF need[t] = {k} THEN "locked" ELSE "lookup"]
    BY <1>4 DEF Granted
  <2>2. UNCHANGED <<file, link, base, lastRead, ops>> /\ pc[t] = "wait"
    BY <1>4 DEF Granted
  <2>3. KeysCoverOps'
    BY <2>1, <2>2, <1>0 DEF FreshInv, KeysCoverOps, TypeOK
  <2>4. AllLocked'
    BY <2>1, <2>2, <1>0 DEF FreshInv, AllLocked, TypeOK
  <2>5. \A u \in Task : pc[u] = "apply" => pc'[u] = "apply" /\ held'[u] = held[u]
    BY <2>1, <2>2, <1>0 DEF TypeOK
  <2>6. QED
    BY <1>0, <2>2, <2>3, <2>4, <2>5, FreshKept
<1>5. ASSUME NEW t \in Task, Stage(t) PROVE FreshInv'
  <2>1. /\ pc[t] = "locked"
        /\ \A i \in DOMAIN ops[t] : OpValid(ops[t][i])
        /\ ops' = [ops EXCEPT ![t] = [i \in DOMAIN @ |-> ResolvedLate(@[i])]]
        /\ base' = [base EXCEPT ![t] =
                      [k \in Key |-> IF ~dry[t] /\ k \in StagedFiles(ops'[t])
                                     THEN file[k] ELSE None]]
        /\ pc' = [pc EXCEPT ![t] = "apply"]
        /\ UNCHANGED <<file, link, lastRead, held, need>>
    BY <1>5 DEF Stage, lockVars
  <2>2. \A i \in DOMAIN ops[t] : ops[t][i] \in Op
    <3>1. ops[t] \in Seq(Op)
      BY <1>0 DEF TypeOK
    <3>2. QED
      BY <3>1
  <2>3. \A op \in Op : Endpoints(ResolvedLate(op)) = Endpoints(op)
    BY <1>1 DEF ResolvedLate, Endpoints, Op
  <2>4. StagedFiles(ops'[t]) = StagedFiles(ops[t])
    <3>1. ops'[t] = [i \in DOMAIN ops[t] |-> ResolvedLate(ops[t][i])]
      BY <2>1, <1>0 DEF TypeOK
    <3>2. \A i \in DOMAIN ops[t] : Endpoints(ops'[t][i]) = Endpoints(ops[t][i])
      BY <3>1, <2>2, <2>3
    <3>3. DOMAIN ops'[t] = DOMAIN ops[t]
      BY <3>1
    <3> DEFINE os == ops'[t]
    <3>4. \A k : (k \in StagedFiles(os)) <=> (\E i \in DOMAIN os : k \in Endpoints(os[i]))
      <4> HIDE DEF os
      <4> QED BY DEF StagedFiles
    <3>5. \A k : k \in StagedFiles(ops[t]) <=> \E i \in DOMAIN ops[t] : k \in Endpoints(ops[t][i])
      BY DEF StagedFiles
    <3>6. \A k : k \in StagedFiles(os) <=> k \in StagedFiles(ops[t])
      BY <3>2, <3>3, <3>4, <3>5
    <3>7. QED
      BY <3>6
  <2>5. StagedFiles(ops[t]) \subseteq held[t] /\ need[t] = {}
    BY <2>1 DEF FreshInv, KeysCoverOps, AllLocked
  <2>6. ASSUME NEW k \in Key, k \in StagedFiles(ops[t]), file[k] # Absent
        PROVE  lastRead[k] = file[k]
    <3>1. PICK i \in DOMAIN ops[t] : k \in Endpoints(ops[t][i])
      BY <2>6 DEF StagedFiles
    <3> DEFINE op == ops[t][i]
    <3>2. op \in Op /\ OpValid(op) /\ k \in Endpoints(op)
      BY <2>1, <2>2, <3>1
    <3> HIDE DEF op
    <3>3. QED
      BY <3>2, <2>6, <1>1 DEF OpValid, Op, Kind, Endpoints, Exists, Fresh
  <2>7. KeysCoverOps' /\ AllLocked'
    BY <2>1, <2>4, <1>0 DEF FreshInv, KeysCoverOps, AllLocked, TypeOK
  <2>8. StagedHeld'
    <3> SUFFICES ASSUME NEW u \in Task, NEW k \in Key, base'[u][k] # None
                 PROVE  /\ pc'[u] = "apply" /\ k \in held[u] /\ file[k] = base'[u][k]
                        /\ file[k] # Absent => lastRead[k] = file[k]
      BY <2>1 DEF StagedHeld
    <3>1. CASE u = t
      <4>1. k \in StagedFiles(ops[t]) /\ base'[t][k] = file[k] /\ pc'[t] = "apply"
        BY <3>1, <2>1, <2>4, <1>0 DEF TypeOK
      <4>2. QED
        BY <3>1, <4>1, <2>5, <2>6
    <3>2. CASE u # t
      BY <3>2, <2>1, <1>0 DEF FreshInv, StagedHeld, TypeOK
    <3>3. QED
      BY <3>1, <3>2
  <2>9. QED
    BY <1>0, <2>1, <2>7, <2>8 DEF FreshInv
<1>6. ASSUME NEW t \in Task, ReleaseAll(t) PROVE FreshInv'
  <2>1. /\ held' = [held EXCEPT ![t] = {}]
        /\ need' = [need EXCEPT ![t] = {}]
        /\ base' = [base EXCEPT ![t] = Nothing]
        /\ pc' = [pc EXCEPT ![t] = "done"]
        /\ ops' = [ops EXCEPT ![t] = <<>>]
        /\ UNCHANGED <<file, link, lastRead>>
    BY <1>6 DEF ReleaseAll
  <2>2. KeysCoverOps' /\ AllLocked'
    BY <2>1, <1>0 DEF FreshInv, KeysCoverOps, AllLocked, TypeOK
  <2>3. StagedHeld'
    BY <2>1, <1>0 DEF FreshInv, StagedHeld, TypeOK, Nothing
  <2>4. QED
    BY <1>0, <2>1, <2>2, <2>3 DEF FreshInv
<1>7. ASSUME NEW t \in Task, Apply(t) PROVE FreshInv'
  <2>1. UNCHANGED <<pc, ops, lastRead, held, need>>
    BY <1>7 DEF Apply, lockVars
  <2>2. KeysCoverOps' /\ AllLocked'
    BY <2>1 DEF FreshInv, KeysCoverOps, AllLocked
  <2>3. ASSUME NEW k \in Key, NEW c, base[t][k] # None, Put(t, k, c)
        PROVE  link' = link /\ StagedHeld'
    <3>1. link' = link
      BY <2>3, <1>0, <1>1 DEF Put, TypeOK
    <3>2. \A u \in Task : u # t => base[u][k] = None
      BY <2>3, <1>0, OneHolder DEF FreshInv, StagedHeld
    <3>3. /\ file' = [file EXCEPT ![k] = c]
          /\ base' = [base EXCEPT ![t] = [@ EXCEPT ![k] = None]]
      BY <2>3 DEF Put
    <3>4. StagedHeld'
      <4> SUFFICES ASSUME NEW u \in Task, NEW j \in Key, base'[u][j] # None
                   PROVE  /\ pc'[u] = "apply" /\ j \in held'[u] /\ file'[j] = base'[u][j]
                          /\ file'[j] # Absent => lastRead'[j] = file'[j]
        BY DEF StagedHeld
      <4>1. j # k /\ base'[u][j] = base[u][j] /\ file'[j] = file[j]
        <5>1. base' \in [Task -> [Key -> Content \cup {None}]] /\ file \in [Key -> Content]
              /\ base \in [Task -> [Key -> Content \cup {None}]]
          BY <1>0 DEF TypeOK
        <5>2. CASE u = t
          BY <3>3, <5>1, <5>2
        <5>3. CASE u # t
          BY <3>2, <3>3, <5>1, <5>3
        <5>4. QED
          BY <5>2, <5>3
      <4>2. pc[u] = "apply" /\ j \in held[u] /\ file[j] = base[u][j]
            /\ (file[j] # Absent => lastRead[j] = file[j])
        BY <4>1 DEF FreshInv, StagedHeld
      <4>3. QED
        BY <4>1, <4>2, <2>1
    <3>5. QED
      BY <3>1, <3>4
  <2> DEFINE op == ops[t][at[t]]
  <2>4. op.path \in Key /\ op.to \in Key
    <3>1. ops[t] \in Seq(Op) /\ at[t] \in 1..Len(ops[t])
      BY <1>7, <1>0 DEF Apply, TypeOK
    <3>2. op \in Op
      BY <3>1
    <3>3. QED
      BY <3>2 DEF Op
  <2>5. \/ \E k \in {op.path, op.to}, c \in Content : base[t][k] # None /\ Put(t, k, c)
        \/ UNCHANGED <<file, link, base>>
    BY <1>7 DEF Apply, Content
  <2> HIDE DEF op
  <2>6. link' = link /\ StagedHeld'
    <3>1. CASE UNCHANGED <<file, link, base>>
      <4>1. UNCHANGED <<pc, held, lastRead, file, base>> /\ StagedHeld
        BY <3>1, <2>1 DEF FreshInv
      <4>2. QED
        BY <4>1, <3>1 DEF StagedHeld
    <3>2. CASE \E k \in {op.path, op.to}, c \in Content : base[t][k] # None /\ Put(t, k, c)
      BY <3>2, <2>3, <2>4
    <3>3. QED
      BY <3>1, <3>2, <2>5
  <2>7. QED
    BY <1>0, <2>2, <2>6 DEF FreshInv
<1>8. ASSUME NEW t \in Task, ApplyFails(t) PROVE FreshInv'
  <2>1. /\ base' = [base EXCEPT ![t] = Nothing]
        /\ UNCHANGED <<pc, file, link, ops, lastRead, held, need>>
    BY <1>8 DEF ApplyFails, lockVars
  <2>2. KeysCoverOps' /\ AllLocked'
    BY <2>1 DEF FreshInv, KeysCoverOps, AllLocked
  <2>3. StagedHeld'
    BY <2>1, <1>0 DEF FreshInv, StagedHeld, TypeOK, Nothing
  <2>4. QED
    BY <1>0, <2>1, <2>2, <2>3 DEF FreshInv
<1>9. ASSUME NEW k \in Key, Read(k) PROVE FreshInv'
  <2>1. /\ lastRead' = [lastRead EXCEPT ![k] = file[k]]
        /\ UNCHANGED <<pc, file, link, ops, base, held, need>>
    BY <1>9 DEF Read, lockVars
  <2>2. KeysCoverOps' /\ AllLocked' /\ StagedHeld'
    BY <2>1, <1>0 DEF FreshInv, KeysCoverOps, AllLocked, StagedHeld, TypeOK
  <2>3. QED
    BY <1>0, <2>1, <2>2 DEF FreshInv
<1>10. CASE UNCHANGED vars
  BY <1>0, <1>10 DEF vars, lockVars, FreshInv, KeysCoverOps, AllLocked, StagedHeld
<1>11. QED
  BY <1>2, <1>3, <1>4, <1>5, <1>6, <1>7, <1>8, <1>9, <1>10
     DEF Next, Step, Abort, Reject, Finish, AllDone

LEMMA FreshInvariant ==
    ASSUME NoSymlinks PROVE Spec => []FreshInv
BY FreshInit, FreshInductive, PTL DEF Spec

\* Without symlinks, the file a call validated is still on disk when it applies.
THEOREM Freshness ==
    ASSUME NoSymlinks PROVE Spec => []StagedIsFresh
<1>1. FreshInv => StagedIsFresh
  BY DEF FreshInv, StagedHeld, StagedIsFresh
<1>2. QED
  BY <1>1, FreshInvariant, PTL

\* Without symlinks, no call replaces or removes content the model has not obtained.
THEOREM NoLostUpdate ==
    ASSUME NoSymlinks PROVE Spec => NoBlindOverwrite
<1> DEFINE Seen == \A k \in Key : file'[k] # file[k] /\ file[k] # Absent => lastRead[k] = file[k]
<1>1. FreshInv /\ [Next]_vars => [Seen]_vars
  <2> SUFFICES ASSUME FreshInv, [Next]_vars, NEW k \in Key,
                      file'[k] # file[k], file[k] # Absent
               PROVE  lastRead[k] = file[k]
    OBVIOUS
  <2>1. ASSUME NEW t \in Task, Apply(t) PROVE lastRead[k] = file[k]
    <3>1. ASSUME NEW j, NEW c, base[t][j] # None, Put(t, j, c)
          PROVE  lastRead[k] = file[k]
      <4>1. k = j
        BY <3>1 DEF Put, FreshInv, LockInv, TypeOK
      <4>2. QED
        BY <3>1, <4>1 DEF FreshInv, StagedHeld
    <3>2. \/ \E j, c : base[t][j] # None /\ Put(t, j, c)
          \/ UNCHANGED file
      BY <2>1 DEF Apply
    <3>3. QED
      BY <3>1, <3>2
  <2>2. ASSUME NEW t \in Task, ReleaseAll(t) PROVE UNCHANGED file
    BY <2>2 DEF ReleaseAll
  <2>3. ASSUME NEW t \in Task, Submit(t) \/ Lookup(t) \/ Poll(t) \/ Granted(t)
                               \/ Stage(t) \/ ApplyFails(t)
        PROVE  UNCHANGED file
    BY <2>3 DEF Submit, Lookup, Poll, Granted, Stage, ApplyFails
  <2>4. ASSUME NEW j \in Key, Read(j) PROVE UNCHANGED file
    BY <2>4 DEF Read
  <2>5. UNCHANGED vars => UNCHANGED file
    BY DEF vars
  <2>6. QED
    BY <2>1, <2>2, <2>3, <2>4, <2>5 DEF Next, Step, Abort, Reject, Finish, AllDone
<1>2. QED
  BY <1>1, FreshInvariant, PTL DEF Spec, NoBlindOverwrite

=============================================================================
