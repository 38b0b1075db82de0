-------------------------- MODULE StreamRetryProofs --------------------------
(***************************************************************************)
(* Proofs about StreamRetry, for any answers of the provider, any cut into *)
(* deltas and any budget of retries: type correctness, one generation in    *)
(* what the agent holds, and a divergence only where the provider diverged. *)
(***************************************************************************)
EXTENDS StreamRetry, SequenceFacts, TLAPS

-----------------------------------------------------------------------------
(* The parts of the invariant. *)
Checked == {"text", "reason", "call"}

\* While an answer is read, or has been.
Reading == phase \in {"stream", "completed"}

Typed ==
    /\ emitted \in [Tracked -> Seq(Nat)] /\ seen \in [Tracked -> Nat]
    /\ expected \in [Tracked -> Nat]
    /\ phase \in {"send", "backoff", "stream", "pause", "completed", "failed", "cancelled"}
    /\ why \in {"none", "request", "auth", "refused", "overflow", "stream", "diverged", "idle",
                "cancelled"}
    /\ sends \in 0..MaxRetries /\ (phase = "backoff" => sends < MaxRetries)
    /\ tries \in 0..MaxStreams /\ rotated \in BOOLEAN
    /\ gen \in Answer \cup {<<>>} /\ pos \in 0..Len(gen)
    /\ latched \subseteq Latch
    /\ heard \in Seq(Atom) /\ touched \in BOOLEAN /\ spare \subseteq {"compaction", "parent"}
    /\ cancelled \in BOOLEAN /\ sampled \subseteq Answer
    /\ Live => why = "none"

\* The prefix is as long as what was there at the start of the attempt, or as what it covered.
Level ==
    phase \in {"send", "backoff"} \/ Reading =>
        \A k \in Tracked :
            /\ seen[k] <= Len(emitted[k]) /\ expected[k] <= Len(emitted[k])
            /\ Len(emitted[k]) \in {seen[k], expected[k]}
            /\ ~Reading => seen[k] = 0

\* What has arrived of the answer is what the prefix holds up to the cursor.
Arrived(k) == Content(SubSeq(gen, 1, pos), k)
Covering ==
    Reading =>
        /\ gen \in sampled
        /\ \A k \in Tracked : seen[k] = Len(Arrived(k))
        /\ \A k \in Checked : \A i \in 1..seen[k] : emitted[k][i] = Arrived(k)[i]

Finished == phase = "completed" => pos = Len(gen) /\ ~Short

\* What was passed on is what the agent holds.
Passed == \A k \in {"text", "call"} : Content(heard, k) = emitted[k]

\* What was passed on is the beginning of one answer, kind by kind.
Sampled(k) == \E g \in sampled \cup {<<>>} : IsPrefix(emitted[k], Content(g, k))
Prefixed == \A k \in Checked : Sampled(k)

\* Started and ServerModel are announced once.
Once == \A l \in Latch : Len(OfKind(heard, l)) = IF l \in latched THEN 1 ELSE 0

IInv ==
    /\ Typed /\ Level /\ Covering /\ Finished /\ Passed /\ Prefixed /\ Once
    /\ DivergenceIsReal

-----------------------------------------------------------------------------
(* The atoms of one kind, and their values. *)
LEMMA OfKindType ==
    ASSUME NEW s \in Seq(Atom), NEW k
    PROVE  /\ OfKind(s, k) \in Seq(Atom)
           /\ Content(s, k) \in Seq(Nat)
           /\ Len(Content(s, k)) = Len(OfKind(s, k))
           /\ \A i \in 1..Len(OfKind(s, k)) : Content(s, k)[i] = OfKind(s, k)[i].val
<1> DEFINE o == OfKind(s, k)
<1>1. o \in Seq(Atom)  BY OnlyPlaces DEF OfKind
<1> HIDE DEF o
<1>2. \A i \in 1..Len(o) : o[i].val \in Nat
  <2>1. \A i \in 1..Len(o) : o[i] \in Atom  BY <1>1
  <2> QED BY <2>1 DEF Atom
<1>3. DOMAIN o = 1..Len(o) /\ Len(o) \in Nat  BY <1>1
<1>4. Content(s, k) = [i \in 1..Len(o) |-> o[i].val]  BY <1>3 DEF Content, o
<1> QED BY <1>1, <1>2, <1>3, <1>4 DEF o

\* Nothing is of any kind where nothing is.
LEMMA OfKindEmpty == \A k : OfKind(<<>>, k) = <<>> /\ Content(<<>>, k) = <<>>
<1> SUFFICES ASSUME NEW k PROVE OfKind(<<>>, k) = <<>> /\ Content(<<>>, k) = <<>>
  OBVIOUS
<1>1. OfKind(<<>>, k) = <<>>  BY OnlyEmpty DEF OfKind
<1>2. <<>> \in Seq(Atom) /\ Len(<<>>) = 0  OBVIOUS
<1>3. Content(<<>>, k) \in Seq(Nat) /\ Len(Content(<<>>, k)) = 0  BY <1>1, <1>2, OfKindType
<1> QED BY <1>1, <1>3

\* What comes after goes after, kind by kind.
LEMMA OfKindConcat ==
    ASSUME NEW s \in Seq(Atom), NEW t \in Seq(Atom), NEW k
    PROVE  /\ OfKind(s \o t, k) = OfKind(s, k) \o OfKind(t, k)
           /\ Content(s \o t, k) = Content(s, k) \o Content(t, k)
<1>1. OfKind(s \o t, k) = OfKind(s, k) \o OfKind(t, k)  BY OnlyConcat DEF OfKind
<1> DEFINE a == OfKind(s, k)
           b == OfKind(t, k)
           c == OfKind(s \o t, k)
           u == Content(s, k)
           v == Content(t, k)
           w == Content(s \o t, k)
<1>2. s \o t \in Seq(Atom)  OBVIOUS
<1>3. /\ a \in Seq(Atom) /\ b \in Seq(Atom) /\ c = a \o b
      /\ u \in Seq(Nat) /\ v \in Seq(Nat) /\ w \in Seq(Nat)
      /\ Len(u) = Len(a) /\ Len(v) = Len(b) /\ Len(w) = Len(c)
      /\ \A i \in 1..Len(a) : u[i] = a[i].val
      /\ \A i \in 1..Len(b) : v[i] = b[i].val
      /\ \A i \in 1..Len(c) : w[i] = c[i].val
  BY <1>1, <1>2, OfKindType
<1> HIDE DEF a, b, c, u, v, w
<1>4. /\ Len(c) = Len(a) + Len(b) /\ Len(a) \in Nat /\ Len(b) \in Nat
      /\ \A i \in 1..Len(a) : c[i] = a[i]
      /\ \A i \in 1..Len(b) : c[Len(a) + i] = b[i]
  <2>1. a \in Seq(Atom) /\ b \in Seq(Atom) /\ c = a \o b  BY <1>3
  <2> QED BY <2>1, ConcatProperties
<1>5. /\ u \o v \in Seq(Nat) /\ Len(u \o v) = Len(w)
      /\ \A i \in 1..Len(a) : (u \o v)[i] = u[i]
      /\ \A i \in 1..Len(b) : (u \o v)[Len(a) + i] = v[i]
  <2>1. u \in Seq(Nat) /\ v \in Seq(Nat)  BY <1>3
  <2>2. /\ u \o v \in Seq(Nat) /\ Len(u \o v) = Len(u) + Len(v)
        /\ \A i \in 1..Len(u) : (u \o v)[i] = u[i]
        /\ \A i \in 1..Len(v) : (u \o v)[Len(u) + i] = v[i]
    BY <2>1, ConcatProperties
  <2>3. Len(u) = Len(a) /\ Len(v) = Len(b) /\ Len(w) = Len(c)  BY <1>3
  <2> QED BY <2>2, <2>3, <1>4
<1>6. ASSUME NEW i \in 1..Len(w) PROVE w[i] = (u \o v)[i]
  <2>1. CASE i <= Len(a)
    <3>1. i \in 1..Len(a)  BY <2>1, <1>3, <1>4
    <3>2. (u \o v)[i] = u[i]  BY <3>1, <1>5
    <3> QED BY <3>1, <3>2, <1>3, <1>4
  <2>2. CASE i > Len(a)
    <3> DEFINE j == i - Len(a)
    <3>1. j \in 1..Len(b) /\ Len(a) + j = i  BY <2>2, <1>3, <1>4
    <3>2. (u \o v)[i] = v[j]  BY <3>1, <1>5
    <3>3. c[i] = b[j]  BY <3>1, <1>4
    <3> QED BY <3>1, <3>2, <3>3, <1>3
  <2>3. i <= Len(a) \/ i > Len(a)  BY <1>3, <1>4
  <2> QED BY <2>1, <2>2, <2>3
<1>7. w = u \o v
  <2> HIDE DEF w, u, v
  <2> QED BY <1>3, <1>5, <1>6, SeqEqual
<1> QED BY <1>1, <1>7 DEF u, v, w

\* Atoms of one kind have all their values there, and nothing elsewhere.
LEMMA OfOneKind ==
    ASSUME NEW s \in Seq(Atom), NEW k, NEW j, \A i \in 1..Len(s) : s[i].kind = k
    PROVE  /\ Content(s, k) = [i \in 1..Len(s) |-> s[i].val]
           /\ j # k => OfKind(s, j) = <<>> /\ Content(s, j) = <<>>
<1>1. ASSUME NEW i \in 1..Len(s) PROVE s[i] \in [kind : {k}, val : Nat]
  <2>1. s[i] \in Atom /\ s[i].kind = k  OBVIOUS
  <2> QED BY <2>1 DEF Atom
<1>2. OfKind(s, k) = s  BY <1>1, OnlyAll DEF OfKind
<1>3. DOMAIN s = 1..Len(s)  OBVIOUS
<1>4. Content(s, k) = [i \in 1..Len(s) |-> s[i].val]  BY <1>2, <1>3 DEF Content
<1>5. ASSUME j # k PROVE OfKind(s, j) = <<>>
  <2>1. \A i \in 1..Len(s) : s[i] \notin [kind : {j}, val : Nat]  BY <1>5
  <2> QED BY <2>1, OnlyNone DEF OfKind
<1>6. ASSUME j # k PROVE Content(s, j) = <<>>
  <2>1. Content(s, j) \in Seq(Nat) /\ Len(Content(s, j)) = 0
    BY <1>5, <1>6, OfKindType
  <2> QED BY <2>1
<1> QED BY <1>4, <1>5, <1>6

\* A sequence begins with what it begins with.
LEMMA PrefixOf ==
    ASSUME NEW X, NEW s \in Seq(X), NEW t \in Seq(X), Len(s) <= Len(t),
           \A i \in 1..Len(s) : s[i] = t[i]
    PROVE  IsPrefix(s, t)
<1>1. SubSeq(s, 1, Len(s)) = s  OBVIOUS
<1>2. SubSeq(t, 1, Len(s)) \in Seq(X) /\ Len(SubSeq(t, 1, Len(s))) = Len(s)
      /\ \A i \in 1..Len(s) : SubSeq(t, 1, Len(s))[i] = s[i]
  OBVIOUS
<1>3. SubSeq(t, 1, Len(s)) = s  BY <1>2, SeqEqual
<1> QED BY <1>1, <1>3 DEF IsPrefix

\* A prefix has the elements of what it begins.
LEMMA PrefixAt ==
    ASSUME NEW X, NEW s \in Seq(X), NEW t \in Seq(X), IsPrefix(s, t)
    PROVE  Len(s) <= Len(t) /\ \A i \in 1..Len(s) : s[i] = t[i]
<1>1. Len(s) <= Len(t) /\ SubSeq(s, 1, Len(s)) = SubSeq(t, 1, Len(s))  BY DEF IsPrefix
<1>2. ASSUME NEW i \in 1..Len(s) PROVE s[i] = t[i]
  <2>1. SubSeq(s, 1, Len(s))[i] = s[i] /\ SubSeq(t, 1, Len(s))[i] = t[i]  BY <1>1
  <2> QED BY <1>1, <2>1
<1> QED BY <1>1, <1>2

-----------------------------------------------------------------------------
(* The ends of an attempt. *)
Reasons == {"request", "auth", "refused", "overflow", "stream", "diverged", "idle", "cancelled"}

\* what a step of the request leaves alone: the answer and the token
Apart == UNCHANGED <<stream, cancelled>>

TwoAnswers == \E g, h \in sampled : g # h

\* The empty prefix has its types.
LEMMA NothingType ==
    /\ Nothing \in [Tracked -> Seq(Nat)] /\ Zero \in [Tracked -> Nat]
    /\ \A k \in Tracked : Nothing[k] = <<>> /\ Zero[k] = 0
    /\ <<>> \in Seq(Atom) /\ Len(<<>>) = 0
<1>1. <<>> \in Seq(Nat) /\ <<>> \in Seq(Atom)  OBVIOUS
<1> QED BY <1>1 DEF Nothing, Zero

\* The initial states.
LEMMA InitIInv == Init => IInv
<1> SUFFICES ASSUME Init PROVE IInv  OBVIOUS
<1> USE StreamAssumption DEF Init
<1>1. Typed
  <2>1. spare \subseteq {"compaction", "parent"}  OBVIOUS
  <2>2. sends \in 0..MaxRetries /\ tries \in 0..MaxStreams  OBVIOUS
  <2>3. pos \in 0..Len(gen) /\ heard \in Seq(Atom)  BY NothingType
  <2>4. emitted \in [Tracked -> Seq(Nat)] /\ seen \in [Tracked -> Nat] /\ expected \in [Tracked -> Nat]
    BY NothingType
  <2> QED BY <2>1, <2>2, <2>3, <2>4 DEF Typed, Live
<1>2. Level  BY DEF Level, Nothing, Zero, Reading
<1>3. Covering /\ Finished  BY DEF Covering, Finished, Reading
<1>4. Passed /\ Once  BY OfKindEmpty, NothingType DEF Passed, Once, Tracked, Deltas
<1>5. Prefixed
  <2>1. ASSUME NEW k \in Checked PROVE Sampled(k)
    <3>1. emitted[k] = <<>>  BY DEF Checked, Nothing, Tracked, Deltas
    <3>2. IsPrefix(emitted[k], Content(<<>>, k))  BY <3>1, OfKindEmpty DEF IsPrefix
    <3> QED BY <3>2 DEF Sampled
  <2> QED BY <2>1 DEF Prefixed
<1>6. DivergenceIsReal  BY DEF DivergenceIsReal
<1> QED BY <1>1, <1>2, <1>3, <1>4, <1>5, <1>6 DEF IInv

\* Nothing passed on, nothing held
LEMMA Afresh ==
    ASSUME emitted' = Nothing, heard' = <<>>, latched' = {}
    PROVE  Passed' /\ Prefixed' /\ Once'
<1>1. Passed' /\ Once'  BY OfKindEmpty DEF Passed, Once, Nothing, Tracked, Deltas
<1>2. ASSUME NEW k \in Checked PROVE Sampled(k)'
  <2>1. emitted'[k] = <<>>  BY DEF Checked, Nothing, Tracked, Deltas
  <2>2. IsPrefix(emitted'[k], Content(<<>>, k))  BY <2>1, OfKindEmpty DEF IsPrefix
  <2> QED BY <2>2 DEF Sampled
<1> QED BY <1>1, <1>2 DEF Prefixed

\* Nothing passed on, nothing held, and nothing happens to either
LEMMA Held ==
    ASSUME IInv, UNCHANGED <<emitted, heard, latched>>, sampled \subseteq sampled'
    PROVE  Passed' /\ Prefixed' /\ Once'
<1>1. Passed' /\ Once'  BY DEF IInv, Passed, Once
<1>2. ASSUME NEW k \in Checked PROVE Sampled(k)'
  <2>1. PICK g \in sampled \cup {<<>>} : IsPrefix(emitted[k], Content(g, k))
    BY DEF IInv, Prefixed, Sampled
  <2>2. g \in sampled' \cup {<<>>}  OBVIOUS
  <2> QED BY <2>1, <2>2 DEF Sampled
<1> QED BY <1>1, <1>2 DEF Prefixed

\* The agent gets an error: it begins afresh, or the turn fails.
LEMMA AgentFailsKeeps ==
    ASSUME IInv, Live, NEW error \in Reasons, AgentFails(error), Apart,
           error = "diverged" => TwoAnswers
    PROVE  IInv'
<1> USE StreamAssumption
<1>0. Typed /\ UNCHANGED <<gen, pos, cancelled>> /\ why = "none"
  BY DEF IInv, Typed, Apart, stream
<1>1. CASE \E s \in spare :
               /\ spare' = spare \ (IF error = "overflow" THEN {s, "compaction"} ELSE {s})
               /\ phase' = "send" /\ tries' = 0 /\ sends' = 0 /\ rotated' = FALSE
               /\ emitted' = Nothing /\ latched' = {} /\ seen' = Zero /\ expected' = Zero
               /\ heard' = <<>> /\ sampled' = {} /\ UNCHANGED touched /\ UNCHANGED why
  <2>1. Typed'
    <3>1. spare' \subseteq {"compaction", "parent"}  BY <1>0, <1>1 DEF Typed
    <3>2. sends' \in 0..MaxRetries /\ tries' \in 0..MaxStreams  BY <1>1
    <3>3. heard' \in Seq(Atom) /\ emitted' \in [Tracked -> Seq(Nat)]
          /\ seen' \in [Tracked -> Nat] /\ expected' \in [Tracked -> Nat]
      BY <1>1, NothingType
    <3> QED BY <1>0, <1>1, <3>1, <3>2, <3>3 DEF Typed, Live
  <2>2. Level' /\ Covering' /\ Finished'
    <3>1. \A k \in Tracked : Nothing[k] = <<>> /\ Zero[k] = 0 /\ Len(<<>>) = 0
      BY DEF Nothing, Zero
    <3> QED BY <1>1, <3>1 DEF Level, Covering, Finished, Reading
  <2>3. Passed' /\ Prefixed' /\ Once'  BY <1>1, Afresh
  <2>4. DivergenceIsReal'  BY <1>0, <1>1 DEF DivergenceIsReal
  <2> QED BY <2>1, <2>2, <2>3, <2>4 DEF IInv
<1>2. CASE /\ phase' = "failed" /\ why' = error
           /\ UNCHANGED <<sends, rotated, tries, skip, cursor, agent, sampled>>
  <2> USE DEF skip, cursor, agent
  <2>1. Typed'
    BY <1>0, <1>2 DEF Typed, Live, Reasons
  <2>2. Level' /\ Covering' /\ Finished'
    BY <1>2 DEF Level, Covering, Finished, Reading
  <2>3. Passed' /\ Prefixed' /\ Once'  BY <1>2, Held
  <2>4. DivergenceIsReal'  BY <1>2 DEF DivergenceIsReal, TwoAnswers
  <2> QED BY <2>1, <2>2, <2>3, <2>4 DEF IInv
<1>3. \/ \E s \in spare :
               /\ spare' = spare \ (IF error = "overflow" THEN {s, "compaction"} ELSE {s})
               /\ phase' = "send" /\ tries' = 0 /\ sends' = 0 /\ rotated' = FALSE
               /\ emitted' = Nothing /\ latched' = {} /\ seen' = Zero /\ expected' = Zero
               /\ heard' = <<>> /\ sampled' = {} /\ UNCHANGED touched /\ UNCHANGED why
      \/ /\ phase' = "failed" /\ why' = error
         /\ UNCHANGED <<sends, rotated, tries, skip, cursor, agent, sampled>>
  BY DEF AgentFails
<1> QED BY <1>1, <1>2, <1>3

\* A reconnect keeps the prefix, or nothing that was committed.
LEMMA ReconnectKeeps ==
    ASSUME IInv, Live, NEW error \in Reasons, NEW prefix, Apart,
           prefix = emitted \/ (prefix = Nothing /\ Uncommitted),
           Reconnect(error, prefix, tries + 1),
           error = "diverged" => TwoAnswers
    PROVE  IInv'
<1> USE StreamAssumption
<1>1. CASE MayReconnect /\ phase' = "pause" /\ tries' = tries + 1 /\ emitted' = prefix
           /\ UNCHANGED <<why, sending, latched, cursor, agent, sampled>>
  <2> USE DEF sending, cursor, agent, Apart, stream
  <2>0. Typed /\ tries < MaxStreams /\ why = "none"  BY <1>1 DEF IInv, Typed, MayReconnect
  <2>1. emitted' \in [Tracked -> Seq(Nat)]  BY <1>1, <2>0, NothingType DEF Typed
  <2>2. Typed'
    <3>1. tries' \in 0..MaxStreams  BY <1>1, <2>0 DEF Typed
    <3> QED BY <1>1, <2>0, <2>1, <3>1 DEF Typed, Live
  <2>3. Level' /\ Covering' /\ Finished'
    BY <1>1 DEF Level, Covering, Finished, Reading
  <2>4. Passed' /\ Prefixed' /\ Once'
    <3>1. CASE prefix = emitted  BY <1>1, <3>1, Held
    <3>2. CASE prefix = Nothing /\ Uncommitted
      <4>1. \A k \in {"text", "call"} : emitted[k] = Nothing[k]
        BY <3>2 DEF Uncommitted, Nothing, Tracked, Deltas
      <4>2. Passed' /\ Once'  BY <1>1, <3>2, <4>1 DEF IInv, Passed, Once
      <4>3. ASSUME NEW k \in Checked PROVE Sampled(k)'
        <5>1. emitted'[k] = <<>>  BY <1>1, <3>2 DEF Checked, Nothing, Tracked, Deltas
        <5>2. IsPrefix(emitted'[k], Content(<<>>, k))  BY <5>1, OfKindEmpty DEF IsPrefix
        <5> QED BY <5>2 DEF Sampled
      <4> QED BY <4>2, <4>3 DEF Prefixed
    <3> QED BY <3>1, <3>2
  <2>5. DivergenceIsReal'  BY <1>1, <2>0 DEF DivergenceIsReal
  <2> QED BY <2>2, <2>3, <2>4, <2>5 DEF IInv
<1>2. CASE AgentFails(error)  BY <1>2, AgentFailsKeeps
<1> QED BY <1>1, <1>2 DEF Reconnect

\* A divergence restarts from scratch or ends the request.
LEMMA DivergedKeeps ==
    ASSUME IInv, Live, Diverged, Apart, TwoAnswers
    PROVE  IInv'
<1>1. "diverged" \in Reasons  BY DEF Reasons
<1>2. CASE Uncommitted /\ Reconnect("diverged", Nothing, Restarted)
  BY <1>1, <1>2, ReconnectKeeps DEF Restarted
<1>3. CASE AgentFails("diverged")  BY <1>1, <1>3, AgentFailsKeeps
<1> QED BY <1>2, <1>3 DEF Diverged

-----------------------------------------------------------------------------
(* What an event does. *)
LEMMA GenType ==
    ASSUME Typed
    PROVE  gen \in Seq(Atom) /\ Len(gen) \in Nat /\ pos \in Nat /\ pos <= Len(gen)
<1>1. <<>> \in Seq(Atom)  OBVIOUS
<1>2. gen \in Seq(Atom)  BY <1>1, StreamAssumption DEF Typed
<1>3. pos \in 0..Len(gen)  BY DEF Typed
<1> QED BY <1>2, <1>3

\* n more atoms of one kind extend what has arrived of that kind, and of no other.
LEMMA EventArrives ==
    ASSUME Typed, NEW n \in Nat \ {0}, Event(n)
    PROVE  /\ pos + n \in 1..Len(gen)
           /\ Vals(n) \in Seq(Nat) /\ Len(Vals(n)) = n
           /\ \A i \in 1..n : Vals(n)[i] = gen[pos + i].val
           /\ Content(SubSeq(gen, 1, pos + n), Kind) = Arrived(Kind) \o Vals(n)
           /\ \A k \in Tracked : k # Kind => Content(SubSeq(gen, 1, pos + n), k) = Arrived(k)
           /\ \A i \in 1..n : gen[pos + i] \in Atom /\ gen[pos + i].kind = Kind
<1> DEFINE d == SubSeq(gen, pos + 1, pos + n)
           p == SubSeq(gen, 1, pos)
           q == SubSeq(gen, 1, pos + n)
<1>1. gen \in Seq(Atom) /\ Len(gen) \in Nat /\ pos \in Nat  BY GenType
<1>2. pos + n <= Len(gen) /\ \A i \in 2..n : gen[pos + i].kind = Kind  BY DEF Event, Kind
<1>3. ASSUME NEW i \in 1..n PROVE gen[pos + i] \in Atom /\ gen[pos + i].kind = Kind
  <2>1. pos + i \in 1..Len(gen)  BY <1>1, <1>2
  <2>2. CASE i = 1  BY <2>1, <2>2, <1>1 DEF Kind
  <2>3. CASE i # 1
    <3>1. i \in 2..n  BY <2>3
    <3>2. gen[pos + i].kind = Kind  BY <3>1, <1>2
    <3>3. gen[pos + i] \in Atom
      <4> HIDE DEF d, p, q
      <4> QED BY <2>1, <1>1
    <3> QED BY <3>2, <3>3
  <2> QED BY <2>2, <2>3
<1>4. /\ d \in Seq(Atom) /\ p \in Seq(Atom) /\ q \in Seq(Atom)
      /\ Len(d) = n /\ Len(p) = pos /\ Len(q) = pos + n
      /\ \A i \in 1..n : d[i] = gen[pos + i]
  <2>1. d \in Seq(Atom) /\ Len(d) = n
    <3>1. pos + 1 \in 1..Len(gen) /\ pos + n \in 1..Len(gen) /\ (pos + n) - (pos + 1) + 1 = n
      BY <1>1, <1>2
    <3> QED BY <1>1, <3>1
  <2>2. ASSUME NEW i \in 1..n PROVE d[i] = gen[pos + i]
    <3>1. (pos + 1) + i - 1 = pos + i  BY <1>1
    <3> QED BY <1>1, <1>2, <3>1
  <2>3. p \in Seq(Atom) /\ q \in Seq(Atom) /\ Len(p) = pos /\ Len(q) = pos + n
    BY <1>1, <1>2
  <2> QED BY <2>1, <2>2, <2>3
<1>5. q = p \o d
  <2>1. p \o d \in Seq(Atom) /\ Len(p \o d) = Len(q)  BY <1>1, <1>4
  <2>2. ASSUME NEW i \in 1..Len(q) PROVE q[i] = (p \o d)[i]
    <3>1. q[i] = gen[i]  BY <1>1, <1>2, <1>4
    <3>2. (p \o d)[i] = IF i <= Len(p) THEN p[i] ELSE d[i - Len(p)]
      <4>1. i \in 1..Len(p) + Len(d)  BY <1>1, <1>4
      <4> HIDE DEF p, d, q
      <4> QED BY <4>1, <1>4, ConcatProperties
    <3>3. CASE i <= pos
      <4>1. p[i] = gen[i]  BY <3>3, <1>1, <1>2
      <4> QED BY <3>1, <3>2, <3>3, <4>1, <1>4
    <3>4. CASE i > pos
      <4>1. i - pos \in 1..n /\ pos + (i - pos) = i  BY <3>4, <1>1, <1>4
      <4>2. d[i - pos] = gen[i]  BY <4>1, <1>4
      <4>3. ~(i <= Len(p))  BY <3>4, <1>1, <1>4
      <4> QED BY <3>1, <3>2, <4>2, <4>3, <1>4
    <3> QED BY <3>3, <3>4, <1>1, <1>4
  <2> HIDE DEF p, d, q
  <2> QED BY <1>4, <2>1, <2>2, SeqEqual
<1>6. \A i \in 1..Len(d) : d[i].kind = Kind  BY <1>3, <1>4
<1>7. Vals(n) = [i \in 1..Len(d) |-> d[i].val]  BY <1>4 DEF Vals
<1>8. \A k \in Tracked : Content(q, k) = Arrived(k) \o Content(d, k)
  <2> SUFFICES ASSUME NEW k \in Tracked PROVE Content(q, k) = Content(p, k) \o Content(d, k)
    BY DEF Arrived
  <2> HIDE DEF d, p, q
  <2>1. d \in Seq(Atom) /\ p \in Seq(Atom)  BY <1>4
  <2>2. Content(p \o d, k) = Content(p, k) \o Content(d, k)  BY <2>1, OfKindConcat
  <2> QED BY <2>2, <1>5
<1>9. \A k : Content(d, Kind) = Vals(n) /\ (k # Kind => Content(d, k) = <<>>)
  <2> SUFFICES ASSUME NEW k
               PROVE  Content(d, Kind) = Vals(n) /\ (k # Kind => Content(d, k) = <<>>)
    OBVIOUS
  <2> HIDE DEF d
  <2>1. Content(d, Kind) = [i \in 1..Len(d) |-> d[i].val]
        /\ (k # Kind => Content(d, k) = <<>>)
    <3>1. d \in Seq(Atom)  BY <1>4
    <3> QED BY <3>1, <1>6, OfOneKind
  <2> QED BY <2>1, <1>7
<1>10. \A k : Arrived(k) \in Seq(Nat)  BY <1>4, OfKindType DEF Arrived
<1>11. \A k \in Tracked : k # Kind => Content(q, k) = Arrived(k)
  <2> SUFFICES ASSUME NEW k \in Tracked, k # Kind PROVE Content(q, k) = Arrived(k)
    OBVIOUS
  <2>1. Content(q, k) = Arrived(k) \o <<>>  BY <1>8, <1>9
  <2>2. Arrived(k) \in Seq(Nat)  BY <1>10
  <2> HIDE DEF q
  <2> QED BY <2>1, <2>2
<1>12. Content(q, Kind) = Arrived(Kind) \o Vals(n)
  <2> HIDE DEF d, p, q
  <2>1. Content(q, Kind) = Content(p, Kind) \o Content(d, Kind)  BY <1>4, <1>5, OfKindConcat
  <2> QED BY <2>1, <1>9 DEF Arrived, p
<1>13. Vals(n) \in Seq(Nat) /\ Len(Vals(n)) = n /\ \A i \in 1..n : Vals(n)[i] = gen[pos + i].val
  <2>1. \A i \in 1..n : gen[pos + i].val \in Nat  BY <1>3 DEF Atom
  <2> QED BY <2>1 DEF Vals
<1> QED BY <1>1, <1>2, <1>3, <1>11, <1>12, <1>13

\* They stand in the answer where they arrive.
LEMMA EventWithin ==
    ASSUME Typed, NEW n \in Nat \ {0}, Event(n)
    PROVE  \E z \in Seq(Nat) : Content(gen, Kind) = (Arrived(Kind) \o Vals(n)) \o z
<1> DEFINE r == pos + n
           q1 == SubSeq(gen, 1, r)
           q2 == SubSeq(gen, r + 1, Len(gen))
<1>1. gen \in Seq(Atom) /\ Len(gen) \in Nat  BY GenType
<1>2. r \in 0..Len(gen) /\ r \in Nat /\ r + 1 \in Nat \ {0} /\ r + 1 <= Len(gen) + 1
  BY <1>1, EventArrives
<1>3. Content(q1, Kind) = Arrived(Kind) \o Vals(n)  BY EventArrives
<1> HIDE DEF r
<1>4. q1 \in Seq(Atom) /\ q2 \in Seq(Atom)  BY <1>1, <1>2, SubSeqAt
<1>5. gen = q1 \o q2  BY <1>1, <1>2, SplitAt
<1> HIDE DEF q1, q2
<1>6. Content(gen, Kind) = Content(q1, Kind) \o Content(q2, Kind) /\ Content(q2, Kind) \in Seq(Nat)
  BY <1>4, <1>5, OfKindConcat, OfKindType
<1> QED BY <1>3, <1>6

\* Latches are not tracked.
LEMMA LatchApart == \A k \in Latch : k \notin Tracked
BY DEF Latch, Tracked, Deltas

\* An announcement passes once.
LEMMA AnnounceKeeps ==
    ASSUME IInv, Announce PROVE IInv'
<1> DEFINE a == gen[pos + 1]
<1>0. /\ Typed /\ Event(1) /\ Kind \in Latch /\ phase = "stream"
      /\ pos' = pos + 1 /\ latched' = latched \cup {Kind}
      /\ heard' = IF Kind \in latched THEN heard ELSE Append(heard, a)
      /\ UNCHANGED <<phase, why, sends, rotated, tries, gen, emitted, seen, expected, touched,
                     spare, cancelled, sampled>>
  BY DEF IInv, Announce, Event, Streaming, sending, cursor
<1>1. /\ pos + 1 \in 1..Len(gen) /\ a \in Atom /\ a.kind = Kind
      /\ \A k \in Tracked : Content(SubSeq(gen, 1, pos + 1), k) = Arrived(k)
  <2>1. 1 \in Nat \ {0} /\ 1 \in 1..1  OBVIOUS
  <2> QED BY <2>1, <1>0, EventArrives, LatchApart
<1>2. heard \in Seq(Atom) /\ heard' \in Seq(Atom)  BY <1>0, <1>1 DEF Typed
<1>3. \A k : OfKind(heard', k) = IF Kind \in latched \/ k # Kind THEN OfKind(heard, k)
                                 ELSE Append(OfKind(heard, k), a)
  <2> SUFFICES ASSUME NEW k
               PROVE  OfKind(heard', k) = IF Kind \in latched \/ k # Kind THEN OfKind(heard, k)
                                          ELSE Append(OfKind(heard, k), a)
    OBVIOUS
  <2>1. a \in [kind : {k}, val : Nat] <=> k = Kind  BY <1>1 DEF Atom
  <2> HIDE DEF a
  <2>2. OfKind(Append(heard, a), k) =
            IF k = Kind THEN Append(OfKind(heard, k), a) ELSE OfKind(heard, k)
    <3> DEFINE S == [kind : {k}, val : Nat]
    <3>1. a \in S <=> k = Kind  BY <2>1
    <3> HIDE DEF S
    <3>2. Only(Append(heard, a), S) = IF a \in S THEN Append(Only(heard, S), a) ELSE Only(heard, S)
      BY <1>1, <1>2, OnlyAppend
    <3> QED BY <3>1, <3>2 DEF OfKind, S
  <2> QED BY <1>0, <2>2 DEF a
<1>4. Typed'
  <2>1. pos' \in 0..Len(gen')  BY <1>0, <1>1, GenType
  <2>2. latched' \subseteq Latch  BY <1>0 DEF Typed
  <2> QED BY <1>0, <1>2, <2>1, <2>2 DEF Typed, Live
<1>5. Level' /\ Finished' /\ DivergenceIsReal'
  BY <1>0 DEF IInv, Level, Finished, DivergenceIsReal, Reading
<1>6. Covering'
  <2>1. \A k \in Tracked : Arrived(k)' = Arrived(k)  BY <1>0, <1>1 DEF Arrived
  <2>2. Checked \subseteq Tracked  BY DEF Checked, Tracked, Deltas
  <2> QED BY <1>0, <2>1, <2>2 DEF IInv, Covering, Reading
<1>7. Passed'
  <2>1. ASSUME NEW k \in {"text", "call"} PROVE Content(heard', k) = emitted'[k]
    <3>1. k # Kind  BY <1>0, LatchApart DEF Tracked, Deltas
    <3>2. OfKind(heard', k) = OfKind(heard, k)  BY <3>1, <1>3
    <3>3. Content(heard', k) = Content(heard, k)  BY <3>2 DEF Content
    <3> QED BY <3>3, <1>0 DEF IInv, Passed
  <2> QED BY <2>1 DEF Passed
<1>8. Prefixed'  BY <1>0 DEF IInv, Prefixed, Sampled
<1>9. Once'
  <2>1. ASSUME NEW l \in Latch PROVE Len(OfKind(heard', l)) = IF l \in latched' THEN 1 ELSE 0
    <3>1. Len(OfKind(heard, l)) = IF l \in latched THEN 1 ELSE 0  BY DEF IInv, Once
    <3>2. OfKind(heard, l) \in Seq(Atom)  BY <1>2, OfKindType
    <3>3. CASE Kind \in latched \/ l # Kind
      <4>1. OfKind(heard', l) = OfKind(heard, l)  BY <3>3, <1>3
      <4>2. l \in latched' <=> l \in latched  BY <3>3, <1>0
      <4> QED BY <3>1, <4>1, <4>2
    <3>4. CASE ~(Kind \in latched \/ l # Kind)
      <4>1. OfKind(heard', l) = Append(OfKind(heard, l), a)  BY <3>4, <1>3
      <4>2. l \in latched' /\ l \notin latched  BY <3>4, <1>0
      <4>3. Len(Append(OfKind(heard, l), a)) = Len(OfKind(heard, l)) + 1  BY <3>2, <1>1
      <4> QED BY <3>1, <4>1, <4>2, <4>3
    <3> QED BY <3>3, <3>4
  <2> QED BY <2>1 DEF Once
<1> QED BY <1>4, <1>5, <1>6, <1>7, <1>8, <1>9 DEF IInv

\* Sequences of values: two in a row, and one without its first q.
Joined(s, t) ==
    /\ s \o t \in Seq(Nat) /\ Len(s \o t) = Len(s) + Len(t)
    /\ \A i \in 1..Len(s) : (s \o t)[i] = s[i]
    /\ \A i \in 1..Len(t) : (s \o t)[Len(s) + i] = t[i]
Rest(v, q) ==
    /\ SubSeq(v, q + 1, Len(v)) \in Seq(Nat) /\ Len(SubSeq(v, q + 1, Len(v))) = Len(v) - q
    /\ \A i \in 1..Len(v) - q : SubSeq(v, q + 1, Len(v))[i] = v[q + i]

\* What the two say of any sequences of values.
LEMMA JoinedRest ==
    /\ \A s, t \in Seq(Nat) : Joined(s, t)
    /\ \A v \in Seq(Nat) : \A q \in 0..Len(v) : Rest(v, q)
<1>1. \A s, t \in Seq(Nat) : Joined(s, t)  BY ConcatAt DEF Joined
<1>2. ASSUME NEW v \in Seq(Nat), NEW q \in 0..Len(v) PROVE Rest(v, q)
  <2> DEFINE m == q + 1
             n == Len(v)
  <2>1. /\ m \in Nat \ {0} /\ n \in Nat /\ m <= n + 1 /\ n <= Len(v)
        /\ n + 1 - m = n - q /\ m - 1 = q
    OBVIOUS
  <2> HIDE DEF m, n
  <2>2. /\ SubSeq(v, m, n) \in Seq(Nat) /\ Len(SubSeq(v, m, n)) = n + 1 - m
        /\ \A i \in 1..n + 1 - m : SubSeq(v, m, n)[i] = v[(m - 1) + i]
    BY <2>1, SubSeqAt
  <2> QED BY <2>1, <2>2 DEF Rest, m, n
<1> QED BY <1>1, <1>2

\* A prefix e, covered up to c, meets the values v of a delta: q of them are covered.
Covers(e, c, v, q) ==
    /\ e \in Seq(Nat) /\ v \in Seq(Nat) /\ c \in 0..Len(e)
    /\ q = IF Len(e) - c < Len(v) THEN Len(e) - c ELSE Len(v)
Extended(e, v, q) == e \o SubSeq(v, q + 1, Len(v))

Extension(e, c, v, q) ==
    /\ q \in 0..Len(v) /\ Rest(v, q)
    /\ Extended(e, v, q) \in Seq(Nat) /\ Len(Extended(e, v, q)) = Len(e) + (Len(v) - q)
    /\ c + Len(v) <= Len(e) => Extended(e, v, q) = e
    /\ \A i \in 1..Len(e) : Extended(e, v, q)[i] = e[i]
    /\ \A i \in 1..Len(v) - q : Extended(e, v, q)[Len(e) + i] = v[q + i]

\* The rest extends the prefix, which stays.
LEMMA Extend == \A e, c, v, q : Covers(e, c, v, q) => Extension(e, c, v, q)
<1> SUFFICES ASSUME NEW e, NEW c, NEW v, NEW q, Covers(e, c, v, q) PROVE Extension(e, c, v, q)
  OBVIOUS
<1> DEFINE u == SubSeq(v, q + 1, Len(v))
<1>1. /\ e \in Seq(Nat) /\ v \in Seq(Nat) /\ c \in 0..Len(e) /\ Len(e) \in Nat /\ Len(v) \in Nat
      /\ q \in 0..Len(v) /\ (c + Len(v) <= Len(e) => Len(v) - q = 0)
  BY DEF Covers
<1>2. Rest(v, q)  BY <1>1, JoinedRest, Zenon
<1>3. u \in Seq(Nat) /\ Len(u) = Len(v) - q /\ \A i \in 1..Len(v) - q : u[i] = v[q + i]
  BY <1>2, Zenon DEF Rest
<1> HIDE DEF u
<1>4. Joined(e, u)  BY <1>1, <1>3, JoinedRest, Zenon
<1>5. /\ e \o u \in Seq(Nat) /\ Len(e \o u) = Len(e) + Len(u)
      /\ \A i \in 1..Len(e) : (e \o u)[i] = e[i]
      /\ \A i \in 1..Len(u) : (e \o u)[Len(e) + i] = u[i]
  BY <1>4, Zenon DEF Joined
<1>6. ASSUME c + Len(v) <= Len(e) PROVE e \o u = e
  <2>1. u = <<>>  BY <1>1, <1>3, <1>6
  <2> QED BY <2>1, <1>1
<1>7. \A i \in 1..Len(v) - q : (e \o u)[Len(e) + i] = v[q + i]
  BY <1>3, <1>5, Zenon
<1>8. Extended(e, v, q) = e \o u  BY DEF Extended, u
<1> QED BY <1>1, <1>2, <1>3, <1>5, <1>6, <1>7, <1>8, Zenon DEF Extension

\* Where what it covers agrees with what arrived (a, and now v), all of it does.
Agree(e, c, v, q, a) ==
    /\ a \in Seq(Nat) /\ Len(a) = c /\ \A i \in 1..c : e[i] = a[i]
    /\ \A i \in 1..q : e[c + i] = v[i]
SameUpTo(m, s, t) == \A i \in 1..m : s[i] = t[i]
\* What is passed on of a delta goes on where what was passed on ends.
LEMMA ExtendSame ==
    \A e, c, v, q, a : Covers(e, c, v, q) /\ Agree(e, c, v, q, a) =>
        SameUpTo(c + Len(v), Extended(e, v, q), a \o v)
<1> TAKE e, c, v, q, a
<1> HAVE Covers(e, c, v, q) /\ Agree(e, c, v, q, a)
<1> SUFFICES ASSUME NEW i \in 1..c + Len(v) PROVE Extended(e, v, q)[i] = (a \o v)[i]
  BY Zenon DEF SameUpTo
<1> DEFINE f == Extended(e, v, q)
           b == a \o v
<1>0. /\ e \in Seq(Nat) /\ v \in Seq(Nat) /\ c \in 0..Len(e) /\ Len(e) \in Nat /\ Len(v) \in Nat
      /\ q = IF Len(e) - c < Len(v) THEN Len(e) - c ELSE Len(v)
      /\ a \in Seq(Nat) /\ Len(a) = c
  BY DEF Covers, Agree
<1>8. (\A j \in 1..c : e[j] = a[j]) /\ \A j \in 1..q : e[c + j] = v[j]
  BY Zenon DEF Agree
<1>1. /\ q \in 0..Len(v)
      /\ \A j \in 1..Len(e) : f[j] = e[j]
      /\ \A j \in 1..Len(v) - q : f[Len(e) + j] = v[q + j]
  <2>1. Extension(e, c, v, q)  BY Extend, Zenon
  <2> QED BY <2>1, Zenon DEF Extension
<1>2. Joined(a, v)  BY <1>0, JoinedRest, Zenon
<1>3. /\ \A j \in 1..c : b[j] = a[j]
      /\ \A j \in 1..Len(v) : b[c + j] = v[j]
  BY <1>0, <1>2, Zenon DEF Joined
<1> HIDE DEF f, b
<1>4. CASE i <= c
  <2>1. i \in 1..c /\ i \in 1..Len(e)  BY <1>4, <1>0
  <2>2. f[i] = e[i] /\ b[i] = a[i] /\ e[i] = a[i]  BY <2>1, <1>1, <1>3, <1>8, Zenon
  <2> QED BY <2>2, Zenon DEF f, b
<1>5. CASE i > c /\ i <= Len(e)
  <2> DEFINE j == i - c
  <2>1. j \in 1..q /\ j \in 1..Len(v) /\ c + j = i /\ i \in 1..Len(e)  BY <1>0, <1>1, <1>5
  <2> HIDE DEF j
  <2>2. e[c + j] = v[j] /\ b[c + j] = v[j] /\ f[i] = e[i]
    BY <2>1, <1>1, <1>3, <1>8, Zenon
  <2> QED BY <2>1, <2>2, Zenon DEF f, b
<1>6. CASE i > Len(e)
  <2> DEFINE j == i - Len(e)
             h == q + j
  <2>1. j \in 1..Len(v) - q /\ h \in 1..Len(v) /\ c + h = i /\ Len(e) + j = i
    BY <1>0, <1>1, <1>6
  <2> HIDE DEF j
  <2>2. f[Len(e) + j] = v[h]  BY <2>1, <1>1, Zenon
  <2> HIDE DEF h
  <2>3. b[c + h] = v[h]  BY <2>1, <1>3, Zenon
  <2> QED BY <2>1, <2>2, <2>3, Zenon DEF f, b
<1>7. i <= c \/ (i > c /\ i <= Len(e)) \/ i > Len(e)  BY <1>0
<1> QED BY <1>4, <1>5, <1>6, <1>7, Zenon

\* A delta that reproduces what was passed on adds what is new.
LEMMA DeliverKeeps ==
    ASSUME IInv, NEW n \in Nat \ {0}, Deliver(n) PROVE IInv'
<1> DEFINE K == Kind
           q == Consumed(n)
           u == SubSeq(Vals(n), q + 1, n)
           new == SubSeq(gen, pos + q + 1, pos + n)
<1>0. /\ Typed /\ Event(n) /\ K \in Tracked /\ Reproduces(n) /\ phase = "stream"
      /\ pos' = pos + n
      /\ seen' = [seen EXCEPT ![K] = seen[K] + n]
      /\ emitted' = [emitted EXCEPT ![K] = emitted[K] \o u]
      /\ heard' = IF K \in {"text", "call"} THEN heard \o new ELSE heard
      /\ touched' \in BOOLEAN
      /\ UNCHANGED <<phase, why, sends, rotated, tries, gen, latched, expected, spare, cancelled,
                     sampled>>
  BY DEF IInv, Typed, Deliver, Event, Streaming, sending, Covered
<1>1. /\ pos + n \in 1..Len(gen)
      /\ Vals(n) \in Seq(Nat) /\ Len(Vals(n)) = n
      /\ \A i \in 1..n : Vals(n)[i] = gen[pos + i].val
      /\ Content(SubSeq(gen, 1, pos + n), K) = Arrived(K) \o Vals(n)
      /\ \A k \in Tracked : k # K => Content(SubSeq(gen, 1, pos + n), k) = Arrived(k)
      /\ \A i \in 1..n : gen[pos + i] \in Atom /\ gen[pos + i].kind = K
  BY <1>0, EventArrives
<1>2. /\ emitted[K] \in Seq(Nat) /\ seen[K] \in Nat /\ expected[K] \in Nat
      /\ seen[K] <= Len(emitted[K]) /\ expected[K] <= Len(emitted[K])
      /\ Len(emitted[K]) \in {seen[K], expected[K]}
  BY <1>0 DEF IInv, Typed, Level, Reading
<1>3. /\ q = IF Len(emitted[K]) - seen[K] < n THEN Len(emitted[K]) - seen[K] ELSE n
      /\ Covers(emitted[K], seen[K], Vals(n), q)
  <2>1. q = IF Len(emitted[K]) - seen[K] < n THEN Len(emitted[K]) - seen[K] ELSE n
    BY DEF Consumed
  <2>2. seen[K] \in 0..Len(emitted[K])  BY <1>2
  <2> HIDE DEF q
  <2> QED BY <2>1, <2>2, <1>1, <1>2, Zenon DEF Covers
<1> HIDE DEF q
<1>4. /\ q \in 0..n
      /\ u \in Seq(Nat) /\ Len(u) = n - q /\ \A i \in 1..n - q : u[i] = Vals(n)[q + i]
      /\ emitted[K] \o u \in Seq(Nat) /\ Len(emitted[K] \o u) = Len(emitted[K]) + (n - q)
      /\ seen[K] + n <= Len(emitted[K]) => emitted[K] \o u = emitted[K]
  <2>1. Extension(emitted[K], seen[K], Vals(n), q)  BY <1>3, Extend, Zenon
  <2>2. u = SubSeq(Vals(n), q + 1, Len(Vals(n)))
        /\ Extended(emitted[K], Vals(n), q) = emitted[K] \o u
    BY <1>1, Zenon DEF Extended
  <2> HIDE DEF u
  <2>3. Rest(Vals(n), q) /\ Len(Vals(n)) = n  BY <1>1, <2>1, Zenon DEF Extension
  <2> QED BY <2>1, <2>2, <2>3, Zenon DEF Extension, Rest
<1>5. gen \in Seq(Atom) /\ Len(gen) \in Nat /\ pos \in Nat /\ heard \in Seq(Atom)
  BY <1>0, GenType DEF Typed
<1>6. /\ new \in Seq(Atom) /\ Len(new) = n - q
      /\ \A i \in 1..n - q : new[i] = gen[pos + (q + i)]
  <2> DEFINE m == pos + q + 1
             h == pos + n
  <2>1. /\ m \in Nat \ {0} /\ h \in Nat /\ m <= h + 1 /\ h <= Len(gen)
        /\ h + 1 - m = n - q /\ m - 1 = pos + q
    BY <1>1, <1>4, <1>5
  <2>2. \A i \in 1..n - q : (pos + q) + i = pos + (q + i)  BY <1>4, <1>5
  <2>3. new = SubSeq(gen, m, h)  OBVIOUS
  <2> HIDE DEF m, h, new, q
  <2>4. /\ SubSeq(gen, m, h) \in Seq(Atom) /\ Len(SubSeq(gen, m, h)) = h + 1 - m
        /\ \A i \in 1..h + 1 - m : SubSeq(gen, m, h)[i] = gen[(m - 1) + i]
    BY <2>1, <1>5, SubSeqAt
  <2> QED BY <2>1, <2>2, <2>3, <2>4, Zenon
<1> HIDE DEF new
<1>7. /\ \A i \in 1..Len(new) : new[i].kind = K
      /\ u = [i \in 1..Len(new) |-> new[i].val]
  <2>1. ASSUME NEW i \in 1..n - q
        PROVE  new[i].kind = K /\ u[i] = new[i].val
    <3>1. q + i \in 1..n  BY <1>4
    <3>2. new[i] = gen[pos + (q + i)] /\ u[i] = Vals(n)[q + i]  BY <1>4, <1>6
    <3> QED BY <3>1, <3>2, <1>1
  <2>2. u = [i \in 1..Len(u) |-> u[i]]
    <3> HIDE DEF u
    <3> QED BY <1>4
  <2> HIDE DEF u
  <2> QED BY <2>1, <2>2, <1>4, <1>6
<1>8. \A k : Content(new, K) = u /\ (k # K => OfKind(new, k) = <<>> /\ Content(new, k) = <<>>)
  <2> SUFFICES ASSUME NEW k
               PROVE  Content(new, K) = u
                      /\ (k # K => OfKind(new, k) = <<>> /\ Content(new, k) = <<>>)
    OBVIOUS
  <2> HIDE DEF u
  <2> QED BY <1>6, <1>7, OfOneKind
<1> HIDE DEF u
<1>9. emitted' \in [Tracked -> Seq(Nat)] /\ seen' \in [Tracked -> Nat]
  <2> DEFINE w == emitted[K] \o u
             c == seen[K] + n
  <2>1. emitted \in [Tracked -> Seq(Nat)] /\ seen \in [Tracked -> Nat]  BY <1>0 DEF Typed
  <2>2. w \in Seq(Nat) /\ c \in Nat  BY <1>2, <1>4
  <2>3. emitted' = [emitted EXCEPT ![K] = w] /\ seen' = [seen EXCEPT ![K] = c]  BY <1>0
  <2> HIDE DEF w, c, K
  <2> QED BY <2>1, <2>2, <2>3
<1>10. /\ emitted'[K] = emitted[K] \o u /\ seen'[K] = seen[K] + n
       /\ \A k \in Tracked : k # K => emitted'[k] = emitted[k] /\ seen'[k] = seen[k]
  BY <1>0 DEF Typed
<1>11. Typed'
  <2>1. pos' \in 0..Len(gen')  BY <1>0, <1>1, <1>5
  <2>2. heard' \in Seq(Atom)  BY <1>0, <1>5, <1>6
  <2> QED BY <1>0, <1>9, <2>1, <2>2 DEF Typed, Live
<1>12. Level'
  <2>1. ASSUME NEW k \in Tracked
        PROVE  /\ seen'[k] <= Len(emitted'[k]) /\ expected[k] <= Len(emitted'[k])
               /\ Len(emitted'[k]) \in {seen'[k], expected[k]}
    <3>1. CASE k = K
      <4>1. Len(emitted'[K]) = Len(emitted[K]) + (n - q) /\ seen'[K] = seen[K] + n
        BY <1>4, <1>10
      <4>2. Len(emitted[K]) \in Nat  BY <1>2
      <4>3. /\ seen'[K] <= Len(emitted'[K]) /\ expected[K] <= Len(emitted'[K])
            /\ Len(emitted'[K]) \in {seen'[K], expected[K]}
        <5> DEFINE e == Len(emitted[K])
                   f == Len(emitted'[K])
                   c == seen[K]
                   d == seen'[K]
                   x == expected[K]
        <5>1. /\ e \in Nat /\ c \in Nat /\ x \in Nat /\ c <= e /\ x <= e /\ (e = c \/ e = x)
              /\ q = IF e - c < n THEN e - c ELSE n
              /\ f = e + (n - q) /\ d = c + n
          BY <4>1, <4>2, <1>2, <1>3
        <5> HIDE DEF e, f, c, d, x, q
        <5>2. d <= f /\ x <= f /\ (f = d \/ f = x)  BY <5>1
        <5> QED BY <5>2 DEF f, d, x
      <4> QED BY <3>1, <4>3
    <3>2. CASE k # K  BY <3>2, <1>0, <1>10 DEF IInv, Level, Reading
    <3> QED BY <3>1, <3>2
  <2> QED BY <2>1, <1>0 DEF Level, Reading
<1>13. \A k \in Tracked : seen[k] = Len(Arrived(k))  BY <1>0 DEF IInv, Covering, Reading
<1>14. Arrived(K) \in Seq(Nat) /\ Len(Arrived(K) \o Vals(n)) = seen[K] + n
  <2>1. SubSeq(gen, 1, pos) \in Seq(Atom)  BY <1>1, <1>5
  <2>2. Arrived(K) \in Seq(Nat)  BY <2>1, OfKindType DEF Arrived
  <2>3. Len(Arrived(K)) = seen[K] /\ Vals(n) \in Seq(Nat) /\ Len(Vals(n)) = n
    BY <1>0, <1>1, <1>13
  <2>4. Joined(Arrived(K), Vals(n))  BY <2>2, <2>3, JoinedRest, Zenon
  <2> QED BY <2>2, <2>3, <2>4, Zenon DEF Joined
<1>15. \A k \in Tracked : Arrived(k)' = IF k = K THEN Arrived(K) \o Vals(n) ELSE Arrived(k)
  <2>1. ASSUME NEW k \in Tracked
        PROVE  Arrived(k)' = IF k = K THEN Arrived(K) \o Vals(n) ELSE Arrived(k)
    <3>1. Arrived(k)' = Content(SubSeq(gen, 1, pos + n), k)  BY <1>0, Zenon DEF Arrived
    <3>2. CASE k = K  BY <3>1, <3>2, <1>1, Zenon
    <3>3. CASE k # K  BY <3>1, <3>3, <1>1, Zenon
    <3> QED BY <3>2, <3>3, Zenon
  <2> QED BY <2>1, Zenon
<1>16. ASSUME K \in Checked
       PROVE  \A i \in 1..seen[K] + n : emitted'[K][i] = (Arrived(K) \o Vals(n))[i]
  <2>1. \A i \in 1..seen[K] : emitted[K][i] = Arrived(K)[i]
    BY <1>0, <1>16 DEF IInv, Covering, Reading
  <2>2. K # "sealed"  BY <1>16 DEF Checked
  <2>3. \A i \in 1..q : emitted[K][seen[K] + i] = gen[pos + i].val
    BY <1>0, <2>2 DEF Reproduces, q
  <2>4. \A i \in 1..q : emitted[K][seen[K] + i] = Vals(n)[i]
    <3>1. \A i \in 1..q : i \in 1..n  BY <1>4
    <3> HIDE DEF q
    <3> QED BY <2>3, <3>1, <1>1, Zenon
  <2>5. seen[K] = Len(Arrived(K))  BY <1>0, <1>13
  <2>6. \A i \in 1..seen[K] + n : (emitted[K] \o u)[i] = (Arrived(K) \o Vals(n))[i]
    <3> DEFINE a == Arrived(K)
               b == Extended(emitted[K], Vals(n), q)
    <3>1. a \in Seq(Nat) /\ Len(a) = seen[K] /\ \A i \in 1..seen[K] : emitted[K][i] = a[i]
      BY <2>1, <2>5, <1>14
    <3> HIDE DEF a
    <3>2. \A i \in 1..seen[K] + Len(Vals(n)) : b[i] = (a \o Vals(n))[i]
      <4>1. Agree(emitted[K], seen[K], Vals(n), q, a)  BY <3>1, <2>4, Zenon DEF Agree
      <4>2. Covers(emitted[K], seen[K], Vals(n), q)  BY <1>3
      <4> HIDE DEF q
      <4> DEFINE e == emitted[K]
                 c == seen[K]
                 v == Vals(n)
      <4> HIDE DEF e, c, v
      <4>3. Covers(e, c, v, q) /\ Agree(e, c, v, q, a)  BY <4>1, <4>2, Zenon DEF e, c, v
      <4>4. SameUpTo(c + Len(v), Extended(e, v, q), a \o v)  BY <4>3, ExtendSame, Zenon
      <4> QED BY <4>4, Zenon DEF e, c, v, SameUpTo
    <3>3. b = emitted[K] \o u /\ Len(Vals(n)) = n  BY <1>1, Zenon DEF Extended, u
    <3> QED BY <3>2, <3>3, Zenon DEF a
  <2> QED BY <2>6, <1>10
<1>17. Covering'
  <2>1. ASSUME NEW k \in Tracked PROVE seen'[k] = Len(Arrived(k)')
    <3>1. CASE k = K
      <4>1. Arrived(k)' = Arrived(K) \o Vals(n) /\ seen'[k] = seen[K] + n
        BY <3>1, <1>10, <1>15, Zenon
      <4> QED BY <4>1, <1>14, Zenon
    <3>2. CASE k # K  BY <3>2, <1>10, <1>13, <1>15, Zenon
    <3> QED BY <3>1, <3>2
  <2>2. ASSUME NEW k \in Checked PROVE \A i \in 1..seen'[k] : emitted'[k][i] = Arrived(k)'[i]
    <3>1. CASE k = K
      <4>1. Arrived(k)' = Arrived(K) \o Vals(n) /\ seen'[k] = seen[K] + n
        BY <3>1, <1>0, <1>10, <1>15, Zenon
      <4> QED BY <3>1, <4>1, <1>16, Zenon
    <3>2. CASE k # K
      <4>1. k \in Tracked  BY DEF Checked, Tracked, Deltas
      <4>2. \A i \in 1..seen[k] : emitted[k][i] = Arrived(k)[i]
        BY <1>0 DEF IInv, Covering, Reading
      <4> QED BY <3>2, <4>1, <4>2, <1>10, <1>15
    <3> QED BY <3>1, <3>2
  <2>3. gen' \in sampled'  BY <1>0 DEF IInv, Covering, Reading
  <2> QED BY <2>1, <2>2, <2>3 DEF Covering
<1>18. Finished' /\ DivergenceIsReal'
  BY <1>0 DEF IInv, Finished, DivergenceIsReal
<1>19. Passed'
  <2>1. ASSUME NEW k \in {"text", "call"} PROVE Content(heard', k) = emitted'[k]
    <3>0. Content(heard, k) = emitted[k] /\ k \in Tracked
      BY DEF IInv, Passed, Tracked, Deltas
    <3>1. CASE K \notin {"text", "call"}
      <4>1. k # K /\ heard' = heard  BY <3>1, <1>0
      <4> QED BY <4>1, <3>0, <1>10
    <3>2. CASE K \in {"text", "call"}
      <4>1. Content(heard', k) = Content(heard, k) \o Content(new, k)
        BY <3>2, <1>0, <1>5, <1>6, OfKindConcat
      <4>2. CASE k = K  BY <4>1, <4>2, <3>0, <1>8, <1>10
      <4>3. CASE k # K
        <5>1. Content(heard', k) = emitted[k] \o <<>>  BY <4>1, <4>3, <3>0, <1>8
        <5>2. emitted[k] \in Seq(Nat)  BY <3>0, <1>0 DEF Typed
        <5>3. emitted[k] \o <<>> = emitted[k]  BY <5>2
        <5> QED BY <5>1, <5>3, <4>3, <3>0, <1>10
      <4> QED BY <4>2, <4>3
    <3> QED BY <3>1, <3>2
  <2> QED BY <2>1 DEF Passed
<1>20. Prefixed'
  <2>1. ASSUME NEW k \in Checked PROVE Sampled(k)'
    <3>0. Sampled(k) /\ k \in Tracked  BY DEF IInv, Prefixed, Checked, Tracked, Deltas
    <3>1. CASE emitted'[k] = emitted[k]  BY <3>0, <3>1, <1>0 DEF Sampled
    <3>2. CASE emitted'[k] # emitted[k]
      <4>1. k = K /\ ~(seen[K] + n <= Len(emitted[K]))  BY <3>0, <3>2, <1>4, <1>10, Zenon
      <4>2. Len(emitted'[K]) = seen[K] + n /\ emitted'[K] \in Seq(Nat)
        <5>1. Len(emitted'[K]) = Len(emitted[K]) + (n - q) /\ emitted'[K] \in Seq(Nat)
          BY <1>4, <1>10, Zenon
        <5> DEFINE e == Len(emitted[K])
                   c == seen[K]
        <5>2. e \in Nat /\ c \in Nat /\ q = (IF e - c < n THEN e - c ELSE n) /\ ~(c + n <= e)
          BY <4>1, <1>2, <1>3
        <5> HIDE DEF e, c, q
        <5>3. e + (n - q) = c + n  BY <5>2
        <5> QED BY <5>1, <5>3, Zenon DEF e, c
      <4> DEFINE b == Arrived(K) \o Vals(n)
                 g == Content(gen, K)
      <4>3. \A i \in 1..seen[K] + n : emitted'[K][i] = b[i]  BY <4>1, <1>16
      <4>4. b \in Seq(Nat) /\ Len(b) = seen[K] + n /\ g \in Seq(Nat)
        BY <1>1, <1>5, <1>14, OfKindType
      <4>5. \E z \in Seq(Nat) : g = b \o z
        BY <1>0, EventWithin
      <4>6. PICK z \in Seq(Nat) : g = b \o z  BY <4>5
      <4> HIDE DEF b, g
      <4>7. Len(b) <= Len(g) /\ \A i \in 1..Len(b) : g[i] = b[i]
        BY <4>4, <4>6, ConcatProperties
      <4>8. IsPrefix(emitted'[K], g)  BY <4>2, <4>3, <4>4, <4>7, PrefixOf
      <4>9. gen \in sampled'  BY <1>0 DEF IInv, Covering, Reading
      <4> QED BY <4>1, <4>8, <4>9, <1>0 DEF Sampled, g
    <3> QED BY <3>1, <3>2
  <2> QED BY <2>1 DEF Prefixed
<1>21. Once'
  <2>1. ASSUME NEW l \in Latch PROVE OfKind(heard', l) = OfKind(heard, l)
    <3>1. l # K  BY <1>0, LatchApart
    <3>2. OfKind(heard \o new, l) = OfKind(heard, l) \o <<>>
      <4>1. OfKind(new, l) = <<>>  BY <3>1, <1>8, Zenon
      <4>2. heard \in Seq(Atom) /\ new \in Seq(Atom)  BY <1>5, <1>6
      <4>3. OfKind(heard \o new, l) = OfKind(heard, l) \o OfKind(new, l)
        <5> HIDE DEF new
        <5> QED BY <4>2, OfKindConcat
      <4> QED BY <4>1, <4>3, Zenon
    <3>3. OfKind(heard, l) \in Seq(Atom)  BY <1>5, OfKindType
    <3>4. OfKind(heard \o new, l) = OfKind(heard, l)  BY <3>2, <3>3
    <3> QED BY <3>4, <1>0
  <2> QED BY <2>1, <1>0 DEF IInv, Once
<1> QED BY <1>11, <1>12, <1>17, <1>18, <1>19, <1>20, <1>21 DEF IInv

-----------------------------------------------------------------------------
(* A divergence. *)

\* A prefix with more in it than an answer has, or with another value, is of another answer.
LEMMA OtherAnswer ==
    ASSUME IInv, Reading, NEW k \in Checked, NEW i \in 1..Len(emitted[k]),
           \/ Len(Content(gen, k)) < i
           \/ emitted[k][i] # Content(gen, k)[i]
    PROVE  TwoAnswers
<1>1. /\ gen \in sampled /\ sampled \subseteq Seq(Atom) /\ emitted[k] \in Seq(Nat)
      /\ k \in Tracked
  <2>1. k \in Tracked  BY DEF Checked, Tracked, Deltas
  <2>2. emitted \in [Tracked -> Seq(Nat)] /\ sampled \subseteq Answer  BY DEF IInv, Typed
  <2> QED BY <2>1, <2>2, StreamAssumption DEF IInv, Covering
<1>2. PICK g \in sampled \cup {<<>>} : IsPrefix(emitted[k], Content(g, k))
  BY DEF IInv, Prefixed, Sampled
<1>3. g \in Seq(Atom)
  <2>1. <<>> \in Seq(Atom)  OBVIOUS
  <2> QED BY <2>1, <1>1
<1> DEFINE e == emitted[k]
           c == Content(g, k)
<1>4. e \in Seq(Nat) /\ c \in Seq(Nat) /\ IsPrefix(e, c)  BY <1>1, <1>2, <1>3, OfKindType
<1> HIDE DEF e, c
<1>5. Len(e) <= Len(c) /\ \A j \in 1..Len(e) : e[j] = c[j]  BY <1>4, PrefixAt
<1>6. i \in 1..Len(e) /\ Len(e) \in Nat /\ Len(c) \in Nat  BY <1>4 DEF e
<1>7. e[i] = c[i] /\ ~(Len(c) < i) /\ Len(c) # 0  BY <1>5, <1>6
<1>8. g # gen
  <2> SUFFICES ASSUME g = gen PROVE FALSE  OBVIOUS
  <2>1. c = Content(gen, k)  BY DEF c
  <2> QED BY <2>1, <1>7 DEF e
<1>9. g # <<>>
  <2> SUFFICES ASSUME g = <<>> PROVE FALSE  OBVIOUS
  <2>1. c = <<>>  BY OfKindEmpty DEF c
  <2> QED BY <2>1, <1>7
<1> QED BY <1>1, <1>2, <1>8, <1>9 DEF TwoAnswers

\* A delta that contradicts what was passed on is of another answer.
LEMMA DivergeKeeps ==
    ASSUME IInv, NEW n \in Nat \ {0}, Diverge(n) PROVE IInv'
<1> DEFINE q == Consumed(n)
<1>0. /\ Typed /\ Event(n) /\ Kind \in Tracked /\ ~Reproduces(n) /\ Diverged /\ Apart
      /\ phase = "stream"
  BY DEF IInv, Diverge, Event, Streaming, Apart
<1>1. Kind \in Checked  BY <1>0 DEF Reproduces, Checked, Tracked, Deltas
<1>2. PICK i \in 1..q : emitted[Kind][seen[Kind] + i] # gen[pos + i].val
  BY <1>0 DEF Reproduces
<1>3. /\ emitted[Kind] \in Seq(Nat) /\ seen[Kind] \in Nat /\ Len(emitted[Kind]) \in Nat
      /\ seen[Kind] <= Len(emitted[Kind]) /\ seen[Kind] = Len(Arrived(Kind))
  BY <1>0 DEF IInv, Typed, Level, Covering, Reading
<1>4. i \in 1..n /\ seen[Kind] + i \in 1..Len(emitted[Kind])
  <2>1. q = IF Len(emitted[Kind]) - seen[Kind] < n THEN Len(emitted[Kind]) - seen[Kind] ELSE n
    BY DEF Consumed
  <2> HIDE DEF q
  <2> QED BY <2>1, <1>2, <1>3
<1>5. Content(gen, Kind)[seen[Kind] + i] = gen[pos + i].val
  <2> DEFINE a == Arrived(Kind)
             v == Vals(n)
             b == a \o v
  <2>1. v \in Seq(Nat) /\ Len(v) = n /\ v[i] = gen[pos + i].val  BY <1>0, <1>4, EventArrives
  <2>2. a \in Seq(Nat)
    <3>1. gen \in Seq(Atom) /\ pos \in Nat /\ pos <= Len(gen)  BY <1>0, GenType
    <3>2. SubSeq(gen, 1, pos) \in Seq(Atom)  BY <3>1
    <3> QED BY <3>2, OfKindType DEF Arrived
  <2>3. PICK z \in Seq(Nat) : Content(gen, Kind) = b \o z  BY <1>0, EventWithin
  <2> HIDE DEF a, v
  <2>4. Joined(a, v)  BY <2>1, <2>2, JoinedRest, Zenon
  <2>5. b \in Seq(Nat) /\ Len(b) = Len(a) + Len(v) /\ \A j \in 1..Len(v) : b[Len(a) + j] = v[j]
    BY <2>4, Zenon DEF Joined
  <2> HIDE DEF b
  <2>6. Joined(b, z)  BY <2>5, JoinedRest, Zenon
  <2>7. \A j \in 1..Len(b) : (b \o z)[j] = b[j]  BY <2>6, Zenon DEF Joined
  <2>8. seen[Kind] + i \in 1..Len(b) /\ b[seen[Kind] + i] = v[i]
    <3>1. seen[Kind] = Len(a) /\ i \in 1..Len(v) /\ Len(a) \in Nat /\ Len(v) \in Nat
      BY <1>3, <1>4, <2>1, <2>2 DEF a
    <3>2. Len(a) + i \in 1..Len(a) + Len(v)  BY <3>1
    <3> QED BY <3>1, <3>2, <2>5, Zenon
  <2> QED BY <2>1, <2>3, <2>7, <2>8, Zenon
<1>6. TwoAnswers
  <2> DEFINE j == seen[Kind] + i
             K == Kind
  <2>1. /\ K \in Checked /\ j \in 1..Len(emitted[K]) /\ emitted[K][j] # Content(gen, K)[j]
        /\ Reading
    BY <1>0, <1>1, <1>2, <1>4, <1>5, Zenon DEF Reading
  <2> HIDE DEF j, K
  <2> QED BY <2>1, OtherAnswer, Zenon
<1> QED BY <1>0, <1>6, DivergedKeeps DEF Live

\* A whole answer has arrived.
LEMMA AllArrived ==
    ASSUME Typed, pos = Len(gen) PROVE \A k : Arrived(k) = Content(gen, k)
<1>1. SubSeq(gen, 1, pos) = gen  BY GenType
<1> QED BY <1>1 DEF Arrived

\* An answer ends when all of it has arrived.
LEMMA CompleteKeeps ==
    ASSUME IInv, Complete PROVE IInv'
<1> USE StreamAssumption
<1>0. Typed /\ phase = "stream" /\ Apart /\ pos = Len(gen)
  BY DEF IInv, Complete, Streaming, Apart
<1>1. CASE Short /\ Diverged
  <2>1. PICK k \in Checked : seen[k] < expected[k]  BY <1>1 DEF Short, Checked, Deltas
  <2>2. k \in Tracked  BY DEF Checked, Tracked, Deltas
  <2>3. /\ seen[k] = Len(Content(gen, k)) /\ expected[k] <= Len(emitted[k])
        /\ emitted[k] \in Seq(Nat) /\ seen[k] \in Nat /\ expected[k] \in Nat
    BY <2>2, <1>0, AllArrived DEF IInv, Typed, Level, Covering, Reading
  <2>4. expected[k] \in 1..Len(emitted[k]) /\ Len(Content(gen, k)) < expected[k]
    BY <2>1, <2>3
  <2>5. TwoAnswers  BY <2>4, <1>0, OtherAnswer DEF Reading
  <2> QED BY <1>0, <1>1, <2>5, DivergedKeeps DEF Live
<1>2. CASE /\ ~Short /\ phase' = "completed"
           /\ UNCHANGED <<why, sending, tries, skip, cursor, agent, sampled>>
  <2> USE DEF sending, skip, cursor, agent, Apart, stream
  <2>1. Typed'  BY <1>0, <1>2 DEF Typed, Live
  <2>2. Level'  BY <1>0, <1>2 DEF IInv, Level, Reading
  <2>3. Covering'  BY <1>0, <1>2 DEF IInv, Covering, Reading, Arrived
  <2>4. Finished' /\ DivergenceIsReal'
    BY <1>0, <1>2 DEF IInv, Finished, Short, DivergenceIsReal
  <2>5. Passed' /\ Prefixed' /\ Once'  BY <1>2, Held
  <2> QED BY <2>1, <2>2, <2>3, <2>4, <2>5 DEF IInv
<1> QED BY <1>1, <1>2 DEF Complete

-----------------------------------------------------------------------------
(* The other actions. *)
LEMMA AcceptedKeeps ==
    ASSUME IInv, NEW g \in Answer, Accepted(g) PROVE IInv'
<1> USE StreamAssumption
<1>0. /\ Typed /\ phase = "send" /\ gen' = g /\ pos' = 0 /\ sampled' = sampled \cup {g}
      /\ phase' = "stream"
      /\ UNCHANGED <<why, sends, rotated, tries, emitted, latched, seen, expected, heard, touched,
                     spare, cancelled>>
  BY DEF IInv, Accepted, Sending, sending, skip, cursor, agent
<1>1. Typed'
  <2>1. g \in Seq(Atom) /\ pos' \in 0..Len(gen')  BY <1>0
  <2> QED BY <1>0, <2>1 DEF Typed, Live
<1>2. Level'  BY <1>0 DEF IInv, Level, Reading
<1>3. \A k : Arrived(k)' = <<>>
  <2>1. SubSeq(g, 1, 0) = <<>>  OBVIOUS
  <2> QED BY <2>1, <1>0, OfKindEmpty DEF Arrived
<1>4. \A k \in Tracked : seen[k] = 0  BY <1>0 DEF IInv, Level, Reading
<1>5. Covering'
  <2>1. Checked \subseteq Tracked  BY DEF Checked, Tracked, Deltas
  <2>2. ASSUME NEW k \in Tracked PROVE seen'[k] = Len(Arrived(k)')  BY <1>0, <1>3, <1>4
  <2>3. ASSUME NEW k \in Checked PROVE \A i \in 1..seen'[k] : emitted'[k][i] = Arrived(k)'[i]
    BY <1>0, <1>4, <2>1
  <2> QED BY <1>0, <2>2, <2>3 DEF Covering
<1>6. Finished' /\ DivergenceIsReal'
  BY <1>0 DEF Finished, DivergenceIsReal, Typed, Live
<1>7. Passed' /\ Prefixed' /\ Once'  BY <1>0, Held
<1> QED BY <1>1, <1>2, <1>5, <1>6, <1>7 DEF IInv

\* A new attempt begins at the start of the prefix.
LEMMA ResumeKeeps ==
    ASSUME IInv, Resume PROVE IInv'
<1> USE StreamAssumption
<1>0. /\ Typed /\ phase = "pause" /\ phase' = "send" /\ sends' = 0 /\ rotated' = FALSE
      /\ seen' = Zero /\ expected' = [k \in Tracked |-> Len(emitted[k])]
      /\ UNCHANGED <<why, tries, gen, pos, emitted, latched, heard, touched, spare, cancelled,
                     sampled>>
  BY DEF IInv, Resume, stream, skip, agent
<1>1. \A k \in Tracked : emitted[k] \in Seq(Nat) /\ Len(emitted[k]) \in Nat
  BY <1>0 DEF Typed
<1>2. Typed'
  <2>1. sends' \in 0..MaxRetries  BY <1>0
  <2>2. seen' \in [Tracked -> Nat] /\ expected' \in [Tracked -> Nat]
    BY <1>0, <1>1, NothingType
  <2> QED BY <1>0, <2>1, <2>2 DEF Typed, Live
<1>3. Level'
  <2>1. ASSUME NEW k \in Tracked
        PROVE  /\ seen'[k] <= Len(emitted'[k]) /\ expected'[k] <= Len(emitted'[k])
               /\ Len(emitted'[k]) \in {seen'[k], expected'[k]}
               /\ seen'[k] = 0
    BY <1>0, <1>1, NothingType
  <2> QED BY <2>1 DEF Level
<1>4. Covering' /\ Finished' /\ DivergenceIsReal'
  BY <1>0 DEF IInv, Covering, Finished, DivergenceIsReal, Reading, Typed, Live
<1>5. Passed' /\ Prefixed' /\ Once'  BY <1>0, Held
<1> QED BY <1>2, <1>3, <1>4, <1>5 DEF IInv

\* A step that leaves what was passed on, and where the answer is
LEMMA QuietKeeps ==
    ASSUME IInv, Typed', DivergenceIsReal', Level',
           phase' \notin {"stream", "completed"} \/ UNCHANGED phase,
           UNCHANGED <<gen, pos, emitted, latched, seen, expected, heard, sampled>>
    PROVE  IInv'
<1>1. Passed' /\ Prefixed' /\ Once'  BY Held
<1>2. \A k : Arrived(k)' = Arrived(k)  BY DEF Arrived
<1>3. Covering' /\ Finished'
  BY <1>2 DEF IInv, Covering, Finished, Reading, Short
<1> QED BY <1>1, <1>3 DEF IInv

\* Throttles and a rotated key change no answer.
LEMMA SendKeeps ==
    ASSUME IInv, Throttled \/ BackedOff \/ Rotate PROVE IInv'
<1> USE StreamAssumption DEF sending, stream, skip, cursor, agent
<1>0. Typed  BY DEF IInv
<1>1. CASE Throttled
  <2>1. Typed'  BY <1>0, <1>1 DEF Typed, Live, Throttled, Sending
  <2>2. Level' /\ DivergenceIsReal'
    BY <1>1 DEF IInv, Level, DivergenceIsReal, Reading, Throttled, Sending
  <2> QED BY <1>1, <2>1, <2>2, QuietKeeps DEF Throttled
<1>2. CASE BackedOff
  <2>0. sends' \in 0..MaxRetries  BY <1>0, <1>2 DEF Typed, BackedOff
  <2>1. Typed'  BY <1>0, <1>2, <2>0 DEF Typed, Live, BackedOff
  <2>2. Level' /\ DivergenceIsReal'
    BY <1>2 DEF IInv, Level, DivergenceIsReal, Reading, BackedOff
  <2> QED BY <1>2, <2>1, <2>2, QuietKeeps DEF BackedOff
<1>3. CASE Rotate
  <2>0. sends' \in 0..MaxRetries  BY <1>3 DEF Rotate
  <2>1. Typed'  BY <1>0, <1>3, <2>0 DEF Typed, Live, Rotate, Sending
  <2>2. Level' /\ DivergenceIsReal'
    BY <1>3 DEF IInv, Level, DivergenceIsReal, Reading, Rotate
  <2> QED BY <1>3, <2>1, <2>2, QuietKeeps DEF Rotate
<1> QED BY <1>1, <1>2, <1>3

\* A request that fails, in any of the ways it can.
LEMMA FailKeeps ==
    ASSUME IInv, \/ Unauthorized \/ Lost \/ Broken \/ IdleTimeout
                 \/ \E b \in BOOLEAN : GivesUp(b) \/ KeyFails(b)
                 \/ \E error \in {"refused", "overflow"} : Refused(error)
    PROVE  IInv'
<1> USE DEF Live, Apart
<1>1. CASE Unauthorized
  BY <1>1, AgentFailsKeeps DEF Unauthorized, Sending, Reasons
<1>2. CASE Lost
  <2>1. "stream" \in Reasons /\ Reconnect("stream", emitted, tries + 1) /\ Live /\ Apart
    BY <1>2 DEF Lost, Streaming, Reasons
  <2> QED BY <2>1, ReconnectKeeps
<1>3. CASE Broken
  BY <1>3, AgentFailsKeeps DEF Broken, Streaming, Reasons
<1>4. CASE IdleTimeout
  BY <1>4, AgentFailsKeeps DEF IdleTimeout, Reasons
<1>5. ASSUME NEW b \in BOOLEAN, GivesUp(b) PROVE IInv'
  <2>1. "request" \in Reasons /\ Reconnect("request", emitted, tries + 1) /\ Live /\ Apart
    BY <1>5 DEF GivesUp, Sending, Reasons
  <2> QED BY <2>1, ReconnectKeeps
<1>6. ASSUME NEW b \in BOOLEAN, KeyFails(b) PROVE IInv'
  <2>1. "auth" \in Reasons /\ Live /\ Apart  BY <1>6 DEF KeyFails, Sending, Reasons
  <2>2. CASE Reconnect("auth", emitted, tries + 1)  BY <2>1, <2>2, ReconnectKeeps
  <2>3. CASE AgentFails("auth")  BY <2>1, <2>3, AgentFailsKeeps
  <2> QED BY <1>6, <2>2, <2>3 DEF KeyFails
<1>7. ASSUME NEW error \in {"refused", "overflow"}, Refused(error) PROVE IInv'
  <2>1. error \in Reasons /\ error # "diverged" /\ AgentFails(error) /\ Live /\ Apart
    BY <1>7 DEF Refused, Sending, Reasons
  <2> QED BY <2>1, AgentFailsKeeps
<1> QED BY <1>1, <1>2, <1>3, <1>4, <1>5, <1>6, <1>7

\* A cancel, and a step of nobody.
LEMMA StopKeeps ==
    ASSUME IInv, Cancel \/ StopCancelled \/ UNCHANGED vars PROVE IInv'
<1> USE StreamAssumption DEF sending, stream, skip, cursor, agent
<1>0. Typed  BY DEF IInv
<1>1. CASE Cancel
  <2>1. Typed'  BY <1>0, <1>1 DEF Typed, Live, Cancel
  <2>2. Level' /\ DivergenceIsReal'
    BY <1>1 DEF IInv, Level, DivergenceIsReal, Reading, Cancel
  <2> QED BY <1>1, <2>1, <2>2, QuietKeeps DEF Cancel
<1>2. CASE StopCancelled
  <2>1. Typed'  BY <1>0, <1>2 DEF Typed, Live, StopCancelled
  <2>2. Level' /\ DivergenceIsReal'
    BY <1>0, <1>2 DEF IInv, Level, DivergenceIsReal, Reading, StopCancelled, Typed
  <2>3. phase' \notin {"stream", "completed"}  BY <1>2 DEF StopCancelled
  <2> QED BY <1>2, <2>1, <2>2, <2>3, QuietKeeps DEF StopCancelled
<1>3. CASE UNCHANGED vars
  <2>1. Typed'  BY <1>0, <1>3 DEF Typed, Live, vars
  <2>2. Level' /\ DivergenceIsReal'
    BY <1>3 DEF IInv, Level, DivergenceIsReal, Reading, vars
  <2> QED BY <1>3, <2>1, <2>2, QuietKeeps DEF vars
<1> QED BY <1>1, <1>2, <1>3

\* Every step keeps the invariant.
LEMMA NextKeeps ==
    ASSUME IInv, [Next]_vars PROVE IInv'
<1>1. CASE Step
  <2>1. ASSUME NEW g \in Answer, Accepted(g) PROVE IInv'  BY <2>1, AcceptedKeeps
  <2>2. CASE Throttled \/ BackedOff \/ Rotate  BY <2>2, SendKeeps
  <2>3. CASE \/ Unauthorized \/ Lost \/ Broken \/ IdleTimeout
             \/ \E b \in BOOLEAN : GivesUp(b) \/ KeyFails(b)
             \/ \E error \in {"refused", "overflow"} : Refused(error)
    BY <2>3, FailKeeps
  <2>4. CASE Announce  BY <2>4, AnnounceKeeps
  <2>5. CASE Complete  BY <2>5, CompleteKeeps
  <2>6. CASE Resume  BY <2>6, ResumeKeeps
  <2>7. CASE StopCancelled  BY <2>7, StopKeeps
  <2>8. ASSUME NEW n \in 1..Len(gen), Deliver(n) \/ Diverge(n) PROVE IInv'
    <3>1. n \in Nat \ {0}  OBVIOUS
    <3> QED BY <2>8, <3>1, DeliverKeeps, DivergeKeeps
  <2> QED BY <1>1, <2>1, <2>2, <2>3, <2>4, <2>5, <2>6, <2>7, <2>8 DEF Step
<1>2. CASE Cancel \/ Done \/ UNCHANGED vars
  BY <1>2, StopKeeps DEF Done
<1> QED BY <1>1, <1>2 DEF Next

\* The invariant holds in every state that can be reached.
THEOREM Inductive == Spec => []IInv
<1>1. Init => IInv  BY InitIInv
<1>2. IInv /\ [Next]_vars => IInv'  BY NextKeeps
<1> QED BY <1>1, <1>2, PTL DEF Spec

-----------------------------------------------------------------------------
(* What the runs check. *)
LEMMA IInvTypeOK == IInv => TypeOK
<1> SUFFICES ASSUME IInv PROVE TypeOK  OBVIOUS
<1>1. Typed  BY DEF IInv
<1>2. DOMAIN emitted = Tracked  BY <1>1 DEF Typed
<1>3. ASSUME phase = "stream", NEW k \in Tracked
      PROVE  {seen[k], expected[k]} \subseteq 0..Len(emitted[k])
  BY <1>1, <1>3 DEF IInv, Typed, Level, Reading
<1> QED BY <1>1, <1>2, <1>3 DEF Typed, TypeOK

\* The beginning of one answer is one generation.
LEMMA IInvOneGeneration == IInv => OneGeneration
<1> SUFFICES ASSUME IInv PROVE OneGeneration  OBVIOUS
<1>0. Typed  BY DEF IInv
<1>1. \E g \in sampled \cup {<<>>} : IsPrefix(Content(heard, "text"), Content(g, "text"))
  <2>1. Content(heard, "text") = emitted["text"]  BY DEF IInv, Passed
  <2> QED BY <2>1 DEF IInv, Prefixed, Sampled, Checked
<1>2. ASSUME phase = "completed", NEW k \in {"text", "call"} PROVE Same(gen, k)
  <2>1. k \in Tracked /\ k \in Checked /\ k \in Deltas \cup {"call"}
    BY DEF Tracked, Deltas, Checked
  <2>2. /\ emitted[k] \in Seq(Nat) /\ seen[k] \in Nat /\ expected[k] \in Nat
        /\ seen[k] <= Len(emitted[k]) /\ expected[k] <= Len(emitted[k])
        /\ Len(emitted[k]) = seen[k] \/ Len(emitted[k]) = expected[k]
    BY <2>1, <1>0, <1>2 DEF IInv, Typed, Level, Reading
  <2>3. ~(seen[k] < expected[k]) /\ pos = Len(gen)
    BY <2>1, <1>2 DEF IInv, Finished, Short
  <2>4. Arrived(k) = Content(gen, k)  BY <2>3, <1>0, AllArrived
  <2> DEFINE e == emitted[k]
             a == Content(gen, k)
  <2>5. /\ seen[k] = Len(a) /\ \A i \in 1..seen[k] : e[i] = a[i]
    BY <2>1, <2>4, <1>2 DEF IInv, Covering, Reading
  <2>6. a \in Seq(Nat)  BY <1>0, GenType, OfKindType
  <2>7. Len(e) = seen[k]  BY <2>2, <2>3
  <2>8. Content(heard, k) = e  BY DEF IInv, Passed
  <2> HIDE DEF e, a
  <2>9. e = a  BY <2>2, <2>5, <2>6, <2>7, SeqEqual DEF e
  <2> QED BY <2>8, <2>9 DEF Same, a
<1>3. ASSUME NEW l \in Latch PROVE Len(OfKind(heard, l)) <= 1
  <2>1. Len(OfKind(heard, l)) = IF l \in latched THEN 1 ELSE 0  BY DEF IInv, Once
  <2> QED BY <2>1
<1> QED BY <1>1, <1>2, <1>3 DEF OneGeneration

\* Every attempt, cursor and budget stays within its bounds (retry.rs: attempt, SkipCursor).
THEOREM TypeCorrect == Spec => []TypeOK
BY Inductive, IInvTypeOK, PTL

\* Whatever the provider samples, however it is cut and however often the stream breaks, the
\* agent never holds parts of two answers (StreamSkipState), and a completed request has the
\* whole of the last one.
THEOREM OneAnswer == Spec => []OneGeneration
BY Inductive, IInvOneGeneration, PTL

\* skip_validated_prefix and check_complete never take an answer to diverge from itself.
THEOREM DivergenceReal == Spec => []DivergenceIsReal
<1>1. IInv => DivergenceIsReal  BY DEF IInv
<1> QED BY <1>1, Inductive, PTL

=============================================================================
