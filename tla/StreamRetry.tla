---------------------------- MODULE StreamRetry ----------------------------
(***************************************************************************)
(* One request of a turn to the model (squeezy-llm/src/retry.rs and the     *)
(* event loop of squeezy-agent/src/lib.rs): a request that is sent again    *)
(* after a throttle or with a rotated key, and a stream that is opened      *)
(* again after it broke.  The provider samples a new answer each time it is *)
(* asked, so that what the consumer has got already is checked against the  *)
(* new answer and suppressed, never sent twice.                             *)
(*                                                                         *)
(* An answer is a sequence of atoms.  A delta is one or more atoms of text  *)
(* or reasoning: the network decides how an answer is cut.                  *)
(***************************************************************************)
EXTENDS Naturals, Sequences, SequencesExt, Subsequence

CONSTANTS Answer,      \* the answers the provider may sample
          MaxRetries,  \* request_max_retries
          MaxStreams,  \* stream_max_retries
          Routed,      \* whether the turn starts on a cheaper model
          CanRotate    \* whether the key source can rotate the credential

Deltas == {"text", "reason"}
Tracked == Deltas \cup {"call", "sealed"}
Latch == {"started", "model"}

\* a call has the id its provider gave it for val
Atom == [kind : Tracked \cup Latch, val : Nat]

ASSUME StreamAssumption ==
    /\ Answer \subseteq Seq(Atom) /\ MaxRetries \in Nat /\ MaxStreams \in Nat
    /\ Routed \in BOOLEAN /\ CanRotate \in BOOLEAN

VARIABLES phase,     \* where the request is
          why,       \* why it ended
          sends,     \* attempt of send_with_retry
          rotated,   \* the key was rotated in this attempt
          tries,     \* attempt of with_stream_retry
          gen,       \* the answer this attempt streams
          pos,       \* how much of it has arrived
          emitted,   \* StreamSkipState: what was passed on, by kind
          latched,   \* StreamSkipState: started, emitted_server_model
          seen,      \* SkipCursor: how much of it this attempt has covered
          expected,  \* SkipCursor: how much there was when the attempt began
          heard,     \* what the agent holds of this answer: text, calls, what was announced
          touched,   \* round_output_bytes > 0
          spare,     \* one-shot recoveries of the agent not used yet
          cancelled, \* the turn's token
          sampled    \* the answers sampled since the agent last asked afresh

sending == <<sends, rotated>>
stream == <<gen, pos>>
skip == <<emitted, latched>>
cursor == <<seen, expected>>
agent == <<heard, touched, spare>>
vars == <<phase, why, sends, rotated, tries, gen, pos, emitted, latched, seen, expected, heard,
          touched, spare, cancelled, sampled>>

Nothing == [k \in Tracked |-> <<>>]
Zero == [k \in Tracked |-> 0]

Init ==
    /\ phase = "send" /\ why = "none"
    /\ sends = 0 /\ rotated = FALSE /\ tries = 0
    /\ gen = <<>> /\ pos = 0
    /\ emitted = Nothing /\ latched = {}
    /\ seen = Zero /\ expected = Zero
    /\ heard = <<>> /\ touched = FALSE
    /\ spare = {"compaction"} \cup (IF Routed THEN {"parent"} ELSE {})
    /\ cancelled = FALSE
    /\ sampled = {}

OfKind(s, k) == Only(s, [kind : {k}, val : Nat])

\* the text, or the ids of the calls, of an answer
Content(s, k) == LET own == OfKind(s, k) IN [i \in DOMAIN own |-> own[i].val]

-----------------------------------------------------------------------------
(* How an attempt ends. *)

Untouched == ~touched /\ \A i \in DOMAIN heard : heard[i].kind # "call"

\* The agent gets an error: it asks once more with a compacted conversation or with the
\* parent model if nothing of an answer has reached it, or the turn fails.
AgentFails(error) ==
    \/ \E s \in spare :
           /\ Untouched /\ (s = "compaction" => error = "overflow")
           /\ spare' = spare \ (IF error = "overflow" THEN {s, "compaction"} ELSE {s})
           /\ phase' = "send" /\ tries' = 0
           /\ sends' = 0 /\ rotated' = FALSE
           /\ emitted' = Nothing /\ latched' = {} /\ seen' = Zero /\ expected' = Zero
           /\ heard' = <<>> /\ sampled' = {}
           /\ UNCHANGED touched
           /\ UNCHANGED why
    \/ /\ ~(Untouched /\ "parent" \in spare)
       /\ phase' = "failed" /\ why' = error
       /\ UNCHANGED <<sends, rotated, tries, skip, cursor, agent, sampled>>

\* is_uncommitted
Uncommitted == emitted["text"] = <<>> /\ emitted["call"] = <<>>

\* Mutation: a restart from scratch has a budget of its own.
FreshBudget == 0

\* a restart costs an attempt like any other reconnect
Restarted == tries + 1

\* Mutation: one attempt too many
OneMore == tries <= MaxStreams

MayReconnect == tries < MaxStreams

\* with_stream_retry after a transient error, with the prefix that is still to be covered
Reconnect(error, prefix, next) ==
    \/ /\ MayReconnect
       /\ tries' = next
       /\ phase' = "pause"
       /\ emitted' = prefix
       /\ UNCHANGED <<why, sending, latched, cursor, agent, sampled>>
    \/ ~MayReconnect /\ AgentFails(error)

Live == phase \in {"send", "backoff", "stream", "pause"}

\* A divergence restarts the stream while nothing is committed, else it is fatal
\* (reset_content_for_restart keeps the latches).
Diverged ==
    \/ Uncommitted /\ Reconnect("diverged", Nothing, Restarted)
    \/ ~Uncommitted /\ AgentFails("diverged")

-----------------------------------------------------------------------------
(* send_with_auth_retry and send_with_retry. *)
Sending == phase = "send" /\ ~cancelled

\* A stream opens, with an answer of its own: no seed is pinned.
Accepted(g) ==
    /\ Sending
    /\ gen' = g /\ pos' = 0
    /\ sampled' = sampled \cup {g}
    /\ phase' = "stream"
    /\ UNCHANGED <<why, sending, tries, skip, cursor, agent, cancelled>>

\* 429, 5xx or a transport error: wait and send again
Throttled ==
    /\ Sending /\ sends < MaxRetries
    /\ phase' = "backoff"
    /\ UNCHANGED <<why, sending, tries, stream, skip, cursor, agent, cancelled, sampled>>

BackedOff ==
    /\ phase = "backoff" /\ ~cancelled
    /\ sends' = sends + 1
    /\ phase' = "send"
    /\ UNCHANGED <<why, rotated, tries, stream, skip, cursor, agent, cancelled, sampled>>

\* The budget is used up, or the quota is: the error is a retryable one for the stream.
GivesUp(quota) ==
    /\ Sending /\ (quota \/ sends = MaxRetries)
    /\ Reconnect("request", emitted, tries + 1)
    /\ UNCHANGED <<stream, cancelled>>

\* 401 or 403: once with a fresh key, and a budget of its own
Rotate ==
    /\ Sending /\ CanRotate /\ ~rotated
    /\ rotated' = TRUE /\ sends' = 0
    /\ UNCHANGED <<phase, why, tries, stream, skip, cursor, agent, cancelled, sampled>>

Unauthorized ==
    /\ Sending /\ (CanRotate => rotated)
    /\ AgentFails("auth")
    /\ UNCHANGED <<stream, cancelled>>

\* current_key fails before the first send with that key: a refresh that did not work may be
\* tried again, a configuration error may not.
KeyFails(transient) ==
    /\ Sending /\ sends = 0
    /\ IF transient THEN Reconnect("auth", emitted, tries + 1) ELSE AgentFails("auth")
    /\ UNCHANGED <<stream, cancelled>>

\* an error marked NON_RETRYABLE, or a prompt that is too long (ContextOverflow, then the error)
Refused(error) ==
    /\ Sending
    /\ AgentFails(error)
    /\ UNCHANGED <<stream, cancelled>>

-----------------------------------------------------------------------------
(* The stream: what arrives is filtered, then handed to the agent. *)
Streaming == phase = "stream" /\ ~cancelled

\* the next event: an atom, or several of one kind in a delta
Event(n) ==
    /\ Streaming /\ pos + n <= Len(gen)
    /\ \A i \in 2..n : gen[pos + i].kind = gen[pos + 1].kind /\ gen[pos + 1].kind \in Deltas

Kind == gen[pos + 1].kind
Vals(n) == [i \in 1..n |-> gen[pos + i].val]

\* the part of the prefix that n atoms cover
Consumed(n) ==
    LET already == Len(emitted[Kind]) - seen[Kind] IN IF already < n THEN already ELSE n

\* Mutation: what is skipped is not compared.
ByCount(n) == TRUE

\* skip_validated_prefix; the seals are only counted
Reproduces(n) ==
    \/ Kind = "sealed"
    \/ \A i \in 1..Consumed(n) : emitted[Kind][seen[Kind] + i] = gen[pos + i].val

\* Mutation: the cursor advances by what was compared only.
Compared(n) == seen[Kind] + Consumed(n)

\* It advances by the whole delta, for the rest becomes part of the prefix.
Covered(n) == seen[Kind] + n

\* Started and ServerModel pass once.
Announce ==
    /\ Event(1) /\ Kind \in Latch
    /\ pos' = pos + 1
    /\ latched' = latched \cup {Kind}
    /\ heard' = IF Kind \in latched THEN heard ELSE Append(heard, gen[pos + 1])
    /\ UNCHANGED <<phase, why, sending, tries, gen, emitted, cursor, touched, spare, cancelled,
                   sampled>>

\* An event that reproduces its part of the prefix: what is new in it is passed on.
Deliver(n) ==
    /\ Event(n) /\ Kind \in Tracked /\ Reproduces(n)
    /\ pos' = pos + n
    /\ seen' = [seen EXCEPT ![Kind] = Covered(n)]
    /\ emitted' = [emitted EXCEPT ![Kind] = @ \o SubSeq(Vals(n), Consumed(n) + 1, n)]
    /\ LET new == SubSeq(gen, pos + Consumed(n) + 1, pos + n)
       IN  /\ heard' = IF Kind \in {"text", "call"} THEN heard \o new ELSE heard
           /\ touched' = (touched \/ (Kind \in Deltas /\ new # <<>>))
    /\ UNCHANGED <<phase, why, sending, tries, gen, latched, expected, spare, cancelled, sampled>>

\* One that does not.
Diverge(n) ==
    /\ Event(n) /\ Kind \in Tracked /\ ~Reproduces(n)
    /\ Diverged
    /\ UNCHANGED <<stream, cancelled>>

\* check_complete
Short == \E k \in Deltas \cup {"call"} : seen[k] < expected[k]

Complete ==
    /\ Streaming /\ pos = Len(gen)
    /\ \/ Short /\ Diverged
       \/ /\ ~Short
          /\ phase' = "completed"
          /\ UNCHANGED <<why, sending, tries, skip, cursor, agent, sampled>>
    /\ UNCHANGED <<stream, cancelled>>

\* The connection is reset, ends without Completed, or sends what cannot be parsed.
Lost ==
    /\ Streaming
    /\ Reconnect("stream", emitted, tries + 1)
    /\ UNCHANGED <<stream, cancelled>>

\* an error in the stream that is marked NON_RETRYABLE
Broken ==
    /\ Streaming
    /\ AgentFails("refused")
    /\ UNCHANGED <<stream, cancelled>>

\* The pause is over: the next attempt, with a cursor of its own.
Resume ==
    /\ phase = "pause" /\ ~cancelled
    /\ phase' = "send"
    /\ sends' = 0 /\ rotated' = FALSE
    /\ seen' = Zero
    /\ expected' = [k \in Tracked |-> Len(emitted[k])]
    /\ UNCHANGED <<why, tries, stream, skip, agent, cancelled, sampled>>

-----------------------------------------------------------------------------
(* The agent and the user. *)

\* next_llm_stream_event: nothing for stream_idle_timeout, whatever the layers below wait for
IdleTimeout ==
    /\ Live /\ ~cancelled
    /\ AgentFails("idle")
    /\ UNCHANGED <<stream, cancelled>>

Cancel ==
    /\ Live /\ ~cancelled
    /\ cancelled' = TRUE
    /\ UNCHANGED <<phase, why, sending, tries, stream, skip, cursor, agent, sampled>>

\* The agent sees its token, or the error with which a wait below it was cancelled.
StopCancelled ==
    /\ Live /\ cancelled
    /\ \/ phase' = "cancelled" /\ UNCHANGED why
       \/ phase' = "failed" /\ why' = "cancelled"
    /\ UNCHANGED <<sending, tries, stream, skip, cursor, agent, cancelled, sampled>>

Step ==
    \/ \E g \in Answer : Accepted(g)
    \/ Throttled \/ BackedOff \/ Rotate \/ Unauthorized
    \/ \E b \in BOOLEAN : GivesUp(b) \/ KeyFails(b)
    \/ \E error \in {"refused", "overflow"} : Refused(error)
    \/ Announce \/ Complete \/ Lost \/ Broken \/ Resume \/ IdleTimeout \/ StopCancelled
    \/ \E n \in 1..Len(gen) : Deliver(n) \/ Diverge(n)

Done == ~Live /\ UNCHANGED vars

Next == Step \/ Cancel \/ Done

Spec == Init /\ [][Next]_vars

\* A wait ends: with an event, with its backoff, or with stream_idle_timeout.
FairSpec == Spec /\ WF_vars(Step)

-----------------------------------------------------------------------------
TypeOK ==
    /\ phase \in {"send", "backoff", "stream", "pause", "completed", "failed", "cancelled"}
    /\ why \in {"none", "request", "auth", "refused", "overflow", "stream", "diverged", "idle",
                "cancelled"}
    /\ sends \in 0..MaxRetries /\ tries \in 0..MaxStreams /\ rotated \in BOOLEAN
    /\ gen \in Answer \cup {<<>>} /\ pos \in 0..Len(gen)
    /\ DOMAIN emitted = Tracked /\ latched \subseteq Latch
    /\ phase = "stream" =>
           \A k \in Tracked : {seen[k], expected[k]} \subseteq 0..Len(emitted[k])
    /\ heard \in Seq(Atom) /\ touched \in BOOLEAN /\ spare \subseteq {"compaction", "parent"}
    /\ cancelled \in BOOLEAN /\ sampled \subseteq Answer

Same(g, k) == Content(heard, k) = Content(g, k)

\* However often the stream is opened again and wherever an answer is cut, the text the agent
\* holds (and keeps when the turn fails) is the beginning of one answer of the model, and a
\* completed request has the whole text and the calls of the last one, announced once.
OneGeneration ==
    /\ \E g \in sampled \cup {<<>>} : IsPrefix(Content(heard, "text"), Content(g, "text"))
    /\ phase = "completed" => Same(gen, "text") /\ Same(gen, "call")
    /\ \A l \in Latch : Len(OfKind(heard, l)) <= 1

\* A turn fails with "stream reconnect diverged" only when the provider did answer
\* differently: an answer is never taken to diverge from itself.
DivergenceIsReal ==
    why = "diverged" => \E g, h \in sampled : g # h

\* A request ends, whatever the provider does: no restart, rotation or recovery gives it an
\* unbounded number of attempts.
RequestEnds == Live ~> ~Live

=============================================================================
