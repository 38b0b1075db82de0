------------------------------ MODULE PathLock ------------------------------
(***************************************************************************)
(* What the per-realpath mutation queue of squeezy-tools promises to the   *)
(* mutation tools, without any of its machinery: a file has at most one    *)
(* holder, a holder takes its files one at a time and gives all of them    *)
(* back at once when its guards are dropped.                               *)
(***************************************************************************)
CONSTANTS Task,   \* the tool calls
          Key     \* the files

VARIABLE holder   \* holder[k]: the calls that hold file k

Free == [k \in Key |-> {}]

Init == holder = Free

\* A call takes one more file that nobody holds.
Take(t, k) ==
    /\ holder[k] = {}
    /\ holder' = [holder EXCEPT ![k] = {t}]

\* A call drops every guard it owns.
Drop(t) == holder' = [k \in Key |-> holder[k] \ {t}]

Next == \E t \in Task : Drop(t) \/ \E k \in Key : Take(t, k)

Spec == Init /\ [][Next]_holder

=============================================================================
