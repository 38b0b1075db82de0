---------------------------- MODULE MCCheckpoint ----------------------------
(* Bounds for Checkpoint: two calls of a turn on two files.                  *)
EXTENDS Checkpoint

CONSTANTS c1, c2, e1

MCFile == {1, 2}
MCEdit == {e1}

TwoCalls == {c1, c2}
OneTurn == [c \in TwoCalls |-> 1]

\* The two calls are interchangeable: same turn, same possible edits.
Calls == Permutations(TwoCalls)

=============================================================================
