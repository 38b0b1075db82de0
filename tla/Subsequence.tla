----------------------------- MODULE Subsequence -----------------------------
(***************************************************************************)
(* What Iterator::filter leaves of a sequence, written as a recursive      *)
(* function: the provers know nothing of SelectSeq.                        *)
(***************************************************************************)
EXTENDS Naturals, Sequences

\* The elements of s that are in S, in the order they have in s.
Only(s, S) ==
    LET keep[i \in 0..Len(s)] ==
            IF i = 0 THEN <<>>
            ELSE IF s[i] \in S THEN Append(keep[i - 1], s[i]) ELSE keep[i - 1]
    IN  keep[Len(s)]

=============================================================================
