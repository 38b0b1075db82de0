--------------------------- MODULE MCMutationQueue ---------------------------
(* Bounds for MutationQueue: three calls on four paths, of which path 4 is   *)
(* a symlink to path 1.                                                     *)
EXTENDS MutationQueue

CONSTANTS t1, t2, t3

MCTask == {t1, t2, t3}
MCKey == 1..4

Edit(k) == [kind |-> "search_replace", path |-> k, to |-> k]
On(kind, k) == [kind |-> kind, path |-> k, to |-> k]
Move(j, k) == [kind |-> "move_file", path |-> j, to |-> k]
Call(os) == [dry |-> FALSE, ops |-> os]

MCLinks == [k \in MCKey |-> IF k = 4 THEN 1 ELSE k]

\* Overlapping touch sets in both orders, every kind of operation, a repeated
\* edit, a conflicting batch, a preview, and two names of one file.
MCRequests ==
    [t \in MCTask |->
       CASE t = t1 -> {Call(<<Edit(2), Edit(1)>>), Call(<<On("write_file", 3)>>),
                       Call(<<On("notebook_edit", 2)>>)}
         [] t = t2 -> {Call(<<Edit(1), Edit(1), On("delete_file", 2)>>),
                       Call(<<Move(2, 3)>>), Call(<<Edit(1), On("delete_file", 1)>>)}
         [] t = t3 -> {Call(<<Edit(4), Edit(2)>>), Call(<<On("create_file", 3), Edit(2)>>),
                       [dry |-> TRUE, ops |-> <<Edit(2)>>]}]

=============================================================================
