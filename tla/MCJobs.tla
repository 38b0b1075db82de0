------------------------------- MODULE MCJobs --------------------------------
(* Bounds for Jobs: local calls and calls of a turn beside a small registry. *)
EXTENDS Jobs

CONSTANTS l1, l2, t

MCLocalCall == {l1, l2}
MCTurnCall == {t}

=============================================================================
