-------------------------- MODULE MCTurnLifecycle --------------------------
(* Bounds for TurnLifecycle: model values for follow-ups and pins.          *)
EXTENDS TurnLifecycle

CONSTANTS f1, p1

MCFollowUp == {f1}
MCPin == {p1}

=============================================================================
