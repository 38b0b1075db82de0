---------------------------- MODULE MCSessionLog -----------------------------
(* Bounds for SessionLog: two tasks, a log that holds two small events. *)
EXTENDS SessionLog

CONSTANTS t1, t2

MCThread == {t1, t2}
MCOneThread == {t1}
MCKind == {"session_started", "user_message", "replay"}
MCSize == [k \in {"session_started", "user_message", "replay", "assistant_completed",
                  "session_resumed"} |-> IF k = "replay" THEN 5 ELSE 2]
MCDurability == {"turn"}
=============================================================================
