---------------------------- MODULE MCShadowLock ----------------------------
(* Bounds for ShadowLock: two processes that may come back.                 *)
EXTENDS ShadowLock

CONSTANTS a, b

MCProcess == {a, b}

=============================================================================
