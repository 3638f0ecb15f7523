--------------------------- MODULE MCNotification ---------------------------
(***************************************************************************)
(* Two application tasks of different priorities that notify each other.   *)
(***************************************************************************)
EXTENDS Notification

MCPriority == [i \in 0 .. 3 |-> CASE i = 0 -> 1 [] i = 1 -> 2 [] i = 2 -> 3
                                  [] OTHER -> 0]
=============================================================================
