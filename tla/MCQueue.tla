------------------------------ MODULE MCQueue -------------------------------
(***************************************************************************)
(* Two application tasks of different priorities and one queue.            *)
(***************************************************************************)
EXTENDS Queue

MCPriority == [i \in 0 .. 3 |-> CASE i = 0 -> 1 [] i = 1 -> 2 [] i = 2 -> 3
                                  [] OTHER -> 0]
=============================================================================
