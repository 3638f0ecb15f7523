---------------------------- MODULE MCEventGroup ----------------------------
(***************************************************************************)
(* Two application tasks of different priorities and one event group.      *)
(***************************************************************************)
EXTENDS EventGroup

MCPriority == [i \in 0 .. 3 |-> CASE i = 0 -> 1 [] i = 1 -> 2 [] i = 2 -> 3
                                  [] OTHER -> 0]

\* Wait for all of two bits and for any of one, clearing and not.
MCRequest == {[bits |-> {1, 2}, all |-> TRUE, clear |-> TRUE],
              [bits |-> {1, 2}, all |-> FALSE, clear |-> FALSE],
              [bits |-> {2}, all |-> FALSE, clear |-> TRUE]}

MCSetMask == {{1}, {2}}
=============================================================================
