------------------------------- MODULE MCTimer ------------------------------
(***************************************************************************)
(* One application task, the timer service and two timers.                 *)
(***************************************************************************)
EXTENDS Timer

\* The default: the service shares the priority of the application's task.
MCPriority == [i \in 0 .. 2 |-> IF i = 2 THEN 0 ELSE 1]

\* The other timer is linked by its first start.
MCCreated == <<"a">>

MCTimerDelay == [x \in JRT_Timer |-> IF x = "a" THEN {2} ELSE {0, 1}]
=============================================================================
